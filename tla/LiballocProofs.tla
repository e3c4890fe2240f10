--------------------------- MODULE LiballocProofs ---------------------------
(***************************************************************************)
(* Proofs about Liballoc, for every size of page, tag, request and         *)
(* address space: the structures of the heap agree with each other after   *)
(* every call, and the heap implements Heap.  Each function of the file    *)
(* is described field by field (Removed, Inserted, Melted, Cut,            *)
(* Allocated); then it is shown to keep a heap Sound, which it is between  *)
(* any two steps of a call; then kernel_malloc and kernel_free are put     *)
(* together from them and keep it Good, which adds what holds between the  *)
(* calls.                                                                  *)
(***************************************************************************)
EXTENDS Liballoc, NaturalLemmas

(* A heap, as the functions of the file take and return it.                *)
TagFields == [size : Nat, real_size : Nat, index : Classes \cup {-1},
              left : Nat, right : Nat, next : Nat, prev : Nat]

Heaped(h) ==
  /\ h \in [tag : {h.tag}, free : {h.free}, complete : {h.complete}]
  /\ DOMAIN h.tag \subseteq Nat \ {0}
  /\ IsFiniteSet(DOMAIN h.tag)
  /\ h.tag \in [DOMAIN h.tag -> TagFields]
  /\ h.free \in [Classes -> Nat]
  /\ h.complete \in [Classes -> Int]

-----------------------------------------------------------------------------
(* What each function does to a heap, field by field.                      *)
Removed(h, t, g) ==
  /\ Heaped(g)
  /\ DOMAIN g.tag = DOMAIN h.tag
  /\ g.complete = h.complete
  /\ \A i \in Classes :
       g.free[i] = IF i = h.tag[t].index /\ h.free[i] = t THEN h.tag[t].next ELSE h.free[i]
  /\ \A a \in DOMAIN h.tag :
       /\ g.tag[a].size = h.tag[a].size
       /\ g.tag[a].real_size = h.tag[a].real_size
       /\ g.tag[a].left = h.tag[a].left
       /\ g.tag[a].right = h.tag[a].right
       /\ g.tag[a].index = IF a = t THEN -1 ELSE h.tag[a].index
       /\ g.tag[a].next = IF a = t THEN NULL
                          ELSE IF a = h.tag[t].prev THEN h.tag[t].next ELSE h.tag[a].next
       /\ g.tag[a].prev = IF a = t THEN NULL
                          ELSE IF a = h.tag[t].next THEN h.tag[t].prev ELSE h.tag[a].prev

Inserted(h, t, i, g) ==
  /\ Heaped(g)
  /\ DOMAIN g.tag = DOMAIN h.tag
  /\ g.complete = h.complete
  /\ \A j \in Classes : g.free[j] = IF j = i THEN t ELSE h.free[j]
  /\ \A a \in DOMAIN h.tag :
       /\ g.tag[a].size = h.tag[a].size
       /\ g.tag[a].real_size = h.tag[a].real_size
       /\ g.tag[a].left = h.tag[a].left
       /\ g.tag[a].right = h.tag[a].right
       /\ g.tag[a].index = IF a = t THEN i ELSE h.tag[a].index
       /\ g.tag[a].next = IF a = t THEN h.free[i] ELSE h.tag[a].next
       /\ g.tag[a].prev = IF a = t THEN NULL ELSE IF a = h.free[i] THEN t ELSE h.tag[a].prev

Melted(h, l, r, g) ==
  /\ Heaped(g)
  /\ DOMAIN g.tag = DOMAIN h.tag \ {r}
  /\ g.complete = h.complete /\ g.free = h.free
  /\ \A a \in DOMAIN h.tag \ {r} :
       /\ g.tag[a].size = h.tag[a].size
       /\ g.tag[a].real_size = IF a = l THEN h.tag[l].real_size + h.tag[r].real_size
                               ELSE h.tag[a].real_size
       /\ g.tag[a].left = IF a = h.tag[r].right THEN l ELSE h.tag[a].left
       /\ g.tag[a].right = IF a = l THEN h.tag[r].right ELSE h.tag[a].right
       /\ g.tag[a].index = h.tag[a].index
       /\ g.tag[a].next = h.tag[a].next
       /\ g.tag[a].prev = h.tag[a].prev

(* split_tag up to its call of insert_tag.                                 *)
Cut(h, t, new, g) ==
  /\ Heaped(g)
  /\ DOMAIN g.tag = DOMAIN h.tag \cup {new}
  /\ g.complete = h.complete /\ g.free = h.free
  /\ \A a \in DOMAIN h.tag :
       /\ g.tag[a].size = h.tag[a].size
       /\ g.tag[a].real_size = IF a = t THEN new - t ELSE h.tag[a].real_size
       /\ g.tag[a].left = IF a = h.tag[t].right THEN new ELSE h.tag[a].left
       /\ g.tag[a].right = IF a = t THEN new ELSE h.tag[a].right
       /\ g.tag[a].index = h.tag[a].index
       /\ g.tag[a].next = h.tag[a].next
       /\ g.tag[a].prev = h.tag[a].prev
  /\ g.tag[new].size = 0
  /\ g.tag[new].real_size = t + h.tag[t].real_size - new
  /\ g.tag[new].index = -1
  /\ g.tag[new].left = t /\ g.tag[new].right = h.tag[t].right
  /\ g.tag[new].next = NULL /\ g.tag[new].prev = NULL

Allocated(h, new, length, g) ==
  /\ Heaped(g)
  /\ DOMAIN g.tag = DOMAIN h.tag \cup {new}
  /\ g.complete = h.complete /\ g.free = h.free
  /\ \A a \in DOMAIN h.tag : g.tag[a] = h.tag[a]
  /\ g.tag[new] = NewTag(length)

(* Only a size and a counter change.                                       *)
Relabelled(h, t, size, g) ==
  /\ Heaped(g)
  /\ DOMAIN g.tag = DOMAIN h.tag
  /\ g.free = h.free
  /\ \A a \in DOMAIN h.tag :
       /\ g.tag[a].size = IF a = t THEN size ELSE h.tag[a].size
       /\ g.tag[a].real_size = h.tag[a].real_size
       /\ g.tag[a].left = h.tag[a].left
       /\ g.tag[a].right = h.tag[a].right
       /\ g.tag[a].index = h.tag[a].index
       /\ g.tag[a].next = h.tag[a].next
       /\ g.tag[a].prev = h.tag[a].prev

(* remove_tag, insert_tag, melt_left and absorb_right, split_tag and       *)
(* allocate_new_tag do to a heap what these relations say.                 *)
LEMMA RemovedIs ==
  ASSUME NEW h, Heaped(h), NEW t \in DOMAIN h.tag, h.tag[t].index \in Classes
  PROVE  Removed(h, t, remove_tag(h, t))
<1> DEFINE D == DOMAIN h.tag
           r == h.tag[t]
           next(a) == IF a = t THEN NULL ELSE IF a = r.prev THEN r.next ELSE h.tag[a].next
           prev(a) == IF a = t THEN NULL ELSE IF a = r.next THEN r.prev ELSE h.tag[a].prev
           index(a) == IF a = t THEN -1 ELSE h.tag[a].index
           T == [a \in D |-> [h.tag[a] EXCEPT !.next = next(a), !.prev = prev(a),
                                              !.index = index(a)]]
           F == [h.free EXCEPT ![r.index] = IF h.free[r.index] = t THEN r.next
                                            ELSE h.free[r.index]]
           g == remove_tag(h, t)
<1>1. /\ g.tag = T /\ g.free = F /\ g.complete = h.complete
      /\ g \in [tag : {g.tag}, free : {g.free}, complete : {g.complete}]
  BY DEF Heaped, remove_tag
<1>2. r \in TagFields /\ \A a \in D : h.tag[a] \in TagFields
  BY DEF Heaped
<1>3. \A a \in D : next(a) \in Nat /\ prev(a) \in Nat /\ index(a) \in Classes \cup {-1}
  BY <1>2 DEF TagFields, NULL
<1>4. \A a \in D : T[a] \in TagFields
  <2> HIDE DEF next, prev, index
  <2> QED BY <1>2, <1>3 DEF TagFields
<1>5. \A a \in D : /\ T[a].size = h.tag[a].size
                   /\ T[a].real_size = h.tag[a].real_size
                   /\ T[a].left = h.tag[a].left
                   /\ T[a].right = h.tag[a].right
                   /\ T[a].index = index(a)
                   /\ T[a].next = next(a)
                   /\ T[a].prev = prev(a)
  <2> HIDE DEF next, prev, index, r
  <2> QED BY <1>2 DEF TagFields
<1>6. T \in [D -> TagFields] /\ DOMAIN T = D
  <2> HIDE DEF next, prev, index
  <2> QED BY <1>4
<1>7. F \in [Classes -> Nat]
      /\ \A i \in Classes : F[i] = IF i = r.index /\ h.free[i] = t THEN r.next ELSE h.free[i]
  BY <1>2 DEF Heaped, TagFields
<1> HIDE DEF T, F, g
<1>8. Heaped(g)
  BY <1>1, <1>6, <1>7 DEF Heaped
<1>9. QED
  BY <1>1, <1>5, <1>6, <1>7, <1>8 DEF Removed, g

LEMMA InsertedIs ==
  ASSUME NEW h, Heaped(h), NEW t \in DOMAIN h.tag, NEW i \in Classes,
         h.tag[t].next = NULL, h.tag[t].prev = NULL,
         h.free[i] # NULL => /\ h.free[i] \in DOMAIN h.tag
                             /\ h.free[i] # t
                             /\ h.tag[h.free[i]].prev = NULL
  PROVE  Inserted(h, t, i, insert_tag(h, t, i))
<1> DEFINE D == DOMAIN h.tag
           head == h.free[i]
           g == insert_tag(h, t, i)
           F == [h.free EXCEPT ![i] = t]
<1>1. NULL \notin D /\ t \in Nat
  BY DEF Heaped, NULL
<1>2. \A a \in D : h.tag[a] \in TagFields
  BY DEF Heaped
<1>3. F \in [Classes -> Nat] /\ \A j \in Classes : F[j] = IF j = i THEN t ELSE h.free[j]
  BY <1>1 DEF Heaped
<1>4. CASE head = NULL
  <2> DEFINE T == [h.tag EXCEPT ![t].index = i]
  <2>1. /\ g.tag = T /\ g.free = F /\ g.complete = h.complete
        /\ g \in [tag : {g.tag}, free : {g.free}, complete : {g.complete}]
    BY <1>4 DEF Heaped, insert_tag
  <2>2. T \in [D -> TagFields] /\ DOMAIN T = D
    BY <1>2 DEF TagFields, Heaped
  <2>3. \A a \in D :
          /\ T[a].size = h.tag[a].size
          /\ T[a].real_size = h.tag[a].real_size
          /\ T[a].left = h.tag[a].left
          /\ T[a].right = h.tag[a].right
          /\ T[a].index = IF a = t THEN i ELSE h.tag[a].index
          /\ T[a].next = h.tag[a].next
          /\ T[a].prev = h.tag[a].prev
    BY <1>2 DEF TagFields, Heaped
  <2> HIDE DEF T, F, g
  <2>4. Heaped(g)
    BY <1>3, <2>1, <2>2 DEF Heaped
  <2>5. \A a \in D : a # head
    BY <1>1, <1>4
  <2>6. QED
    BY <1>3, <1>4, <2>1, <2>2, <2>3, <2>4, <2>5 DEF Inserted, g
<1>5. CASE head # NULL
  <2> DEFINE T == [h.tag EXCEPT ![t].index = i, ![t].next = head,
                                ![t].prev = h.tag[head].prev,
                                ![h.tag[head].prev].next = t, ![head].prev = t]
             U == [h.tag EXCEPT ![t].index = i, ![t].next = head,
                                ![t].prev = NULL, ![head].prev = t]
  <2>0. head \in D /\ head # t /\ h.tag[head].prev = NULL
    BY <1>5
  <2>1. /\ g.tag = T /\ g.free = F /\ g.complete = h.complete
        /\ g \in [tag : {g.tag}, free : {g.free}, complete : {g.complete}]
    BY <1>5 DEF Heaped, insert_tag
  <2>2. T = U
    BY <1>1, <2>0 DEF Heaped
  <2>3. \A a \in D :
          /\ U[a].size = h.tag[a].size
          /\ U[a].real_size = h.tag[a].real_size
          /\ U[a].left = h.tag[a].left
          /\ U[a].right = h.tag[a].right
          /\ U[a].index = IF a = t THEN i ELSE h.tag[a].index
          /\ U[a].next = IF a = t THEN head ELSE h.tag[a].next
          /\ U[a].prev = IF a = t THEN NULL ELSE IF a = head THEN t ELSE h.tag[a].prev
    BY <1>2, <2>0 DEF TagFields, Heaped
  <2>4. U \in [D -> TagFields] /\ DOMAIN U = D
    BY <1>1, <1>2, <2>0 DEF TagFields, Heaped, NULL
  <2> HIDE DEF T, U, F, g
  <2>5. Heaped(g)
    BY <1>3, <2>1, <2>2, <2>4 DEF Heaped
  <2>6. QED
    BY <1>3, <1>5, <2>1, <2>2, <2>3, <2>4, <2>5 DEF Inserted, g
<1>6. QED
  BY <1>4, <1>5

LEMMA MeltedIs ==
  ASSUME NEW h, Heaped(h), NEW l \in DOMAIN h.tag, NEW r \in DOMAIN h.tag, l # r
  PROVE  Melted(h, l, r, melt(h, l, r))
<1> DEFINE D == DOMAIN h.tag
           right == h.tag[r].right
           rs(a) == IF a = l THEN h.tag[l].real_size + h.tag[r].real_size
                    ELSE h.tag[a].real_size
           lf(a) == IF a = right THEN l ELSE h.tag[a].left
           rt(a) == IF a = l THEN right ELSE h.tag[a].right
           T == [a \in D \ {r} |-> [h.tag[a] EXCEPT !.real_size = rs(a), !.right = rt(a),
                                                    !.left = lf(a)]]
           g == melt(h, l, r)
<1>1. /\ g.tag = T /\ g.free = h.free /\ g.complete = h.complete
      /\ g \in [tag : {g.tag}, free : {g.free}, complete : {g.complete}]
  <2> DEFINE S == [a \in D \ {r} |->
                    [h.tag[a] EXCEPT
                       !.real_size = IF a = l THEN h.tag[a].real_size + h.tag[r].real_size
                                     ELSE h.tag[a].real_size,
                       !.right = IF a = l THEN right ELSE h.tag[a].right,
                       !.left  = IF a = right THEN l ELSE h.tag[a].left]]
  <2>1. /\ g.tag = S /\ g.free = h.free /\ g.complete = h.complete
        /\ g \in [tag : {g.tag}, free : {g.free}, complete : {g.complete}]
    BY DEF Heaped, melt
  <2>2. S = T
    OBVIOUS
  <2>3. QED
    BY <2>1, <2>2
<1>2. /\ \A a \in D : h.tag[a] \in TagFields
      /\ l \in Nat /\ IsFiniteSet(D \ {r}) /\ D \ {r} \subseteq Nat \ {0}
  BY FS_RemoveElement DEF Heaped
<1>3. right \in Nat /\ \A a \in D : rs(a) \in Nat /\ lf(a) \in Nat /\ rt(a) \in Nat
  BY <1>2 DEF TagFields
<1>4. \A a \in D \ {r} : T[a] \in TagFields
  <2> HIDE DEF rs, lf, rt
  <2> QED BY <1>2, <1>3 DEF TagFields
<1>5. \A a \in D \ {r} : /\ T[a].size = h.tag[a].size
                         /\ T[a].real_size = rs(a)
                         /\ T[a].left = lf(a)
                         /\ T[a].right = rt(a)
                         /\ T[a].index = h.tag[a].index
                         /\ T[a].next = h.tag[a].next
                         /\ T[a].prev = h.tag[a].prev
  <2> HIDE DEF rs, lf, rt
  <2> QED BY <1>2 DEF TagFields
<1>6. T \in [D \ {r} -> TagFields] /\ DOMAIN T = D \ {r}
  <2> HIDE DEF rs, lf, rt
  <2> QED BY <1>4
<1> HIDE DEF T, g
<1>7. Heaped(g)
  BY <1>1, <1>2, <1>6 DEF Heaped
<1>8. QED
  BY <1>1, <1>5, <1>6, <1>7 DEF Melted, g

LEMMA CutIs ==
  ASSUME NEW h, Heaped(h), NEW t \in DOMAIN h.tag, NEW new,
         h.tag[t].right # NULL => h.tag[t].right \in DOMAIN h.tag \ {t},
         new = t + TAG + h.tag[t].size, new \notin DOMAIN h.tag,
         TAG + h.tag[t].size <= h.tag[t].real_size
  PROVE  \E g : /\ Cut(h, t, new, g)
                /\ split_tag(h, t) =
                     insert_tag(g, new, Class(h.tag[t].real_size - h.tag[t].size - 2 * TAG))
<1> DEFINE D == DOMAIN h.tag
           r == h.tag[t]
           remainder == r.real_size - TAG - r.size
           nt == [NewTag(remainder) EXCEPT !.left = t, !.right = r.right]
           V == [h.tag EXCEPT ![r.right].left = new, ![t].right = new,
                              ![t].real_size = r.real_size - remainder]
           T == WithTag(V, new, nt)
           g == [h EXCEPT !.tag = T]
<1>1. /\ \A a \in D : h.tag[a] \in TagFields
      /\ NULL \notin D /\ t \in Nat \ {0} /\ IsFiniteSet(D \cup {new}) /\ TAG \in Nat \ {0}
  BY FS_AddElement, LiballocAssumption DEF Heaped, NULL
<1>2. r \in TagFields /\ remainder \in Nat /\ new \in Nat \ {0}
      /\ r.real_size - remainder = new - t /\ new - t \in Nat
      /\ remainder = t + r.real_size - new /\ remainder - TAG = r.real_size - r.size - 2 * TAG
  BY <1>1 DEF TagFields
<1>3. nt \in TagFields /\ nt.size = 0 /\ nt.real_size = remainder /\ nt.index = -1
      /\ nt.left = t /\ nt.right = r.right /\ nt.next = NULL /\ nt.prev = NULL
  BY <1>1, <1>2 DEF TagFields, NewTag, NULL
<1>4. split_tag(h, t) = insert_tag(g, new, Class(r.real_size - r.size - 2 * TAG))
  BY <1>2 DEF split_tag
<1>5. \A a \in D : /\ V[a].size = h.tag[a].size
                   /\ V[a].real_size = IF a = t THEN new - t ELSE h.tag[a].real_size
                   /\ V[a].left = IF a = r.right THEN new ELSE h.tag[a].left
                   /\ V[a].right = IF a = t THEN new ELSE h.tag[a].right
                   /\ V[a].index = h.tag[a].index
                   /\ V[a].next = h.tag[a].next
                   /\ V[a].prev = h.tag[a].prev
  <2> HIDE DEF remainder, nt
  <2> QED BY <1>1, <1>2 DEF TagFields, Heaped
<1>6. V \in [D -> TagFields] /\ DOMAIN V = D
  <2> DEFINE right == r.right
             u == [h.tag EXCEPT ![right].left = new]
             v == [u EXCEPT ![t].right = new, ![t].real_size = r.real_size - remainder]
  <2>1. u \in [D -> TagFields] /\ DOMAIN u = D
    <3> HIDE DEF right, remainder, nt, r
    <3> QED BY <1>1, <1>2 DEF TagFields, Heaped
  <2>2. v \in [D -> TagFields] /\ DOMAIN v = D
    <3> HIDE DEF u, right, remainder, nt
    <3> QED BY <1>1, <1>2, <2>1 DEF TagFields
  <2>3. V = v
    OBVIOUS
  <2>4. QED
    BY <2>2, <2>3
<1> HIDE DEF V, nt, remainder
<1>7. /\ DOMAIN T = D \cup {new} /\ T \in [D \cup {new} -> TagFields]
      /\ T[new] = nt /\ \A a \in D : T[a] = V[a]
  BY <1>3, <1>6 DEF WithTag
<1> HIDE DEF T
<1>8. /\ g.tag = T /\ g.free = h.free /\ g.complete = h.complete
      /\ g \in [tag : {g.tag}, free : {g.free}, complete : {g.complete}]
  BY DEF Heaped
<1> HIDE DEF g
<1>9. Heaped(g)
  BY <1>1, <1>2, <1>7, <1>8 DEF Heaped
<1>10. Cut(h, t, new, g)
  BY <1>2, <1>3, <1>5, <1>7, <1>8, <1>9 DEF Cut
<1>11. QED
  BY <1>4, <1>10

LEMMA AllocatedIs ==
  ASSUME NEW h, Heaped(h), NEW n \in Nat, NEW p \in Nat \ {0}, p * PageSize \notin DOMAIN h.tag
  PROVE  Allocated(h, p * PageSize, n * PageSize, allocate_new_tag(h, n, p))
<1> DEFINE D == DOMAIN h.tag
           nt == NewTag(n * PageSize)
           new == p * PageSize
           T == WithTag(h.tag, new, nt)
           g == allocate_new_tag(h, n, p)
<1>1. new \in Nat \ {0} /\ n * PageSize \in Nat
  BY LiballocAssumption
<1>2. nt \in TagFields
  BY <1>1 DEF NewTag, TagFields, NULL
<1> HIDE DEF nt, new
<1>3. /\ g.tag = T /\ g.free = h.free /\ g.complete = h.complete
      /\ g \in [tag : {g.tag}, free : {g.free}, complete : {g.complete}]
  BY DEF Heaped, allocate_new_tag, nt, new
<1>4. IsFiniteSet(D \cup {new}) /\ D \cup {new} \subseteq Nat \ {0}
  BY <1>1, FS_AddElement DEF Heaped
<1>5. new \notin D
  BY DEF new
<1>6. /\ DOMAIN T = D \cup {new} /\ T \in [D \cup {new} -> TagFields]
      /\ T[new] = nt /\ \A a \in D : T[a] = h.tag[a]
  BY <1>2, <1>5 DEF WithTag, Heaped
<1> HIDE DEF T, g
<1>7. Heaped(g)
  BY <1>3, <1>4, <1>6 DEF Heaped
<1>8. Allocated(h, new, n * PageSize, g)
  BY <1>3, <1>6, <1>7 DEF Allocated, nt
<1>9. QED
  BY <1>8 DEF g, new

LEMMA RelabelledIs ==
  ASSUME NEW h, Heaped(h), NEW t \in DOMAIN h.tag, NEW size \in Nat
  PROVE  /\ Relabelled(h, t, size, [h EXCEPT !.tag[t].size = size])
         /\ [h EXCEPT !.tag[t].size = size].complete = h.complete
<1> DEFINE T == [h.tag EXCEPT ![t].size = size]
           g == [h EXCEPT !.tag[t].size = size]
<1>1. /\ g.tag = T /\ g.free = h.free /\ g.complete = h.complete
      /\ g \in [tag : {g.tag}, free : {g.free}, complete : {g.complete}]
  BY DEF Heaped
<1>2. \A a \in DOMAIN h.tag : h.tag[a] \in TagFields
  BY DEF Heaped
<1>3. \A a \in DOMAIN h.tag : /\ T[a].size = IF a = t THEN size ELSE h.tag[a].size
                              /\ T[a].real_size = h.tag[a].real_size
                              /\ T[a].left = h.tag[a].left
                              /\ T[a].right = h.tag[a].right
                              /\ T[a].index = h.tag[a].index
                              /\ T[a].next = h.tag[a].next
                              /\ T[a].prev = h.tag[a].prev
  BY <1>2 DEF TagFields
<1>4. T \in [DOMAIN h.tag -> TagFields] /\ DOMAIN T = DOMAIN h.tag
  BY <1>2 DEF TagFields, Heaped
<1> HIDE DEF T, g
<1>5. Heaped(g)
  BY <1>1, <1>4 DEF Heaped
<1>6. QED
  BY <1>1, <1>3, <1>4, <1>5 DEF Relabelled, g

-----------------------------------------------------------------------------
(* Tags tile their blocks: neighbours touch and know each other, and a     *)
(* block begins and ends with a page.                                      *)
Tiled(h) ==
  \A t \in DOMAIN h.tag :
    LET r == h.tag[t] IN
    /\ r.real_size >= TAG
    /\ r.right # NULL => /\ r.right \in DOMAIN h.tag
                         /\ r.right = t + r.real_size
                         /\ h.tag[r.right].left = t
    /\ r.right = NULL => (t + r.real_size) % PageSize = 0
    /\ r.left # NULL => r.left \in DOMAIN h.tag /\ h.tag[r.left].right = t
    /\ r.left = NULL => t % PageSize = 0

(* No two tags have an address in common.                                  *)
Apart(h) ==
  \A t, u \in DOMAIN h.tag : t < u => t + h.tag[t].real_size <= u

(* Free tags are linked both ways, each list has one without a             *)
(* predecessor, its head, and tags in use are in no list.                  *)
Linked(h) ==
  /\ \A i \in Classes : h.free[i] # NULL => /\ h.free[i] \in DOMAIN h.tag
                                            /\ h.tag[h.free[i]].index = i
                                            /\ h.tag[h.free[i]].prev = NULL
  /\ \A t \in DOMAIN h.tag :
       LET r == h.tag[t] IN
       /\ r.next # NULL => /\ r.next \in DOMAIN h.tag
                           /\ h.tag[r.next].index = r.index
                           /\ h.tag[r.next].prev = t
       /\ r.prev # NULL => /\ r.prev \in DOMAIN h.tag
                           /\ h.tag[r.prev].index = r.index
                           /\ h.tag[r.prev].next = t
       /\ r.index = -1 => r.next = NULL /\ r.prev = NULL
       /\ r.index # -1 /\ r.prev = NULL => h.free[r.index] = t

(* A set of tags one cannot leave by following list i.                     *)
Closed(h, i, C) ==
  /\ C \subseteq DOMAIN h.tag
  /\ h.free[i] # NULL => h.free[i] \in C
  /\ \A u \in C : h.tag[u].index = i /\ h.tag[u].next # NULL => h.tag[u].next \in C

(* Every free tag is reached from the head of its list.                    *)
Reached(h) ==
  \A i \in Classes : \A C \in SUBSET DOMAIN h.tag :
    Closed(h, i, C) => \A u \in DOMAIN h.tag : h.tag[u].index = i => u \in C

(* What holds between any two steps of a call, too: tags tile, and lists   *)
(* hold the free tags.                                                     *)
Sound(h) == Heaped(h) /\ Tiled(h) /\ Apart(h) /\ Linked(h) /\ Reached(h)

(* Two heaps with the same tiles; with the same lists.                     *)
SameTiles(h, g) ==
  /\ DOMAIN g.tag = DOMAIN h.tag
  /\ \A a \in DOMAIN h.tag : /\ g.tag[a].real_size = h.tag[a].real_size
                             /\ g.tag[a].left = h.tag[a].left
                             /\ g.tag[a].right = h.tag[a].right

SameLists(h, g) ==
  /\ g.free = h.free
  /\ \A a \in DOMAIN h.tag : h.tag[a].index # -1 => a \in DOMAIN g.tag
  /\ \A a \in DOMAIN g.tag :
       \/ /\ a \in DOMAIN h.tag
          /\ g.tag[a].index = h.tag[a].index
          /\ g.tag[a].next = h.tag[a].next
          /\ g.tag[a].prev = h.tag[a].prev
       \/ /\ a \notin DOMAIN h.tag
          /\ g.tag[a].index = -1 /\ g.tag[a].next = NULL /\ g.tag[a].prev = NULL

LEMMA TilesKept ==
  ASSUME NEW h, NEW g, SameTiles(h, g), Tiled(h), Apart(h)
  PROVE  Tiled(g) /\ Apart(g)
BY DEF SameTiles, Tiled, Apart

(* Lists survive what changes neither their heads, nor the links of free   *)
(* tags.                                                                   *)
LEMMA ListsKept ==
  ASSUME NEW h, NEW g, Heaped(h), SameLists(h, g), Linked(h), Reached(h)
  PROVE  Linked(g) /\ Reached(g)
<1>1. ASSUME NEW i \in Classes, h.free[i] # NULL
      PROVE  h.free[i] \in DOMAIN g.tag /\ h.free[i] \in DOMAIN h.tag
  BY <1>1 DEF Linked, SameLists, Classes
<1>2. Linked(g)
  <2>1. \A i \in Classes : i # -1
    BY DEF Classes
  <2>2. \A t \in DOMAIN h.tag : h.tag[t].index \in Classes \cup {-1}
    BY DEF Heaped, TagFields
  <2>3. ASSUME NEW i \in Classes, g.free[i] # NULL
        PROVE  /\ g.free[i] \in DOMAIN g.tag
               /\ g.tag[g.free[i]].index = i
               /\ g.tag[g.free[i]].prev = NULL
    BY <1>1, <2>3 DEF Linked, SameLists
  <2>4. ASSUME NEW t \in DOMAIN g.tag, t \in DOMAIN h.tag
        PROVE  LET r == g.tag[t] IN
               /\ r.next # NULL => /\ r.next \in DOMAIN g.tag
                                   /\ g.tag[r.next].index = r.index
                                   /\ g.tag[r.next].prev = t
               /\ r.prev # NULL => /\ r.prev \in DOMAIN g.tag
                                   /\ g.tag[r.prev].index = r.index
                                   /\ g.tag[r.prev].next = t
               /\ r.index = -1 => r.next = NULL /\ r.prev = NULL
               /\ r.index # -1 /\ r.prev = NULL => g.free[r.index] = t
    BY <2>4 DEF Linked, SameLists
  <2>5. ASSUME NEW t \in DOMAIN g.tag, t \notin DOMAIN h.tag
        PROVE  g.tag[t].next = NULL /\ g.tag[t].prev = NULL /\ g.tag[t].index = -1
    BY <2>5 DEF SameLists
  <2>6. QED
    BY <2>3, <2>4, <2>5 DEF Linked
<1>3. ASSUME NEW i \in Classes, NEW C \in SUBSET DOMAIN g.tag, Closed(g, i, C),
             NEW u \in DOMAIN g.tag, g.tag[u].index = i
      PROVE  u \in C
  <2> DEFINE B == C \cap DOMAIN h.tag
  <2>1. h.free[i] # NULL => h.free[i] \in B
    BY <1>1, <1>3 DEF Closed, SameLists
  <2>2. ASSUME NEW v \in B, h.tag[v].index = i, h.tag[v].next # NULL
        PROVE  h.tag[v].next \in B
    <3>1. v \in DOMAIN g.tag /\ g.tag[v].index = i /\ g.tag[v].next = h.tag[v].next
      BY <1>3, <2>2 DEF Closed, SameLists
    <3>2. h.tag[v].next \in C
      BY <1>3, <2>2, <3>1 DEF Closed
    <3>3. h.tag[v].next \in DOMAIN h.tag
      BY <2>2 DEF Linked
    <3>4. QED
      BY <3>2, <3>3
  <2>3. Closed(h, i, B) /\ B \subseteq DOMAIN h.tag
    BY <2>1, <2>2 DEF Closed
  <2>4. u \in DOMAIN h.tag /\ h.tag[u].index = i
    BY <1>3 DEF SameLists, Classes
  <2>5. QED
    BY <2>3, <2>4 DEF Reached
<1>4. QED
  BY <1>2, <1>3 DEF Reached

(* No tag is its own successor or predecessor in a list: a list of one     *)
(* such tag would not be reached from its head.                            *)
LEMMA NoLoop ==
  ASSUME NEW h, Heaped(h), Linked(h), Reached(h), NEW t \in DOMAIN h.tag
  PROVE  h.tag[t].next # t /\ h.tag[t].prev # t
<1>0. NULL \notin DOMAIN h.tag /\ \A i \in Classes : i # -1
  BY DEF Heaped, NULL, Classes
<1>1. h.tag[t].prev = t => h.tag[t].next = t
  BY <1>0 DEF Linked
<1>2. ASSUME h.tag[t].next = t
      PROVE  FALSE
  <2> DEFINE i == h.tag[t].index
             C == {u \in DOMAIN h.tag : u # t}
  <2>1. t # NULL /\ h.tag[t].prev = t /\ i # -1
    BY <1>0, <1>2 DEF Linked
  <2>2. i \in Classes
    BY <2>1 DEF Heaped, TagFields
  <2>3. h.free[i] # NULL => h.free[i] \in C
    BY <2>1, <2>2 DEF Linked
  <2>4. \A u \in C : h.tag[u].next # NULL => h.tag[u].next \in C
    BY <2>1 DEF Linked
  <2>5. Closed(h, i, C)
    BY <2>3, <2>4 DEF Closed
  <2>6. t \in C
    BY <2>2, <2>5 DEF Reached
  <2>7. QED
    BY <2>6
<1>3. QED
  BY <1>1, <1>2

(* A list is still linked and reached when a tag has left it: what cannot  *)
(* be left after the removal becomes, with or without the tag, what could  *)
(* not be left before.                                                     *)
LEMMA RemoveKeepsLinks ==
  ASSUME NEW h, NEW g, NEW t \in DOMAIN h.tag, Heaped(h), Linked(h), Reached(h),
         h.tag[t].index \in Classes, Removed(h, t, g)
  PROVE  Linked(g) /\ Reached(g)
<1> DEFINE r == h.tag[t]
<1>0. /\ \A a \in DOMAIN h.tag : h.tag[a].index \in Classes \cup {-1}
      /\ \A i \in Classes : i # -1
      /\ NULL \notin DOMAIN h.tag
      /\ \A a \in DOMAIN h.tag : h.tag[a].next # a /\ h.tag[a].prev # a
  <2>1. \A a \in DOMAIN h.tag : h.tag[a].next # a /\ h.tag[a].prev # a
    BY NoLoop
  <2>2. QED
    BY <2>1 DEF Heaped, TagFields, Classes, NULL
<1>1. ASSUME NEW i \in Classes, g.free[i] # NULL
      PROVE  /\ g.free[i] \in DOMAIN g.tag
             /\ g.tag[g.free[i]].index = i
             /\ g.tag[g.free[i]].prev = NULL
  <2>1. CASE i = r.index /\ h.free[i] = t
    BY <1>0, <1>1, <2>1 DEF Linked, Removed
  <2>2. CASE ~(i = r.index /\ h.free[i] = t)
    BY <1>0, <1>1, <2>2 DEF Linked, Removed
  <2>3. QED
    BY <2>1, <2>2
<1>2. ASSUME NEW a \in DOMAIN g.tag
      PROVE  /\ g.tag[a].next # NULL => /\ g.tag[a].next \in DOMAIN g.tag
                                        /\ g.tag[g.tag[a].next].index = g.tag[a].index
                                        /\ g.tag[g.tag[a].next].prev = a
             /\ g.tag[a].prev # NULL => /\ g.tag[a].prev \in DOMAIN g.tag
                                        /\ g.tag[g.tag[a].prev].index = g.tag[a].index
                                        /\ g.tag[g.tag[a].prev].next = a
             /\ g.tag[a].index = -1 => g.tag[a].next = NULL /\ g.tag[a].prev = NULL
             /\ g.tag[a].index # -1 /\ g.tag[a].prev = NULL => g.free[g.tag[a].index] = a
  <2>0. a \in DOMAIN h.tag
    BY DEF Removed
  <2>1. CASE a = t
    BY <2>0, <2>1 DEF Removed
  <2>2. CASE a # t /\ a = r.prev
    <3>1. /\ g.tag[a].next = r.next /\ g.tag[a].index = r.index
          /\ g.tag[a].prev = IF a = r.next THEN a ELSE h.tag[a].prev
      BY <1>0, <2>0, <2>2 DEF Linked, Removed
    <3>2. r.next # NULL => /\ r.next \in DOMAIN h.tag /\ r.next # t
                           /\ h.tag[r.next].index = r.index /\ g.tag[r.next].prev = a
      BY <1>0, <2>0, <2>2 DEF Linked, Removed
    <3>3. a # r.next /\ h.tag[a].prev # NULL =>
            /\ h.tag[a].prev \in DOMAIN h.tag /\ h.tag[a].prev # t /\ h.tag[a].prev # a
            /\ h.tag[h.tag[a].prev].index = r.index
            /\ h.tag[h.tag[a].prev].next = a
      BY <1>0, <2>0, <2>2 DEF Linked
    <3>4. a # r.next /\ h.tag[a].prev = NULL => g.free[r.index] = a
      BY <1>0, <2>0, <2>2 DEF Linked, Removed
    <3>5. r.index # -1
      BY <1>0
    <3>6. a \in DOMAIN h.tag /\ a # NULL
      BY <1>0, <2>0
    <3>7. \A b \in DOMAIN h.tag : b # t => g.tag[b].index = h.tag[b].index
      BY DEF Removed
    <3>8. \A b \in DOMAIN h.tag : b # t /\ b # a => g.tag[b].next = h.tag[b].next
      BY <2>2 DEF Removed
    <3>9. DOMAIN g.tag = DOMAIN h.tag
      BY DEF Removed
    <3>10. QED
      BY <2>2, <3>1, <3>2, <3>3, <3>4, <3>5, <3>6, <3>7, <3>8, <3>9
  <2>3. CASE a # t /\ a # r.prev /\ a = r.next
    <3>1. /\ g.tag[a].next = h.tag[a].next /\ g.tag[a].index = r.index
          /\ g.tag[a].prev = r.prev
      BY <1>0, <2>0, <2>3 DEF Linked, Removed
    <3>2. h.tag[a].next # NULL =>
            /\ h.tag[a].next \in DOMAIN h.tag /\ h.tag[a].next # t /\ h.tag[a].next # a
            /\ h.tag[h.tag[a].next].index = r.index
            /\ g.tag[h.tag[a].next].prev = a
      BY <1>0, <2>0, <2>3 DEF Linked, Removed
    <3>3. r.prev # NULL => /\ r.prev \in DOMAIN h.tag /\ r.prev # t
                           /\ h.tag[r.prev].index = r.index /\ g.tag[r.prev].next = a
      BY <1>0, <2>0, <2>3 DEF Linked, Removed
    <3>4. r.prev = NULL => g.free[r.index] = a
      BY <1>0, <2>0, <2>3 DEF Linked, Removed
    <3>5. r.index # -1
      BY <1>0
    <3>7. \A b \in DOMAIN h.tag : b # t => g.tag[b].index = h.tag[b].index
      BY DEF Removed
    <3>9. DOMAIN g.tag = DOMAIN h.tag
      BY DEF Removed
    <3>10. QED
      BY <2>3, <3>1, <3>2, <3>3, <3>4, <3>5, <3>7, <3>9
  <2>4. CASE a # t /\ a # r.prev /\ a # r.next
    BY <1>0, <2>0, <2>4 DEF Linked, Removed
  <2>5. QED
    BY <2>1, <2>2, <2>3, <2>4
<1>3. Linked(g)
  BY <1>1, <1>2 DEF Linked
<1>4. ASSUME NEW i \in Classes, NEW C \in SUBSET DOMAIN g.tag, Closed(g, i, C),
             NEW u \in DOMAIN g.tag, g.tag[u].index = i
      PROVE  u \in C
  <2> DEFINE B == IF i = r.index /\ (r.prev = NULL \/ r.prev \in C) THEN C \cup {t} ELSE C \ {t}
  <2>0. u \in DOMAIN h.tag /\ u # t /\ h.tag[u].index = i /\ C \subseteq DOMAIN h.tag
    BY <1>0, <1>4 DEF Removed, Closed
  <2>1. h.free[i] # NULL => h.free[i] \in B
    <3>1. CASE h.free[i] = t
      BY <1>0, <3>1 DEF Linked
    <3>2. CASE h.free[i] # t
      BY <1>4, <3>2 DEF Closed, Removed
    <3>3. QED
      BY <3>1, <3>2
  <2>2. ASSUME NEW v \in B, h.tag[v].index = i, h.tag[v].next # NULL
        PROVE  h.tag[v].next \in B
    <3>1. CASE v = t
      <4>1. i = r.index /\ (r.prev = NULL \/ r.prev \in C)
        BY <2>2, <3>1
      <4>2. CASE r.prev = NULL
        <5>1. h.free[i] = t /\ g.free[i] = r.next
          BY <1>0, <4>1, <4>2 DEF Linked, Removed
        <5>2. QED
          BY <1>4, <2>2, <3>1, <4>1, <4>2, <5>1 DEF Closed
      <4>3. CASE r.prev # NULL /\ r.prev \in C
        <5>1. /\ g.tag[r.prev].next = r.next /\ g.tag[r.prev].index = i
          BY <1>0, <2>0, <4>1, <4>3 DEF Linked, Removed
        <5>2. r.next \in C
          BY <1>4, <2>2, <3>1, <4>3, <5>1 DEF Closed
        <5>3. QED
          BY <3>1, <4>1, <4>3, <5>2
      <4>4. QED
        BY <4>1, <4>2, <4>3
    <3>2. CASE v # t /\ v = r.prev
      <4>1. v \in C /\ h.tag[v].next = t /\ r.index = i
        BY <1>0, <2>0, <2>2, <3>2 DEF Linked
      <4>2. QED
        BY <3>2, <4>1
    <3>3. CASE v # t /\ v # r.prev
      <4>1. v \in C /\ v \in DOMAIN h.tag
        BY <2>0, <2>2, <3>3
      <4>2. g.tag[v].next = h.tag[v].next /\ g.tag[v].index = i
        BY <2>2, <3>3, <4>1 DEF Removed
      <4>3. h.tag[v].next \in C
        BY <1>4, <2>2, <4>1, <4>2 DEF Closed
      <4>4. h.tag[v].next # t
        BY <2>2, <3>3, <4>1 DEF Linked
      <4>5. QED
        BY <4>3, <4>4
    <3>4. QED
      BY <3>1, <3>2, <3>3
  <2>3. B \subseteq DOMAIN h.tag
    BY <2>0
  <2>4. u \in B
    <3> HIDE DEF B
    <3> QED BY <2>0, <2>1, <2>2, <2>3 DEF Reached, Closed
  <2>5. QED
    BY <2>0, <2>4
<1>5. QED
  BY <1>3, <1>4 DEF Reached

(* ... and when a tag that was in no list has become the head of one.      *)
LEMMA InsertKeepsLinks ==
  ASSUME NEW h, NEW g, NEW t \in DOMAIN h.tag, NEW i \in Classes,
         Heaped(h), Linked(h), Reached(h), h.tag[t].index = -1, Inserted(h, t, i, g)
  PROVE  Linked(g) /\ Reached(g)
<1>0. /\ \A a \in DOMAIN h.tag : h.tag[a].index \in Classes \cup {-1}
      /\ \A j \in Classes : j # -1
      /\ NULL \notin DOMAIN h.tag
  BY DEF Heaped, TagFields, Classes, NULL
<1>1. ASSUME NEW j \in Classes, g.free[j] # NULL
      PROVE  /\ g.free[j] \in DOMAIN g.tag
             /\ g.tag[g.free[j]].index = j
             /\ g.tag[g.free[j]].prev = NULL
  BY <1>0, <1>1 DEF Linked, Inserted
<1>2. ASSUME NEW a \in DOMAIN g.tag
      PROVE  /\ g.tag[a].next # NULL => /\ g.tag[a].next \in DOMAIN g.tag
                                        /\ g.tag[g.tag[a].next].index = g.tag[a].index
                                        /\ g.tag[g.tag[a].next].prev = a
             /\ g.tag[a].prev # NULL => /\ g.tag[a].prev \in DOMAIN g.tag
                                        /\ g.tag[g.tag[a].prev].index = g.tag[a].index
                                        /\ g.tag[g.tag[a].prev].next = a
             /\ g.tag[a].index = -1 => g.tag[a].next = NULL /\ g.tag[a].prev = NULL
             /\ g.tag[a].index # -1 /\ g.tag[a].prev = NULL => g.free[g.tag[a].index] = a
  <2>0. a \in DOMAIN h.tag
    BY DEF Inserted
  <2>1. CASE a = t
    BY <1>0, <2>0, <2>1 DEF Linked, Inserted
  <2>2. CASE a # t /\ a = h.free[i]
    BY <1>0, <2>0, <2>2 DEF Linked, Inserted
  <2>3. CASE a # t /\ a # h.free[i]
    BY <1>0, <2>0, <2>3 DEF Linked, Inserted
  <2>4. QED
    BY <2>1, <2>2, <2>3
<1>3. Linked(g)
  BY <1>1, <1>2 DEF Linked
<1>4. ASSUME NEW j \in Classes, NEW C \in SUBSET DOMAIN g.tag, Closed(g, j, C),
             NEW u \in DOMAIN g.tag, g.tag[u].index = j
      PROVE  u \in C
  <2>0. u \in DOMAIN h.tag /\ C \subseteq DOMAIN h.tag
    BY <1>4 DEF Inserted, Closed
  <2>1. h.free[j] # NULL => h.free[j] \in C
    <3>1. CASE j = i
      <4>1. g.free[i] = t /\ t \in C /\ g.tag[t].index = i /\ g.tag[t].next = h.free[i]
        BY <1>0, <1>4, <3>1 DEF Inserted, Closed
      <4>2. QED
        BY <1>4, <3>1, <4>1 DEF Closed
    <3>2. CASE j # i
      BY <1>4, <3>2 DEF Inserted, Closed
    <3>3. QED
      BY <3>1, <3>2
  <2>2. ASSUME NEW v \in C, h.tag[v].index = j, h.tag[v].next # NULL
        PROVE  h.tag[v].next \in C
    <3>1. v # t
      BY <1>0, <2>2
    <3>2. g.tag[v].index = j /\ g.tag[v].next = h.tag[v].next
      BY <2>0, <2>2, <3>1 DEF Inserted
    <3>3. QED
      BY <1>4, <2>2, <3>2 DEF Closed
  <2>3. Closed(h, j, C)
    BY <2>0, <2>1, <2>2 DEF Closed
  <2>4. CASE u = t
    <3>1. j = i /\ g.free[i] = t
      BY <1>4, <2>4 DEF Inserted
    <3>2. QED
      BY <1>0, <1>4, <2>4, <3>1 DEF Closed
  <2>5. CASE u # t
    <3>1. h.tag[u].index = j
      BY <1>4, <2>0, <2>5 DEF Inserted
    <3>2. QED
      BY <2>0, <2>3, <3>1 DEF Reached
  <2>6. QED
    BY <2>4, <2>5
<1>5. QED
  BY <1>3, <1>4 DEF Reached

(* Each function keeps the heap sound: remove_tag, ...                     *)
LEMMA RemoveSound ==
  ASSUME NEW h, Sound(h), NEW t \in DOMAIN h.tag, h.tag[t].index \in Classes
  PROVE  Removed(h, t, remove_tag(h, t)) /\ Sound(remove_tag(h, t))
<1> DEFINE g == remove_tag(h, t)
<1>1. Removed(h, t, g)
  BY RemovedIs DEF Sound
<1> HIDE DEF g
<1>2. Linked(g) /\ Reached(g)
  BY <1>1, RemoveKeepsLinks DEF Sound
<1>3. Tiled(g) /\ Apart(g)
  BY <1>1, TilesKept DEF Sound, SameTiles, Removed
<1>4. QED
  BY <1>1, <1>2, <1>3 DEF Sound, Removed, g

(* ... insert_tag, for a tag in no list, ...                               *)
LEMMA InsertSound ==
  ASSUME NEW h, Sound(h), NEW t \in DOMAIN h.tag, h.tag[t].index = -1, NEW i \in Classes
  PROVE  Inserted(h, t, i, insert_tag(h, t, i)) /\ Sound(insert_tag(h, t, i))
<1> DEFINE g == insert_tag(h, t, i)
<1>0. i # -1
  BY DEF Classes
<1>1. Inserted(h, t, i, g)
  BY <1>0, InsertedIs DEF Sound, Linked
<1> HIDE DEF g
<1>2. Linked(g) /\ Reached(g)
  BY <1>1, InsertKeepsLinks DEF Sound
<1>3. Tiled(g) /\ Apart(g)
  BY <1>1, TilesKept DEF Sound, SameTiles, Inserted
<1>4. QED
  BY <1>1, <1>2, <1>3 DEF Sound, Inserted, g

(* Where tags begin and end.                                               *)
LEMMA Ends ==
  ASSUME NEW h, Sound(h), NEW t \in DOMAIN h.tag
  PROVE  /\ t \in Nat /\ t > 0 /\ h.tag[t].real_size \in Nat /\ h.tag[t].real_size > 0
         /\ h.tag[t].right \in Nat /\ h.tag[t].left \in Nat
         /\ h.tag[t].right # NULL => h.tag[t].right > t
BY LiballocAssumption DEF Sound, Heaped, Tiled, TagFields

(* ... melt, for neighbours of which the right one is in no list, ...      *)
LEMMA MeltSound ==
  ASSUME NEW h, Sound(h), NEW l \in DOMAIN h.tag, NEW r \in DOMAIN h.tag,
         h.tag[l].right = r, h.tag[r].index = -1
  PROVE  Melted(h, l, r, melt(h, l, r)) /\ Sound(melt(h, l, r)) /\ l # r
<1> DEFINE g == melt(h, l, r)
           D == DOMAIN h.tag
           right == h.tag[r].right
<1>0. /\ NULL \notin D
      /\ r = l + h.tag[l].real_size /\ l < r /\ h.tag[r].left = l
      /\ \A t \in D : t \in Nat /\ h.tag[t].real_size \in Nat /\ h.tag[t].real_size >= TAG
      /\ TAG \in Nat \ {0}
  BY Ends, LiballocAssumption DEF Sound, Heaped, Tiled, NULL
<1>1. Melted(h, l, r, g)
  BY <1>0, MeltedIs DEF Sound
<1> HIDE DEF g
<1>2. Apart(g)
  <2>1. ASSUME NEW t \in D \ {r}, NEW u \in D \ {r}, t < u
        PROVE  t + g.tag[t].real_size <= u
    <3>1. CASE t = l
      <4>1. r <= u
        BY <1>0, <2>1, <3>1 DEF Sound, Apart
      <4>2. r < u
        BY <1>0, <4>1
      <4>3. r + h.tag[r].real_size <= u
        BY <4>2 DEF Sound, Apart
      <4>4. g.tag[t].real_size = h.tag[l].real_size + h.tag[r].real_size
        BY <1>1, <3>1 DEF Melted
      <4>5. QED
        BY <1>0, <3>1, <4>3, <4>4
    <3>2. CASE t # l
      BY <1>1, <2>1, <3>2 DEF Sound, Apart, Melted
    <3>3. QED
      BY <3>1, <3>2
  <2>2. QED
    BY <1>1, <2>1 DEF Apart, Melted
<1>3. ASSUME NEW t \in D \ {r}
      PROVE  /\ g.tag[t].real_size >= TAG
             /\ g.tag[t].right # NULL => /\ g.tag[t].right \in D \ {r}
                                         /\ g.tag[t].right = t + g.tag[t].real_size
                                         /\ g.tag[g.tag[t].right].left = t
             /\ g.tag[t].right = NULL => (t + g.tag[t].real_size) % PageSize = 0
  <2>1. CASE t = l
    <3>1. g.tag[l].real_size = h.tag[l].real_size + h.tag[r].real_size /\ g.tag[l].right = right
      BY <1>0, <1>1 DEF Melted
    <3>2. l + g.tag[l].real_size = r + h.tag[r].real_size
      BY <1>0, <3>1
    <3>3. right # NULL => right \in D \ {r} /\ right = r + h.tag[r].real_size
      BY <1>0, Ends DEF Sound, Tiled
    <3>4. right # NULL => g.tag[right].left = l
      BY <1>1, <3>3 DEF Melted
    <3>5. right = NULL => (r + h.tag[r].real_size) % PageSize = 0
      BY DEF Sound, Tiled
    <3>6. g.tag[l].real_size >= TAG
      BY <1>0, <3>1
    <3>7. QED
      BY <2>1, <3>1, <3>2, <3>3, <3>4, <3>5, <3>6
  <2>2. CASE t # l
    <3>1. g.tag[t].real_size = h.tag[t].real_size /\ g.tag[t].right = h.tag[t].right
      BY <1>1, <2>2 DEF Melted
    <3>2. h.tag[t].right # NULL => /\ h.tag[t].right \in D \ {r}
                                   /\ h.tag[t].right = t + h.tag[t].real_size
                                   /\ h.tag[h.tag[t].right].left = t
      BY <1>0, <2>2 DEF Sound, Tiled
    <3>3. h.tag[t].right # NULL => h.tag[t].right # right
      BY <3>2 DEF Sound, Tiled
    <3>4. h.tag[t].right # NULL => g.tag[h.tag[t].right].left = t
      BY <1>1, <3>2, <3>3 DEF Melted
    <3>5. h.tag[t].right = NULL => (t + h.tag[t].real_size) % PageSize = 0
      BY DEF Sound, Tiled
    <3>6. QED
      BY <1>0, <3>1, <3>2, <3>4, <3>5
  <2>3. QED
    BY <2>1, <2>2
<1>4. ASSUME NEW t \in D \ {r}
      PROVE  /\ g.tag[t].left # NULL => g.tag[t].left \in D \ {r} /\ g.tag[g.tag[t].left].right = t
             /\ g.tag[t].left = NULL => t % PageSize = 0
  <2>1. CASE t = right
    <3>1. g.tag[t].left = l /\ g.tag[l].right = right /\ l # r
      BY <1>0, <1>1, <2>1 DEF Melted
    <3>2. QED
      BY <1>0, <2>1, <3>1
  <2>2. CASE t # right
    <3>1. g.tag[t].left = h.tag[t].left
      BY <1>1, <2>2 DEF Melted
    <3>2. h.tag[t].left # NULL => /\ h.tag[t].left \in D \ {r} /\ h.tag[t].left # l
                                  /\ h.tag[h.tag[t].left].right = t
      BY <1>0, <2>2 DEF Sound, Tiled
    <3>3. h.tag[t].left # NULL => g.tag[h.tag[t].left].right = t
      BY <1>1, <3>2 DEF Melted
    <3>4. h.tag[t].left = NULL => t % PageSize = 0
      BY DEF Sound, Tiled
    <3>5. QED
      BY <3>1, <3>2, <3>3, <3>4
  <2>3. QED
    BY <2>1, <2>2
<1>5. Tiled(g)
  <2>1. DOMAIN g.tag = D \ {r}
    BY <1>1 DEF Melted
  <2>2. QED
    BY <1>3, <1>4, <2>1 DEF Tiled
<1>6. SameLists(h, g)
  BY <1>1 DEF Melted, SameLists
<1>7. Linked(g) /\ Reached(g)
  BY <1>6, ListsKept DEF Sound
<1>8. Heaped(g)
  BY <1>1 DEF Melted
<1>9. Sound(g)
  BY <1>2, <1>5, <1>7, <1>8 DEF Sound
<1>10. QED
  BY <1>0, <1>1, <1>9 DEF g

(* Multiples of the page size.                                             *)
LEMMA MultipleOfPage ==
  ASSUME NEW k \in Nat
  PROVE  (k * PageSize) % PageSize = 0 /\ (k * PageSize) \div PageSize = k
<1> DEFINE m == k * PageSize
           q == m \div PageSize
           s == m % PageSize
<1>1. m \in Nat /\ PageSize \in Nat \ {0}
  BY LiballocAssumption
<1>2. q \in Nat /\ s \in 0 .. PageSize - 1 /\ m = q * PageSize + s
  <2> HIDE DEF m
  <2> QED BY <1>1
<1>3. k = q
  <2> HIDE DEF q, s
  <2>1. k * PageSize = q * PageSize + s
    BY <1>2 DEF m
  <2>2. CASE k < q
    <3>1. k + 1 <= q /\ (k + 1) * PageSize <= q * PageSize
      BY <1>1, <1>2, <2>2
    <3>2. (k + 1) * PageSize = k * PageSize + PageSize
      BY <1>1
    <3>3. k * PageSize \in Nat /\ q * PageSize \in Nat
      BY <1>1, <1>2
    <3>4. QED
      BY <1>1, <1>2, <2>1, <3>1, <3>2, <3>3
  <2>3. CASE q < k
    <3>1. q + 1 <= k /\ (q + 1) * PageSize <= k * PageSize
      BY <1>1, <1>2, <2>3
    <3>2. (q + 1) * PageSize = q * PageSize + PageSize
      BY <1>1, <1>2
    <3>3. k * PageSize \in Nat /\ q * PageSize \in Nat
      BY <1>1, <1>2
    <3>4. QED
      BY <1>1, <1>2, <2>1, <3>1, <3>2, <3>3
  <2>4. QED
    BY <1>2, <2>2, <2>3
<1>4. s = 0
  <2>1. k * PageSize \in Nat
    BY <1>1
  <2> HIDE DEF q, s
  <2>2. QED
    BY <1>1, <1>2, <1>3, <2>1 DEF m
<1>5. QED
  BY <1>3, <1>4

(* ... split_tag before its insert_tag, if there is room for the second    *)
(* tag, ...                                                                *)
LEMMA CutSound ==
  ASSUME NEW h, Sound(h), NEW t \in DOMAIN h.tag,
         2 * TAG + h.tag[t].size <= h.tag[t].real_size
  PROVE  LET new == t + TAG + h.tag[t].size
         IN  /\ new \notin DOMAIN h.tag
             /\ \E g : /\ Cut(h, t, new, g) /\ Sound(g)
                       /\ split_tag(h, t) =
                            insert_tag(g, new, Class(h.tag[t].real_size - h.tag[t].size - 2 * TAG))
<1> DEFINE D == DOMAIN h.tag
           right == h.tag[t].right
<1>0. /\ NULL \notin D
      /\ \A a \in D : a \in Nat /\ h.tag[a].real_size \in Nat /\ h.tag[a].real_size >= TAG
      /\ TAG \in Nat \ {0} /\ h.tag[t].size \in Nat
  BY Ends, LiballocAssumption DEF Sound, Heaped, Tiled, NULL, TagFields
<1>1. PICK new : new = t + TAG + h.tag[t].size
  OBVIOUS
<1>2. /\ new \in Nat /\ t + TAG <= new /\ new + TAG <= t + h.tag[t].real_size
      /\ TAG + h.tag[t].size <= h.tag[t].real_size
  BY <1>0, <1>1
<1>3. \A a \in D : a <= t \/ t + h.tag[t].real_size <= a
  BY <1>0 DEF Sound, Apart
<1>4. new \notin D
  BY <1>0, <1>2, <1>3
<1>5. right # NULL => right \in D \ {t}
  BY Ends DEF Sound, Tiled
<1>6. PICK g : /\ Cut(h, t, new, g)
               /\ split_tag(h, t) =
                    insert_tag(g, new, Class(h.tag[t].real_size - h.tag[t].size - 2 * TAG))
  BY <1>1, <1>2, <1>4, <1>5, CutIs DEF Sound
<1>7. /\ DOMAIN g.tag = D \cup {new}
      /\ g.tag[new].real_size = t + h.tag[t].real_size - new
      /\ g.tag[t].real_size = new - t
      /\ \A a \in D \ {t} : g.tag[a].real_size = h.tag[a].real_size
  BY <1>6 DEF Cut
<1>8. Apart(g)
  <2>1. ASSUME NEW a \in D \cup {new}, NEW b \in D \cup {new}, a < b
        PROVE  a + g.tag[a].real_size <= b
    <3>1. CASE a = new
      <4>1. b \in D /\ t + h.tag[t].real_size <= b
        BY <1>0, <1>2, <1>3, <2>1, <3>1
      <4>2. QED
        BY <1>0, <1>2, <1>7, <3>1, <4>1
    <3>2. CASE a = t
      <4>1. b = new \/ t + h.tag[t].real_size <= b
        BY <1>0, <1>3, <2>1, <3>2
      <4>2. QED
        BY <1>0, <1>2, <1>4, <1>7, <3>2, <4>1
    <3>3. CASE a # new /\ a # t
      <4>1. a \in D /\ g.tag[a].real_size = h.tag[a].real_size
        BY <1>7, <3>3
      <4>2. CASE b = new
        <5>1. a < t
          BY <1>0, <1>2, <1>3, <2>1, <3>3, <4>1, <4>2
        <5>2. a + h.tag[a].real_size <= t
          BY <4>1, <5>1 DEF Sound, Apart
        <5>3. QED
          BY <1>0, <1>2, <4>1, <4>2, <5>2
      <4>3. CASE b # new
        BY <2>1, <4>1, <4>3 DEF Sound, Apart
      <4>4. QED
        BY <4>2, <4>3
    <3>4. QED
      BY <3>1, <3>2, <3>3
  <2>2. QED
    BY <1>7, <2>1 DEF Apart
<1>9. ASSUME NEW a \in D \cup {new}
      PROVE  /\ g.tag[a].real_size >= TAG
             /\ g.tag[a].right # NULL => /\ g.tag[a].right \in D \cup {new}
                                         /\ g.tag[a].right = a + g.tag[a].real_size
                                         /\ g.tag[g.tag[a].right].left = a
             /\ g.tag[a].right = NULL => (a + g.tag[a].real_size) % PageSize = 0
  <2>1. CASE a = new
    <3>1. g.tag[new].right = right /\ new + g.tag[new].real_size = t + h.tag[t].real_size
          /\ g.tag[new].real_size >= TAG
      BY <1>0, <1>2, <1>6, <1>7 DEF Cut
    <3>2. right # NULL => right \in D /\ right = t + h.tag[t].real_size
      BY DEF Sound, Tiled
    <3>3. right = NULL => (t + h.tag[t].real_size) % PageSize = 0
      BY DEF Sound, Tiled
    <3>4. right # NULL => g.tag[right].left = new
      BY <1>6, <3>2 DEF Cut
    <3>5. QED
      BY <2>1, <3>1, <3>2, <3>3, <3>4
  <2>2. CASE a = t
    <3>1. g.tag[t].right = new /\ g.tag[new].left = t /\ t + (new - t) = new /\ new - t >= TAG
      BY <1>0, <1>2, <1>6 DEF Cut
    <3>2. new # NULL
      BY <1>0, <1>2 DEF NULL
    <3>3. QED
      BY <1>7, <2>2, <3>1, <3>2
  <2>3. CASE a # new /\ a # t
    <3>1. a \in D /\ g.tag[a].right = h.tag[a].right /\ g.tag[a].real_size = h.tag[a].real_size
      BY <1>6, <2>3 DEF Cut
    <3>2. h.tag[a].right # NULL => /\ h.tag[a].right \in D
                                   /\ h.tag[a].right = a + h.tag[a].real_size
                                   /\ h.tag[h.tag[a].right].left = a
      BY <3>1 DEF Sound, Tiled
    <3>3. h.tag[a].right # NULL => h.tag[a].right # right
      BY <2>3, <3>2 DEF Sound, Tiled
    <3>4. h.tag[a].right # NULL => g.tag[h.tag[a].right].left = a
      BY <1>6, <3>2, <3>3 DEF Cut
    <3>5. h.tag[a].right = NULL => (a + h.tag[a].real_size) % PageSize = 0
      BY <3>1 DEF Sound, Tiled
    <3>6. QED
      BY <1>0, <3>1, <3>2, <3>4, <3>5
  <2>4. QED
    BY <2>1, <2>2, <2>3
<1>10. ASSUME NEW a \in D \cup {new}
       PROVE  /\ g.tag[a].left # NULL => /\ g.tag[a].left \in D \cup {new}
                                         /\ g.tag[g.tag[a].left].right = a
              /\ g.tag[a].left = NULL => a % PageSize = 0
  <2>1. CASE a = new
    <3>1. g.tag[new].left = t /\ g.tag[t].right = new
      BY <1>6 DEF Cut
    <3>2. QED
      BY <1>0, <2>1, <3>1
  <2>2. CASE a # new /\ a = right
    <3>1. g.tag[a].left = new /\ g.tag[new].right = a
      BY <1>6, <2>2 DEF Cut
    <3>2. QED
      BY <1>0, <1>2, <3>1 DEF NULL
  <2>3. CASE a # new /\ a # right
    <3>1. a \in D /\ g.tag[a].left = h.tag[a].left
      BY <1>6, <2>3 DEF Cut
    <3>2. h.tag[a].left # NULL => /\ h.tag[a].left \in D /\ h.tag[a].left # t
                                  /\ h.tag[h.tag[a].left].right = a
      BY <2>3, <3>1 DEF Sound, Tiled
    <3>3. h.tag[a].left # NULL => g.tag[h.tag[a].left].right = a
      BY <1>6, <3>2 DEF Cut
    <3>4. h.tag[a].left = NULL => a % PageSize = 0
      BY <3>1 DEF Sound, Tiled
    <3>5. QED
      BY <3>1, <3>2, <3>3, <3>4
  <2>4. QED
    BY <2>1, <2>2, <2>3
<1>11. Tiled(g)
  BY <1>7, <1>9, <1>10 DEF Tiled
<1>12. SameLists(h, g)
  BY <1>4, <1>6 DEF Cut, SameLists
<1>13. Linked(g) /\ Reached(g)
  BY <1>12, ListsKept DEF Sound
<1>14. Heaped(g)
  BY <1>6 DEF Cut
<1>15. Sound(g)
  BY <1>8, <1>11, <1>13, <1>14 DEF Sound
<1>16. QED
  BY <1>1, <1>4, <1>6, <1>15

(* ... allocate_new_tag, if the new pages belong to no block, ...          *)
LEMMA AllocateSound ==
  ASSUME NEW h, Sound(h), NEW n \in Nat, NEW p \in Nat \ {0}, n * PageSize >= TAG,
         \A a \in DOMAIN h.tag :
           a + h.tag[a].real_size <= p * PageSize \/ (p + n) * PageSize <= a
  PROVE  /\ Allocated(h, p * PageSize, n * PageSize, allocate_new_tag(h, n, p))
         /\ Sound(allocate_new_tag(h, n, p))
         /\ p * PageSize \notin DOMAIN h.tag
<1> DEFINE D == DOMAIN h.tag
           g == allocate_new_tag(h, n, p)
<1>0. /\ NULL \notin D
      /\ \A a \in D : a \in Nat /\ h.tag[a].real_size \in Nat /\ h.tag[a].real_size > 0
      /\ TAG \in Nat \ {0} /\ PageSize \in Nat \ {0}
  BY Ends, LiballocAssumption DEF Sound, Heaped, NULL
<1>1. PICK new : new = p * PageSize
  OBVIOUS
<1>2. PICK length : length = n * PageSize
  OBVIOUS
<1>3. /\ new \in Nat \ {0} /\ length \in Nat /\ length >= TAG
      /\ (p + n) * PageSize = new + length
  BY <1>0, <1>1, <1>2
<1>4. \A a \in D : a + h.tag[a].real_size <= new \/ new + length <= a
  BY <1>1, <1>3
<1>5. new \notin D
  BY <1>0, <1>3, <1>4
<1>6. Allocated(h, new, length, g)
  BY <1>1, <1>2, <1>5, AllocatedIs DEF Sound
<1>7. new % PageSize = 0 /\ (new + length) % PageSize = 0
  BY <1>1, <1>3, MultipleOfPage
<1> HIDE DEF g
<1>8. /\ g.tag[new].real_size = length /\ g.tag[new].left = NULL /\ g.tag[new].right = NULL
      /\ g.tag[new].next = NULL /\ g.tag[new].prev = NULL /\ g.tag[new].index = -1
      /\ DOMAIN g.tag = D \cup {new} /\ \A a \in D : g.tag[a] = h.tag[a]
  BY <1>6 DEF Allocated, NewTag
<1>9. Apart(g)
  <2>1. ASSUME NEW a \in D \cup {new}, NEW b \in D \cup {new}, a < b
        PROVE  a + g.tag[a].real_size <= b
    <3>1. CASE a = new
      BY <1>0, <1>3, <1>4, <1>8, <2>1, <3>1
    <3>2. CASE a # new /\ b = new
      BY <1>0, <1>3, <1>4, <1>8, <2>1, <3>2
    <3>3. CASE a # new /\ b # new
      BY <1>8, <2>1, <3>3 DEF Sound, Apart
    <3>4. QED
      BY <3>1, <3>2, <3>3
  <2>2. QED
    BY <1>8, <2>1 DEF Apart
<1>10. Tiled(g)
  <2>1. ASSUME NEW a \in D
        PROVE  LET r == g.tag[a] IN
               /\ r.real_size >= TAG
               /\ r.right # NULL => /\ r.right \in D \cup {new}
                                    /\ r.right = a + r.real_size
                                    /\ g.tag[r.right].left = a
               /\ r.right = NULL => (a + r.real_size) % PageSize = 0
               /\ r.left # NULL => r.left \in D \cup {new} /\ g.tag[r.left].right = a
               /\ r.left = NULL => a % PageSize = 0
    BY <1>8 DEF Sound, Tiled
  <2>2. QED
    BY <1>3, <1>7, <1>8, <2>1 DEF Tiled
<1>11. SameLists(h, g)
  BY <1>5, <1>6, <1>8 DEF Allocated, SameLists
<1>12. Linked(g) /\ Reached(g)
  BY <1>11, ListsKept DEF Sound
<1>13. Heaped(g)
  BY <1>6 DEF Allocated
<1>14. Sound(g)
  BY <1>9, <1>10, <1>12, <1>13 DEF Sound
<1>15. QED
  BY <1>1, <1>2, <1>5, <1>6, <1>14 DEF g

(* ... the store to a tag's size, ...                                      *)
LEMMA RelabelSound ==
  ASSUME NEW h, Sound(h), NEW t, NEW size, NEW g, Relabelled(h, t, size, g)
  PROVE  Sound(g)
<1>1. Tiled(g) /\ Apart(g)
  BY TilesKept DEF Sound, Relabelled, SameTiles
<1>2. SameLists(h, g)
  BY DEF Relabelled, SameLists
<1>3. QED
  BY <1>1, <1>2, ListsKept DEF Sound, Relabelled

(* ... and the count of whole blocks.                                      *)
LEMMA CountSound ==
  ASSUME NEW h, Sound(h), NEW i \in Classes, NEW x \in Int
  PROVE  LET g == [h EXCEPT !.complete[i] = x]
         IN  /\ Sound(g) /\ g.tag = h.tag /\ g.free = h.free
             /\ \A j \in Classes : g.complete[j] = IF j = i THEN x ELSE h.complete[j]
<1> DEFINE g == [h EXCEPT !.complete[i] = x]
<1>1. /\ g.tag = h.tag /\ g.free = h.free /\ g.complete = [h.complete EXCEPT ![i] = x]
      /\ g \in [tag : {g.tag}, free : {g.free}, complete : {g.complete}]
  BY DEF Sound, Heaped
<1>2. /\ [h.complete EXCEPT ![i] = x] \in [Classes -> Int]
      /\ \A j \in Classes : [h.complete EXCEPT ![i] = x][j] = IF j = i THEN x ELSE h.complete[j]
  BY DEF Sound, Heaped
<1> HIDE DEF g
<1>3. Heaped(g)
  BY <1>1, <1>2 DEF Sound, Heaped
<1>4. SameTiles(h, g) /\ SameLists(h, g)
  BY <1>1 DEF SameTiles, SameLists
<1>5. Sound(g)
  BY <1>3, <1>4, TilesKept, ListsKept DEF Sound
<1>6. QED
  BY <1>1, <1>2, <1>5 DEF g

-----------------------------------------------------------------------------
(* The walk through a list stays in it.                                    *)
LEMMA NthFreeIs ==
  ASSUME NEW h, Sound(h), NEW i \in Classes
  PROVE  LET nth == NthFree(h, i)
         IN  /\ nth[0] = h.free[i]
             /\ \A k \in Nat : nth[k + 1] = IF nth[k] = NULL THEN NULL ELSE h.tag[nth[k]].next
             /\ \A k \in Nat : nth[k] # NULL => nth[k] \in DOMAIN h.tag /\ h.tag[nth[k]].index = i
<1> DEFINE D == {a \in DOMAIN h.tag : h.tag[a].index = i} \cup {NULL}
           after(x) == IF x = NULL THEN NULL ELSE h.tag[x].next
           step == [q \in Nat \X D |-> after(q[2])]
           Next1(g, k) == IF k = 0 THEN h.free[i]
                          ELSE IF g[k - 1] = NULL THEN NULL ELSE h.tag[g[k - 1]].next
           Eq(g) == g = [k \in Nat |-> Next1(g, k)]
           F == CHOOSE g : Eq(g)
<1>0. /\ h.free[i] \in D
      /\ \A x \in D : after(x) \in D
  <2>1. h.free[i] \in D
    BY DEF Sound, Linked
  <2>2. ASSUME NEW x \in D
        PROVE  after(x) \in D
    BY DEF Sound, Linked
  <2>3. QED
    BY <2>1, <2>2
<1>1. step \in [Nat \X D -> D]
  <2> HIDE DEF D, after
  <2> QED BY <1>0
<1>2. PICK g : Iterates(g, D, h.free[i], step)
  <2> HIDE DEF step, D
  <2> QED BY <1>0, <1>1, RecursiveFunctionExists
<1>3. /\ g \in [Nat -> D] /\ g[0] = h.free[i]
      /\ \A k \in Nat : g[k + 1] = after(g[k])
  <2>1. /\ g \in [Nat -> D] /\ g[0] = h.free[i]
        /\ \A k \in Nat : g[k + 1] = step[<<k + 1, g[k]>>]
    <3> HIDE DEF step, D
    <3> QED BY <1>2 DEF Iterates
  <2>2. ASSUME NEW k \in Nat
        PROVE  step[<<k + 1, g[k]>>] = after(g[k])
    <3>1. <<k + 1, g[k]>> \in Nat \X D
      <4> HIDE DEF D
      <4> QED BY <2>1
    <3> HIDE DEF D, after
    <3>2. QED
      BY <3>1
  <2>3. QED
    BY <2>1, <2>2
<1>4. Eq(g)
  <2>1. ASSUME NEW k \in Nat
        PROVE  g[k] = Next1(g, k)
    <3>1. CASE k = 0
      BY <1>3, <3>1
    <3>2. CASE k # 0
      <4>1. k - 1 \in Nat /\ (k - 1) + 1 = k
        BY <3>2
      <4>2. g[k] = after(g[k - 1])
        BY <1>3, <4>1
      <4>3. QED
        BY <3>2, <4>2
    <3>3. QED
      BY <3>1, <3>2
  <2>2. g = [k \in Nat |-> g[k]]
    <3> HIDE DEF D
    <3> QED BY <1>3
  <2>3. [k \in Nat |-> g[k]] = [k \in Nat |-> Next1(g, k)]
    <3> HIDE DEF Next1
    <3> QED BY <2>1
  <2>4. QED
    BY <2>2, <2>3
<1>5. Eq(F)
  <2> HIDE DEF Eq
  <2> QED BY <1>4
<1>6. NthFree(h, i) = F
  BY DEF NthFree
<1> HIDE DEF F
<1>7. \A k \in Nat : F[k] = Next1(F, k)
  <2>1. F = [k \in Nat |-> Next1(F, k)]
    BY <1>5
  <2> HIDE DEF Next1
  <2>2. QED
    BY <2>1
<1>8. F[0] = h.free[i] /\ \A k \in Nat : F[k + 1] = after(F[k])
  <2>1. F[0] = h.free[i]
    BY <1>7
  <2>2. ASSUME NEW k \in Nat
        PROVE  F[k + 1] = after(F[k])
    <3>1. k + 1 \in Nat /\ k + 1 # 0 /\ (k + 1) - 1 = k
      OBVIOUS
    <3>2. F[k + 1] = Next1(F, k + 1)
      BY <1>7, <3>1
    <3>3. QED
      BY <3>1, <3>2
  <2>3. QED
    BY <2>1, <2>2
<1> DEFINE S == {k \in Nat : F[k] \in D}
<1>9. Nat \subseteq S
  <2>1. 0 \in S
    BY <1>0, <1>8
  <2>2. ASSUME NEW k \in Nat, k \in S
        PROVE  k + 1 \in S
    <3> HIDE DEF D, after
    <3> QED BY <1>0, <1>8, <2>2
  <2> HIDE DEF S
  <2>3. QED
    BY <2>1, <2>2, SetInduction
<1>10. QED
  BY <1>6, <1>8, <1>9

(* What the search of kernel_malloc finds is a free tag of the list it     *)
(* searched, and the request fits.                                         *)
LEMMA FirstFitIs ==
  ASSUME NEW h, Sound(h), NEW i \in Classes, NEW size, FirstFit(h, i, size) # NULL
  PROVE  LET t == FirstFit(h, i, size)
         IN  t \in DOMAIN h.tag /\ h.tag[t].index = i /\ Fits(h, t, size)
<1> DEFINE n == Cardinality(DOMAIN h.tag)
           fit(t) == IF t = NULL THEN FALSE ELSE Fits(h, t, size)
           fits == {k \in 0 .. n : fit(NthFree(h, i)[k])}
<1>1. n \in Nat
  BY FS_CardinalityType DEF Sound, Heaped
<1>2. fits # {} /\ FirstFit(h, i, size) = NthFree(h, i)[Min(fits)]
  BY DEF FirstFit
<1>3. Min(fits) \in fits
  <2>1. fits \subseteq Nat
    BY <1>1
  <2> HIDE DEF fits
  <2>2. PICK k \in fits : \A m \in fits : k <= m
    BY <1>2, <2>1, LeastMember
  <2>3. QED
    BY <2>2 DEF Min
<1>4. PICK k \in Nat : k = Min(fits) /\ fit(NthFree(h, i)[k])
  <2> HIDE DEF fit
  <2> QED BY <1>1, <1>3
<1>5. NthFree(h, i)[k] # NULL /\ Fits(h, NthFree(h, i)[k], size)
  BY <1>4
<1>6. PICK t : t = NthFree(h, i)[k]
  OBVIOUS
<1>7. t \in DOMAIN h.tag /\ h.tag[t].index = i
  <2>1. NthFree(h, i)[k] # NULL =>
          NthFree(h, i)[k] \in DOMAIN h.tag /\ h.tag[NthFree(h, i)[k]].index = i
    BY NthFreeIs
  <2>2. QED
    BY <1>5, <1>6, <2>1
<1>8. FirstFit(h, i, size) = t
  <2> HIDE DEF fits
  <2> QED BY <1>2, <1>4, <1>6
<1>9. QED
  BY <1>5, <1>6, <1>7, <1>8

(* The exponent of a size is the largest there is.                         *)
LEMMA ExponentIs ==
  ASSUME NEW size \in Int, Bit[MINEXP] <= size
  PROVE  /\ getexp(size) \in MINEXP .. MAXEXP - 1
         /\ Bit[getexp(size)] <= size
         /\ \A e \in MINEXP .. MAXEXP - 1 : Bit[e] <= size => e <= getexp(size)
<1> DEFINE E == {e \in MINEXP .. MAXEXP - 1 : Bit[e] <= size}
           S == {k \in Nat : MAXEXP - k \in E}
<1>1. MINEXP \in Nat /\ MAXEXP \in Nat /\ MINEXP <= MAXEXP - 1
  BY LiballocAssumption
<1>2. MINEXP \in E /\ E \subseteq MINEXP .. MAXEXP - 1
  BY <1>1
<1>3. getexp(size) = Max(E)
  BY DEF getexp
<1> HIDE DEF E
<1>4. MAXEXP - MINEXP \in S
  BY <1>1, <1>2
<1>5. PICK k \in S : \A m \in S : k <= m
  <2>1. S \subseteq Nat /\ S # {}
    BY <1>4
  <2> HIDE DEF S
  <2> QED BY <2>1, LeastMember
<1>6. \A e \in E : e <= MAXEXP - k
  <2>1. \A e \in E : MAXEXP - e \in S
    BY <1>1, <1>2
  <2>2. \A e \in E : k <= MAXEXP - e
    BY <1>5, <2>1
  <2> HIDE DEF S
  <2>3. k \in Nat
    BY <1>5 DEF S
  <2>4. QED
    BY <1>1, <1>2, <2>2, <2>3
<1>7. MAXEXP - k \in E
  BY <1>5
<1>8. Max(E) \in E /\ \A e \in E : e <= Max(E)
  BY <1>6, <1>7 DEF Max
<1>9. PICK x \in E : x = getexp(size) /\ \A e \in E : e <= x
  BY <1>3, <1>8
<1>10. QED
  BY <1>9 DEF E

(* Every size has a class.                                                 *)
LEMMA ClassType == \A size \in Int : Class(size) \in Classes
<1> SUFFICES ASSUME NEW size \in Int
             PROVE  Class(size) \in Classes
  OBVIOUS
<1>1. MINEXP \in Nat /\ MAXEXP \in Nat /\ MINEXP <= MAXEXP - 1
  BY LiballocAssumption
<1>2. CASE Bit[MINEXP] <= size
  <2>1. PICK e \in MINEXP .. MAXEXP - 1 : getexp(size) = e
    BY <1>2, ExponentIs
  <2>2. e \in Int /\ MINEXP <= e /\ e <= MAXEXP - 1
    BY <1>1
  <2>3. QED
    BY <1>1, <2>1, <2>2 DEF Class, Classes
<1>3. CASE ~(Bit[MINEXP] <= size)
  <2>1. getexp(size) = -1
    BY <1>3 DEF getexp
  <2>2. QED
    BY <1>1, <2>1 DEF Class, Classes
<1>4. QED
  BY <1>2, <1>3

-----------------------------------------------------------------------------
(* The heap between two steps of a call: sound, free tags in the list of   *)
(* their class, no two of them side by side, whole ones counted.           *)
Used(h) == {t \in DOMAIN h.tag : h.tag[t].index = -1}

(* The whole blocks in list i.                                             *)
WholeFree(h, i) == {t \in DOMAIN h.tag : Whole(h.tag[t]) /\ h.tag[t].index = i}

(* The tags at the beginning of a block.                                   *)
Starts(h) == {t \in DOMAIN h.tag : h.tag[t].left = NULL}

(* A free tag is in the list of its class; its right neighbour, if any,    *)
(* is in use; the whole free blocks of a class are counted and no more     *)
(* than MAXCOMPLETE.                                                       *)
Classed(h) ==
  \A t \in DOMAIN h.tag :
    h.tag[t].index # -1 => h.tag[t].index = Class(h.tag[t].real_size - TAG)

Coalesced(h) ==
  \A t \in DOMAIN h.tag :
    h.tag[t].index # -1 /\ h.tag[t].right # NULL => h.tag[h.tag[t].right].index = -1

Counted(h) ==
  \A i \in Classes : /\ h.complete[i] = Cardinality(WholeFree(h, i))
                     /\ h.complete[i] <= MAXCOMPLETE

Good(h) == Sound(h) /\ Classed(h) /\ Coalesced(h) /\ Counted(h)

(* Nothing happens to the tags in use that are in C.                       *)
Untouched(h, C, g) ==
  \A u \in C : /\ u \in DOMAIN h.tag /\ u \in DOMAIN g.tag
               /\ g.tag[u].size = h.tag[u].size
               /\ g.tag[u].real_size = h.tag[u].real_size

(* The whole free blocks of a class can be counted.                        *)
LEMMA WholeFreeFinite ==
  ASSUME NEW h, Sound(h), NEW i
  PROVE  IsFiniteSet(WholeFree(h, i)) /\ Cardinality(WholeFree(h, i)) \in Nat
<1>1. IsFiniteSet(DOMAIN h.tag) /\ WholeFree(h, i) \in SUBSET (DOMAIN h.tag)
  BY DEF Sound, Heaped, WholeFree
<1>2. IsFiniteSet(WholeFree(h, i))
  BY <1>1, FS_Subset
<1>3. QED
  BY <1>2, FS_CardinalityType

(* A free tag's right neighbour is in use, and so is its left one.         *)
LEMMA Neighbours ==
  ASSUME NEW h, Sound(h), Coalesced(h), NEW t \in DOMAIN h.tag, h.tag[t].index # -1
  PROVE  /\ h.tag[t].right # NULL => h.tag[t].right \in Used(h)
         /\ h.tag[t].left # NULL => h.tag[t].left \in Used(h)
<1>1. h.tag[t].right # NULL => h.tag[t].right \in Used(h)
  BY DEF Sound, Tiled, Coalesced, Used
<1>2. h.tag[t].left # NULL => h.tag[t].left \in Used(h)
  <2> SUFFICES ASSUME h.tag[t].left # NULL
               PROVE  h.tag[t].left \in Used(h)
    OBVIOUS
  <2> DEFINE l == h.tag[t].left
  <2>1. l \in DOMAIN h.tag /\ h.tag[l].right = t
    BY DEF Sound, Tiled
  <2>2. t # NULL
    BY DEF Sound, Heaped, NULL
  <2>3. h.tag[l].index = -1
    BY <2>1, <2>2 DEF Coalesced
  <2>4. QED
    BY <2>1, <2>3 DEF Used
<1>3. QED
  BY <1>1, <1>2

(* A free tag taken for a request: nobody else's tag changes, and its      *)
(* right neighbour is in use.                                              *)
LEMMA ReuseGood ==
  ASSUME NEW h, Good(h), NEW t \in DOMAIN h.tag, NEW i \in Classes, h.tag[t].index = i
  PROVE  LET g == Reuse(h, t, i)
         IN  /\ Good(g)
             /\ t \in Used(g) /\ t \notin Used(h)
             /\ Used(g) = Used(h) \cup {t}
             /\ Untouched(h, DOMAIN h.tag, g)
             /\ g.tag[t].right = h.tag[t].right
             /\ g.tag[t].right # NULL => g.tag[t].right \in Used(g)
<1> DEFINE r == remove_tag(h, t)
           x == IF Whole(h.tag[t]) THEN r.complete[i] - 1 ELSE r.complete[i]
           g == [r EXCEPT !.complete[i] = x]
           D == DOMAIN h.tag
<1>0. i # -1 /\ Sound(h)
  BY DEF Classes, Good
<1>1. Removed(h, t, r) /\ Sound(r)
  BY <1>0, RemoveSound
<1> HIDE DEF r
<1>2. /\ DOMAIN r.tag = D /\ r.complete = h.complete
      /\ \A a \in D : /\ r.tag[a].size = h.tag[a].size
                      /\ r.tag[a].real_size = h.tag[a].real_size
                      /\ r.tag[a].left = h.tag[a].left
                      /\ r.tag[a].right = h.tag[a].right
                      /\ r.tag[a].index = IF a = t THEN -1 ELSE h.tag[a].index
  BY <1>1 DEF Removed
<1>3. x \in Int /\ x = IF Whole(h.tag[t]) THEN h.complete[i] - 1 ELSE h.complete[i]
  BY <1>0, <1>2 DEF Sound, Heaped
<1>4. Reuse(h, t, i) = g
  BY DEF Reuse, r
<1> HIDE DEF x
<1>5. /\ Sound(g) /\ g.tag = r.tag /\ g.free = r.free
      /\ \A j \in Classes : g.complete[j] = IF j = i THEN x ELSE r.complete[j]
  BY <1>1, <1>3, CountSound
<1> HIDE DEF g
<1>6. Classed(g)
  BY <1>2, <1>5 DEF Good, Classed
<1>7. Coalesced(g)
  BY <1>0, <1>2, <1>5 DEF Good, Coalesced, Sound, Tiled
<1>8. ASSUME NEW j \in Classes
      PROVE  g.complete[j] = Cardinality(WholeFree(g, j)) /\ g.complete[j] <= MAXCOMPLETE
  <2>0. /\ h.complete[j] = Cardinality(WholeFree(h, j)) /\ h.complete[j] <= MAXCOMPLETE
        /\ IsFiniteSet(WholeFree(h, j)) /\ Cardinality(WholeFree(h, j)) \in Nat /\ MAXCOMPLETE \in Nat
    BY <1>0, WholeFreeFinite, LiballocAssumption DEF Good, Counted
  <2>1. CASE j = i /\ Whole(h.tag[t])
    <3>1. WholeFree(g, j) = WholeFree(h, j) \ {t} /\ t \in WholeFree(h, j)
      BY <1>0, <1>2, <1>5, <2>1 DEF WholeFree, Whole
    <3>2. Cardinality(WholeFree(g, j)) = Cardinality(WholeFree(h, j)) - 1
      BY <2>0, <3>1, FS_RemoveElement
    <3>3. QED
      BY <1>3, <1>5, <2>0, <2>1, <3>2
  <2>2. CASE ~(j = i /\ Whole(h.tag[t]))
    <3>1. WholeFree(g, j) = WholeFree(h, j)
      BY <1>0, <1>2, <1>5, <2>2 DEF WholeFree, Whole, Classes
    <3>2. g.complete[j] = h.complete[j]
      BY <1>2, <1>3, <1>5, <2>2
    <3>3. QED
      BY <2>0, <3>1, <3>2
  <2>3. QED
    BY <2>1, <2>2
<1>9. Good(g)
  BY <1>5, <1>6, <1>7, <1>8 DEF Good, Counted
<1>10. Used(g) = Used(h) \cup {t} /\ t \notin Used(h)
  BY <1>0, <1>2, <1>5 DEF Used
<1>11. h.tag[t].right # NULL => h.tag[t].right \in Used(h)
  BY <1>0, Neighbours DEF Good
<1>12. Untouched(h, D, g)
  BY <1>2, <1>5 DEF Untouched
<1>13. QED
  BY <1>2, <1>4, <1>5, <1>9, <1>10, <1>11, <1>12

-----------------------------------------------------------------------------
(* What div says of a page.                                                *)
LEMMA PageOf ==
  ASSUME NEW x \in Nat
  PROVE  LET q == x \div PageSize
         IN  q \in Nat /\ q * PageSize <= x /\ x < (q + 1) * PageSize
<1>1. PageSize \in Nat \ {0}
  BY LiballocAssumption
<1>2. PICK q : q = x \div PageSize
  OBVIOUS
<1>3. PICK s : s = x % PageSize
  OBVIOUS
<1>4. q \in Nat /\ s \in 0 .. PageSize - 1 /\ x = q * PageSize + s
  BY <1>1, <1>2, <1>3
<1>5. (q + 1) * PageSize = q * PageSize + PageSize /\ q * PageSize \in Nat
  BY <1>1, <1>4
<1>6. q * PageSize <= x /\ x < (q + 1) * PageSize
  <2> HIDE <1>2, <1>3
  <2>1. PICK w \in Nat : w = q * PageSize
    BY <1>5
  <2>2. QED
    BY <1>1, <1>4, <1>5, <2>1
<1>7. QED
  BY <1>2, <1>4, <1>6

(* What begins on an earlier page begins earlier.                          *)
LEMMA PagesMonotone ==
  ASSUME NEW x \in Nat, NEW y \in Nat, x <= y
  PROVE  x * PageSize <= y * PageSize
<1>1. PageSize \in Nat
  BY LiballocAssumption
<1>2. PICK d \in Nat : y = x + d
  <2>1. y - x \in Nat /\ y = x + (y - x)
    OBVIOUS
  <2>2. QED
    BY <2>1
<1>3. y * PageSize = x * PageSize + d * PageSize
  BY <1>1, <1>2
<1>4. x * PageSize \in Nat /\ d * PageSize \in Nat
  BY <1>1, <1>2
<1>5. QED
  BY <1>3, <1>4

(* Pages that no block touches have no address in common with a block.     *)
LEMMA GapIsApart ==
  ASSUME NEW h, Sound(h), NEW n \in Nat \ {0}, NEW p \in Gaps(h, n)
  PROVE  /\ p \in Nat \ {0}
         /\ \A a \in DOMAIN h.tag :
              a + h.tag[a].real_size <= p * PageSize \/ (p + n) * PageSize <= a
<1>1. p \in Nat \ {0} /\ p .. (p + n - 1) \cap Pages(h) = {}
  <2>1. VmPages \in Nat
    BY LiballocAssumption
  <2>2. QED
    BY <2>1 DEF Gaps
<1>2. ASSUME NEW a \in DOMAIN h.tag
      PROVE  a + h.tag[a].real_size <= p * PageSize \/ (p + n) * PageSize <= a
  <2>0. a \in Nat /\ h.tag[a].real_size \in Nat /\ h.tag[a].real_size > 0
    BY Ends
  <2>1. PICK e \in Nat : e = a + h.tag[a].real_size - 1
    BY <2>0
  <2>2. PICK q : q = a \div PageSize
    OBVIOUS
  <2>3. PICK r : r = e \div PageSize
    OBVIOUS
  <2>4. q \in Nat /\ q * PageSize <= a /\ a < (q + 1) * PageSize
    BY <2>0, <2>2, PageOf
  <2>5. r \in Nat /\ r * PageSize <= e /\ e < (r + 1) * PageSize
    BY <2>1, <2>3, PageOf
  <2>6. q .. r \subseteq Pages(h)
    BY <2>1, <2>2, <2>3 DEF Pages
  <2>7. /\ PageSize \in Nat /\ q * PageSize \in Nat /\ (r + 1) * PageSize \in Nat
        /\ p * PageSize \in Nat /\ (p + n) * PageSize \in Nat
    BY <1>1, <2>4, <2>5, LiballocAssumption
  <2>8. CASE r < p
    <3>1. (r + 1) * PageSize <= p * PageSize
      BY <1>1, <2>5, <2>8, PagesMonotone
    <3>2. QED
      BY <2>0, <2>1, <2>5, <2>7, <3>1
  <2>9. CASE p + n <= q
    <3>1. (p + n) * PageSize <= q * PageSize
      BY <1>1, <2>4, <2>9, PagesMonotone
    <3>2. QED
      BY <2>0, <2>4, <2>7, <3>1
  <2>10. CASE p <= r /\ q < p + n
    <3>1. q <= r
      <4> SUFFICES ASSUME r + 1 <= q
                   PROVE  FALSE
        BY <2>4, <2>5
      <4>1. (r + 1) * PageSize <= q * PageSize
        BY <2>4, <2>5, PagesMonotone
      <4>2. QED
        BY <2>0, <2>1, <2>4, <2>5, <2>7, <4>1
    <3>2. PICK k \in Nat : k = IF p <= q THEN q ELSE p
      BY <1>1, <2>4
    <3>3. k \in p .. (p + n - 1) /\ k \in q .. r
      BY <1>1, <2>4, <2>5, <2>10, <3>1, <3>2
    <3>4. QED
      BY <1>1, <2>6, <3>3
  <2>11. QED
    BY <1>1, <2>4, <2>5, <2>8, <2>9, <2>10
<1>3. QED
  BY <1>1, <1>2

(* The first gap is one.                                                   *)
LEMMA FirstGap ==
  ASSUME NEW h, NEW n \in Nat \ {0}, Gaps(h, n) # {}
  PROVE  Min(Gaps(h, n)) \in Gaps(h, n)
<1> DEFINE S == Gaps(h, n)
<1>1. S \subseteq Nat /\ S # {}
  BY LiballocAssumption DEF Gaps
<1> HIDE DEF S
<1>2. PICK k \in S : \A x \in S : k <= x
  BY <1>1, LeastMember
<1>3. Min(S) \in S
  BY <1>2 DEF Min
<1>4. QED
  BY <1>3 DEF S

(* A new block holds the tag and the request.                              *)
LEMMA BlockIsLarge ==
  ASSUME NEW size \in Nat
  PROVE  /\ BlockPages(size) \in Nat \ {0}
         /\ BlockPages(size) * PageSize >= size + TAG
<1>1. TAG \in Nat \ {0} /\ PageSize \in Nat \ {0} /\ PageCount \in Nat \ {0}
  BY LiballocAssumption
<1>2. PICK x \in Nat : x = size + TAG + PageSize - 1
  BY <1>1
<1>3. PICK q : q = x \div PageSize
  OBVIOUS
<1>4. q \in Nat /\ x < (q + 1) * PageSize
  BY <1>2, <1>3, PageOf
<1>5. BlockPages(size) = Max({PageCount, q})
  BY <1>2, <1>3 DEF BlockPages
<1>6. PICK b : b = IF q <= PageCount THEN PageCount ELSE q
  OBVIOUS
<1>7. b \in {PageCount, q} /\ b \in Nat \ {0} /\ \A y \in {PageCount, q} : b >= y
  BY <1>1, <1>4, <1>6
<1>8. \A y \in {PageCount, q} : (\A z \in {PageCount, q} : y >= z) => y = b
  BY <1>1, <1>4, <1>7
<1>9. BlockPages(size) = b
  BY <1>5, <1>7, <1>8 DEF Max
<1>10. q * PageSize <= b * PageSize
  BY <1>4, <1>7, PagesMonotone
<1>11. (q + 1) * PageSize = q * PageSize + PageSize /\ q * PageSize \in Nat /\ b * PageSize \in Nat
  BY <1>1, <1>4, <1>7
<1>12. QED
  BY <1>1, <1>2, <1>4, <1>7, <1>9, <1>10, <1>11

(* A new block's tag is in use and alone in its block.                     *)
LEMMA AllocateGood ==
  ASSUME NEW h, Good(h), NEW n \in Nat \ {0}, NEW p \in Gaps(h, n), n * PageSize >= TAG
  PROVE  LET g == allocate_new_tag(h, n, p)
             t == p * PageSize
         IN  /\ Good(g)
             /\ t \in Used(g) /\ t \notin Used(h)
             /\ Used(g) = Used(h) \cup {t}
             /\ Untouched(h, DOMAIN h.tag, g)
             /\ g.tag[t].right = NULL
             /\ g.tag[t].real_size = n * PageSize
             /\ t \notin DOMAIN h.tag /\ Starts(g) = Starts(h) \cup {t}
<1> DEFINE g == allocate_new_tag(h, n, p)
           D == DOMAIN h.tag
<1>1. PICK t : t = p * PageSize
  OBVIOUS
<1>2. Allocated(h, t, n * PageSize, g) /\ Sound(g) /\ t \notin D
  BY <1>1, GapIsApart, AllocateSound DEF Good
<1> HIDE DEF g
<1>3. /\ DOMAIN g.tag = D \cup {t} /\ g.complete = h.complete
      /\ \A a \in D : g.tag[a] = h.tag[a]
      /\ g.tag[t].index = -1 /\ g.tag[t].right = NULL /\ g.tag[t].real_size = n * PageSize
  BY <1>2 DEF Allocated, NewTag
<1>4. Classed(g)
  BY <1>3 DEF Good, Classed
<1>5. Coalesced(g)
  BY <1>2, <1>3 DEF Good, Coalesced, Sound, Tiled
<1>6. Counted(g)
  <2>1. ASSUME NEW i \in Classes
        PROVE  WholeFree(g, i) = WholeFree(h, i)
    BY <1>2, <1>3 DEF WholeFree, Classes
  <2>2. QED
    BY <1>3, <2>1 DEF Good, Counted
<1>7. Good(g)
  BY <1>2, <1>4, <1>5, <1>6 DEF Good
<1>8. Used(g) = Used(h) \cup {t} /\ t \notin Used(h)
  BY <1>2, <1>3 DEF Used
<1>9. Untouched(h, D, g)
  BY <1>3 DEF Untouched
<1>10. g.tag[t].left = NULL
  BY <1>2 DEF Allocated, NewTag
<1>11. Starts(g) = Starts(h) \cup {t}
  BY <1>2, <1>3, <1>10 DEF Starts
<1>12. QED
  BY <1>1, <1>2, <1>3, <1>7, <1>8, <1>9, <1>11 DEF g

(* Giving the excess of a tag in hand back as a free tag: whatever the     *)
(* size, no free tag comes to stand next to a free tag, because the right  *)
(* neighbour of the tag in hand is in use.                                 *)
LEMMA ShapeGood ==
  ASSUME NEW h, Good(h), NEW t \in Used(h), NEW size \in Nat,
         size + TAG <= h.tag[t].real_size,
         h.tag[t].right # NULL => h.tag[t].right \in Used(h)
  PROVE  LET g == Shape(h, t, size)
         IN  /\ Good(g)
             /\ Used(g) = Used(h)
             /\ Untouched(h, Used(h) \ {t}, g)
             /\ g.tag[t].size = size
             /\ size + TAG <= g.tag[t].real_size
             /\ Starts(g) = Starts(h)
<1> DEFINE D == DOMAIN h.tag
           r == [h EXCEPT !.tag[t].size = size]
           length == h.tag[t].real_size
           remainder == length - size - 2 * TAG
<1>0. /\ Sound(h) /\ t \in D /\ h.tag[t].index = -1
      /\ TAG \in Nat \ {0} /\ length \in Nat
  BY Ends, LiballocAssumption DEF Good, Used
<1>1. Relabelled(h, t, size, r) /\ r.complete = h.complete /\ Sound(r)
  <2>1. Relabelled(h, t, size, r) /\ r.complete = h.complete
    BY <1>0, RelabelledIs DEF Sound
  <2>2. Sound(r)
    BY <1>0, <2>1, RelabelSound
  <2>3. QED
    BY <2>1, <2>2
<1>2. Shape(h, t, size) = IF remainder > 0 /\ getexp(remainder) >= 0 THEN split_tag(r, t) ELSE r
  BY DEF Shape
<1> HIDE DEF r
<1>3. /\ DOMAIN r.tag = D
      /\ \A a \in D : /\ r.tag[a].size = IF a = t THEN size ELSE h.tag[a].size
                      /\ r.tag[a].real_size = h.tag[a].real_size
                      /\ r.tag[a].left = h.tag[a].left
                      /\ r.tag[a].right = h.tag[a].right
                      /\ r.tag[a].index = h.tag[a].index
  BY <1>1 DEF Relabelled
<1>4. CASE ~(remainder > 0 /\ getexp(remainder) >= 0)
  <2>1. Classed(r) /\ Coalesced(r)
    BY <1>0, <1>3 DEF Good, Classed, Coalesced, Sound, Tiled
  <2>2. Counted(r)
    <3>1. ASSUME NEW i \in Classes
          PROVE  WholeFree(r, i) = WholeFree(h, i)
      BY <1>3 DEF WholeFree, Whole
    <3>2. QED
      BY <1>1, <3>1 DEF Good, Counted
  <2>3. Used(r) = Used(h)
    BY <1>3 DEF Used
  <2>4. Untouched(h, Used(h) \ {t}, r)
    BY <1>3 DEF Untouched, Used
  <2>5. Good(r)
    BY <1>1, <2>1, <2>2 DEF Good
  <2>6. Starts(r) = Starts(h)
    BY <1>3 DEF Starts
  <2>7. QED
    BY <1>0, <1>2, <1>3, <1>4, <2>3, <2>4, <2>5, <2>6
<1>5. CASE remainder > 0 /\ getexp(remainder) >= 0
  <2>1. PICK new : new = t + TAG + size
    OBVIOUS
  <2>2. /\ r.tag[t].size = size /\ r.tag[t].real_size = length
        /\ 2 * TAG + size <= length
    BY <1>0, <1>3, <1>5
  <2>3. PICK s : /\ Cut(r, t, new, s) /\ Sound(s) /\ new \notin D
                 /\ split_tag(r, t) = insert_tag(s, new, Class(remainder))
    BY <1>0, <1>1, <1>3, <2>1, <2>2, CutSound
  <2>4. PICK i \in Classes : i = Class(remainder)
    BY <1>0, ClassType
  <2>0. PICK rest \in Int : rest = remainder /\ i = Class(rest)
    BY <1>0, <2>4
  <2> DEFINE g == insert_tag(s, new, i)
  <2>5. /\ new \in DOMAIN s.tag /\ s.tag[new].index = -1
        /\ DOMAIN s.tag = D \cup {new}
        /\ s.complete = h.complete
    BY <1>1, <1>3, <2>3 DEF Cut
  <2>6. Inserted(s, new, i, g) /\ Sound(g)
    BY <2>3, <2>5, InsertSound
  <2>7. Shape(h, t, size) = g
    BY <1>2, <1>5, <2>3, <2>4
  <2> HIDE DEF g
  <2>8. /\ DOMAIN g.tag = D \cup {new} /\ g.complete = h.complete
        /\ \A a \in D :
             /\ g.tag[a].size = IF a = t THEN size ELSE h.tag[a].size
             /\ g.tag[a].real_size = IF a = t THEN new - t ELSE h.tag[a].real_size
             /\ g.tag[a].left = IF a = h.tag[t].right THEN new ELSE h.tag[a].left
             /\ g.tag[a].right = IF a = t THEN new ELSE h.tag[a].right
             /\ g.tag[a].index = h.tag[a].index
        /\ g.tag[new].index = i
        /\ g.tag[new].real_size = t + length - new
        /\ g.tag[new].left = t /\ g.tag[new].right = h.tag[t].right
    <3>1. /\ \A a \in D : a # new
          /\ \A a \in D \cup {new} :
               /\ g.tag[a].size = s.tag[a].size
               /\ g.tag[a].real_size = s.tag[a].real_size
               /\ g.tag[a].left = s.tag[a].left
               /\ g.tag[a].right = s.tag[a].right
               /\ g.tag[a].index = IF a = new THEN i ELSE s.tag[a].index
          /\ DOMAIN g.tag = D \cup {new} /\ g.complete = h.complete
      BY <2>3, <2>5, <2>6 DEF Inserted
    <3>2. /\ \A a \in D :
               /\ s.tag[a].size = r.tag[a].size
               /\ s.tag[a].real_size = IF a = t THEN new - t ELSE r.tag[a].real_size
               /\ s.tag[a].left = IF a = r.tag[t].right THEN new ELSE r.tag[a].left
               /\ s.tag[a].right = IF a = t THEN new ELSE r.tag[a].right
               /\ s.tag[a].index = r.tag[a].index
          /\ s.tag[new].real_size = t + r.tag[t].real_size - new
          /\ s.tag[new].left = t /\ s.tag[new].right = r.tag[t].right
      BY <1>3, <2>3 DEF Cut
    <3>3. QED
      BY <1>0, <1>3, <3>1, <3>2
  <2>9. /\ t \in Nat /\ t # NULL /\ new # NULL /\ i # -1
        /\ new - t = TAG + size /\ (t + length - new) - TAG = rest
    BY <1>0, <2>0, <2>1, Ends DEF NULL, Classes
  <2>10. Classed(g)
    <3>1. ASSUME NEW a \in D, g.tag[a].index # -1
          PROVE  g.tag[a].index = Class(g.tag[a].real_size - TAG)
      BY <1>0, <2>8, <3>1 DEF Good, Classed
    <3>2. g.tag[new].index = Class(g.tag[new].real_size - TAG)
      BY <2>0, <2>8, <2>9
    <3>3. QED
      BY <2>8, <3>1, <3>2 DEF Classed
  <2>11. Coalesced(g)
    <3>1. ASSUME NEW a \in D, g.tag[a].index # -1, g.tag[a].right # NULL
          PROVE  g.tag[g.tag[a].right].index = -1
      <4>1. a # t /\ g.tag[a].right = h.tag[a].right
        BY <1>0, <2>8, <3>1
      <4>2. h.tag[a].right \in D /\ h.tag[h.tag[a].right].index = -1
        BY <1>0, <2>8, <3>1, <4>1 DEF Good, Coalesced, Sound, Tiled
      <4>3. QED
        BY <2>8, <4>1, <4>2
    <3>2. h.tag[t].right # NULL => g.tag[h.tag[t].right].index = -1
      BY <2>8 DEF Used
    <3>3. QED
      BY <2>8, <3>1, <3>2 DEF Coalesced
  <2>12. Counted(g)
    <3>1. ASSUME NEW j \in Classes
          PROVE  WholeFree(g, j) = WholeFree(h, j)
      <4>1. ~Whole(g.tag[new])
        BY <2>8, <2>9 DEF Whole
      <4>2. ASSUME NEW a \in D
            PROVE  g.tag[a].index = j /\ Whole(g.tag[a]) <=> h.tag[a].index = j /\ Whole(h.tag[a])
        <5>1. CASE a = t
          BY <1>0, <2>8, <5>1 DEF Classes
        <5>2. CASE a # t /\ a = h.tag[t].right
          <6>1. h.tag[a].left = t
            <7>1. a # NULL
              BY <1>0, Ends DEF NULL
            <7>2. QED
              BY <1>0, <5>2, <7>1 DEF Sound, Tiled
          <6>2. QED
            BY <2>8, <2>9, <5>2, <6>1 DEF Whole
        <5>3. CASE a # t /\ a # h.tag[t].right
          BY <2>8, <5>3 DEF Whole
        <5>4. QED
          BY <5>1, <5>2, <5>3
      <4>3. QED
        BY <2>8, <4>1, <4>2 DEF WholeFree
    <3>2. QED
      BY <2>8, <3>1 DEF Good, Counted
  <2>13. Used(g) = Used(h)
    BY <2>8, <2>9 DEF Used
  <2>14. Untouched(h, Used(h) \ {t}, g)
    BY <2>8 DEF Untouched, Used
  <2>15. g.tag[t].size = size /\ size + TAG <= g.tag[t].real_size
    BY <1>0, <2>8, <2>9
  <2>16. Good(g)
    BY <2>6, <2>10, <2>11, <2>12 DEF Good
  <2>17. Starts(g) = Starts(h)
    <3>1. ASSUME NEW a \in D
          PROVE  g.tag[a].left = NULL <=> h.tag[a].left = NULL
      <4>1. CASE a = h.tag[t].right
        <5>1. h.tag[a].left = t
          <6>1. a # NULL
            BY <1>0, Ends DEF NULL
          <6>2. QED
            BY <1>0, <4>1, <6>1 DEF Sound, Tiled
        <5>2. QED
          BY <2>8, <2>9, <4>1, <5>1
      <4>2. CASE a # h.tag[t].right
        BY <2>8, <4>2
      <4>3. QED
        BY <4>1, <4>2
    <3>2. QED
      BY <2>8, <2>9, <3>1 DEF Starts
  <2>18. QED
    BY <2>7, <2>13, <2>14, <2>15, <2>16, <2>17
<1>6. QED
  BY <1>4, <1>5

(* What kernel_malloc does to the heap.                                    *)
Serves(h, m, size) ==
  /\ Good(m.heap)
  /\ m.at = NULL => m.heap = h
  /\ m.at # NULL => /\ m.at \notin Used(h)
                    /\ Used(m.heap) = Used(h) \cup {m.at}
                    /\ Untouched(h, Used(h), m.heap)
                    /\ m.heap.tag[m.at].size = size
                    /\ size + TAG <= m.heap.tag[m.at].real_size

(* Tag t is in hand: it was not in use before, and is large enough.        *)
Ready(h, g, t, size) ==
  /\ Good(g)
  /\ t # NULL /\ t \in Used(g) /\ t \notin Used(h)
  /\ Used(g) = Used(h) \cup {t}
  /\ Untouched(h, Used(h), g)
  /\ size + TAG <= g.tag[t].real_size
  /\ g.tag[t].right # NULL => g.tag[t].right \in Used(g)

(* From the tag in hand to the end of kernel_malloc.                       *)
LEMMA ReadyServes ==
  ASSUME NEW h, NEW g, NEW t, NEW size \in Nat, Ready(h, g, t, size),
         NEW m, m.heap = Shape(g, t, size), m.at = t
  PROVE  Serves(h, m, size)
<1> USE DEF Ready
<1>1. PICK s : s = Shape(g, t, size)
  OBVIOUS
<1>2. /\ Good(s) /\ Used(s) = Used(g)
      /\ Untouched(g, Used(g) \ {t}, s)
      /\ s.tag[t].size = size /\ size + TAG <= s.tag[t].real_size
  <2>1. /\ Good(g) /\ t \in Used(g) /\ size + TAG <= g.tag[t].real_size
        /\ g.tag[t].right # NULL => g.tag[t].right \in Used(g)
    OBVIOUS
  <2> HIDE DEF Ready
  <2>2. QED
    BY <1>1, <2>1, ShapeGood
<1>3. Untouched(h, Used(h), s)
  BY <1>2 DEF Untouched
<1>4. QED
  BY <1>1, <1>2, <1>3 DEF Serves

(* kernel_malloc, whichever way it finds a tag: an old one, a new block,   *)
(* or none.                                                                *)
LEMMA MallocGood ==
  ASSUME NEW h, Good(h), NEW size \in Nat
  PROVE  Serves(h, AfterMalloc(h, size), size)
<1> DEFINE i == Class(size)
           found == FirstFit(h, i, size)
           n == BlockPages(size)
           m == AfterMalloc(h, size)
<1>0. /\ Sound(h) /\ i \in Classes
      /\ TAG \in Nat \ {0}
  BY ClassType, LiballocAssumption DEF Good
<1>2. CASE found # NULL
  <2>1. PICK t : t = found
    OBVIOUS
  <2>2. m.heap = Shape(Reuse(h, t, i), t, size) /\ m.at = t
    BY <1>2, <2>1 DEF AfterMalloc
  <2>3. t \in DOMAIN h.tag /\ h.tag[t].index = i /\ Fits(h, t, size)
    BY <1>0, <1>2, <2>1, FirstFitIs
  <2> HIDE DEF m, found, i
  <2>4. PICK g : g = Reuse(h, t, i)
    OBVIOUS
  <2>5. /\ Good(g) /\ t \in Used(g) /\ t \notin Used(h) /\ Used(g) = Used(h) \cup {t}
        /\ Untouched(h, DOMAIN h.tag, g)
        /\ g.tag[t].right # NULL => g.tag[t].right \in Used(g)
    BY <1>0, <2>3, <2>4, ReuseGood
  <2>6. h.tag[t].real_size \in Nat /\ g.tag[t].real_size = h.tag[t].real_size
        /\ t # NULL /\ Untouched(h, Used(h), g)
    BY <1>0, <2>3, <2>5, Ends DEF Untouched, Used, NULL
  <2>7. size + TAG <= g.tag[t].real_size
    BY <1>0, <2>3, <2>6 DEF Fits
  <2>8. Ready(h, g, t, size)
    BY <2>5, <2>6, <2>7 DEF Ready
  <2>9. Serves(h, m, size)
    BY <2>2, <2>4, <2>8, ReadyServes
  <2>10. QED
    BY <2>9 DEF m
<1>3. CASE found = NULL /\ Gaps(h, n) = {}
  <2>1. m.heap = h /\ m.at = NULL
    BY <1>3 DEF AfterMalloc
  <2>2. QED
    BY <2>1 DEF Serves
<1>4. CASE found = NULL /\ Gaps(h, n) # {}
  <2>1. PICK p : p = Min(Gaps(h, n))
    OBVIOUS
  <2>2. PICK t : t = p * PageSize
    OBVIOUS
  <2>3. m.heap = Shape(allocate_new_tag(h, n, p), t, size) /\ m.at = t
    BY <1>4, <2>1, <2>2 DEF AfterMalloc
  <2>4. n \in Nat \ {0} /\ n * PageSize >= size + TAG
    BY BlockIsLarge
  <2> HIDE DEF m, found, n
  <2>5. p \in Gaps(h, n)
    BY <1>4, <2>1, <2>4, FirstGap
  <2>6. PICK g : g = allocate_new_tag(h, n, p)
    OBVIOUS
  <2>7. n * PageSize \in Nat /\ n * PageSize >= TAG
    BY <1>0, <2>4, LiballocAssumption
  <2>8. /\ Good(g) /\ t \in Used(g) /\ t \notin Used(h) /\ Used(g) = Used(h) \cup {t}
        /\ Untouched(h, DOMAIN h.tag, g)
        /\ g.tag[t].right = NULL /\ g.tag[t].real_size = n * PageSize
    BY <2>2, <2>4, <2>5, <2>6, <2>7, AllocateGood
  <2>9. Untouched(h, Used(h), g)
    BY <2>8 DEF Untouched, Used
  <2>10. t # NULL
    BY <2>8, Ends DEF Good, Used, NULL
  <2>11. Ready(h, g, t, size)
    BY <2>4, <2>8, <2>9, <2>10 DEF Ready
  <2>12. Serves(h, m, size)
    BY <2>3, <2>6, <2>11, ReadyServes
  <2>13. QED
    BY <2>12 DEF m
<1>5. QED
  BY <1>2, <1>3, <1>4

-----------------------------------------------------------------------------
(* "1<<e" doubles with e.                                                  *)
LEMMA BitIs ==
  /\ Bit[0] = 1
  /\ \A e \in Nat : Bit[e] \in Nat \ {0} /\ Bit[e + 1] = 2 * Bit[e]
<1> DEFINE D == Nat \ {0}
           step == [q \in Nat \X D |-> 2 * q[2]]
           Next1(g, e) == IF e = 0 THEN 1 ELSE 2 * g[e - 1]
           Eq(g) == g = [e \in Nat |-> Next1(g, e)]
           F == CHOOSE g : Eq(g)
<1>1. step \in [Nat \X D -> D] /\ 1 \in D
  OBVIOUS
<1>2. PICK g : Iterates(g, D, 1, step)
  <2> HIDE DEF step, D
  <2> QED BY <1>1, RecursiveFunctionExists
<1>3. g \in [Nat -> D] /\ g[0] = 1 /\ \A e \in Nat : g[e + 1] = 2 * g[e]
  <2>1. g \in [Nat -> D] /\ g[0] = 1 /\ \A e \in Nat : g[e + 1] = step[<<e + 1, g[e]>>]
    <3> HIDE DEF step, D
    <3> QED BY <1>2 DEF Iterates
  <2>2. ASSUME NEW e \in Nat
        PROVE  step[<<e + 1, g[e]>>] = 2 * g[e]
    <3>1. <<e + 1, g[e]>> \in Nat \X D
      BY <2>1
    <3>2. QED
      BY <3>1
  <2>3. QED
    BY <2>1, <2>2
<1>4. Eq(g)
  <2>1. ASSUME NEW e \in Nat
        PROVE  g[e] = Next1(g, e)
    <3>1. CASE e = 0
      BY <1>3, <3>1
    <3>2. CASE e # 0
      <4>1. e - 1 \in Nat /\ (e - 1) + 1 = e
        BY <3>2
      <4>2. g[e] = 2 * g[e - 1]
        BY <1>3, <4>1
      <4>3. QED
        BY <3>2, <4>2
    <3>3. QED
      BY <3>1, <3>2
  <2>2. g = [e \in Nat |-> g[e]]
    BY <1>3
  <2>3. QED
    BY <2>1, <2>2
<1>5. F = Bit
  BY DEF Bit
<1>6. Eq(F)
  <2> HIDE DEF Eq
  <2> QED BY <1>4
<1> HIDE DEF F
<1>7. Bit = [e \in Nat |-> Next1(Bit, e)]
  BY <1>5, <1>6
<1>8. Bit[0] = 1 /\ \A e \in Nat : Bit[e + 1] = 2 * Bit[e]
  <2>1. ASSUME NEW e \in Nat
        PROVE  Bit[e] = Next1(Bit, e)
    BY <1>7
  <2>2. Bit[0] = 1
    BY <2>1
  <2>3. ASSUME NEW e \in Nat
        PROVE  Bit[e + 1] = 2 * Bit[e]
    <3>1. e + 1 \in Nat /\ e + 1 # 0 /\ (e + 1) - 1 = e
      OBVIOUS
    <3>2. QED
      BY <2>1, <3>1
  <2>4. QED
    BY <2>2, <2>3
<1>9. \A e \in Nat : Bit[e] \in D
  <2> DEFINE S == {e \in Nat : Bit[e] \in D}
  <2>1. 0 \in S /\ \A e \in Nat : e \in S => e + 1 \in S
    BY <1>8
  <2>2. Nat \subseteq S
    <3> HIDE DEF S
    <3> QED BY <2>1, SetInduction
  <2>3. QED
    BY <2>2
<1>10. QED
  BY <1>8, <1>9

LEMMA BitGrows ==
  ASSUME NEW e \in Nat, NEW k \in Nat
  PROVE  Bit[e] <= Bit[e + k]
<1> DEFINE S == {j \in Nat : Bit[e] <= Bit[e + j]}
<1>1. 0 \in S
  BY BitIs
<1>2. ASSUME NEW j \in Nat, j \in S
      PROVE  j + 1 \in S
  <2>1. e + j \in Nat /\ e + (j + 1) = (e + j) + 1
    OBVIOUS
  <2>2. Bit[e + (j + 1)] = 2 * Bit[e + j] /\ Bit[e + j] \in Nat /\ Bit[e] \in Nat
    BY <2>1, BitIs
  <2>3. Bit[e] <= Bit[e + j]
    BY <1>2
  <2>4. QED
    BY <2>2, <2>3
<1>3. Nat \subseteq S
  <2> HIDE DEF S
  <2> QED BY <1>1, <1>2, SetInduction
<1>4. QED
  BY <1>3

(* Below the last class, a size is smaller than the next power of two, and *)
(* above the first not smaller than its own.                               *)
LEMMA ClassSpan ==
  ASSUME NEW size \in Nat, NEW e, e = Class(size)
  PROVE  /\ e \in MINEXP .. MAXEXP - 1
         /\ e < MAXEXP - 1 => size < Bit[e + 1]
         /\ e # MINEXP => Bit[e] <= size
<1>1. MINEXP \in Nat /\ MAXEXP \in Nat /\ MINEXP <= MAXEXP - 1
  BY LiballocAssumption
<1>2. Bit[MINEXP] \in Nat \ {0} /\ Bit[MINEXP + 1] = 2 * Bit[MINEXP]
  BY <1>1, BitIs
<1>3. CASE Bit[MINEXP] <= size
  <2>1. /\ getexp(size) \in MINEXP .. MAXEXP - 1
        /\ Bit[getexp(size)] <= size
        /\ \A d \in MINEXP .. MAXEXP - 1 : Bit[d] <= size => d <= getexp(size)
    BY <1>3, ExponentIs
  <2>2. e = getexp(size)
    BY <1>1, <2>1 DEF Class
  <2>3. e < MAXEXP - 1 => e + 1 \in MINEXP .. MAXEXP - 1 /\ ~(e + 1 <= e)
    BY <1>1, <2>1, <2>2
  <2>4. e + 1 \in Nat /\ Bit[e + 1] \in Nat
    BY <1>1, <2>1, <2>2, BitIs
  <2>5. QED
    BY <2>1, <2>2, <2>3, <2>4
<1>4. CASE ~(Bit[MINEXP] <= size)
  <2>1. e = MINEXP
    BY <1>1, <1>4 DEF Class, getexp
  <2>2. QED
    BY <1>1, <1>2, <1>4, <2>1
<1>5. QED
  BY <1>3, <1>4

(* A request under four quanta fits no free tag of its class.              *)
LEMMA SmallNeverFits ==
  ASSUME NEW h, Good(h), NEW size \in Nat, size < 4 * Bit[MINEXP],
         NEW t \in DOMAIN h.tag, h.tag[t].index = Class(size)
  PROVE  ~Fits(h, t, size)
<1> DEFINE e == Class(size)
           room == h.tag[t].real_size - TAG
<1>1. MINEXP \in Nat /\ MAXEXP \in Nat /\ MINEXP <= MAXEXP - 1 /\ TAG \in Nat
  BY LiballocAssumption
<1>2. /\ Bit[MINEXP] \in Nat \ {0} /\ Bit[MINEXP + 1] = 2 * Bit[MINEXP]
      /\ Bit[MINEXP + 2] = 4 * Bit[MINEXP]
  <2>1. MINEXP + 1 \in Nat /\ MINEXP + 2 = (MINEXP + 1) + 1
    BY <1>1
  <2>2. QED
    BY <1>1, <2>1, BitIs
<1>3. PICK i : i = e
  OBVIOUS
<1>4. room \in Nat
  BY Ends, <1>1 DEF Good, Sound, Tiled
<1>5. /\ i \in MINEXP .. MAXEXP - 1
      /\ i # MINEXP => Bit[i] <= size
  BY <1>3, ClassSpan
<1>6. i \in Classes
  BY <1>3, ClassType
<1>7. i = Class(room)
  BY <1>3, <1>6 DEF Good, Classed, Classes
<1>8. i < MAXEXP - 1 => room < Bit[i + 1]
  BY <1>4, <1>7, ClassSpan
<1> HIDE DEF e
<1>9. i <= MINEXP + 1
  <2>1. ASSUME i >= MINEXP + 2
        PROVE  FALSE
    <3>1. PICK k \in Nat : i = (MINEXP + 2) + k
      <4>1. i - (MINEXP + 2) \in Nat /\ i = (MINEXP + 2) + (i - (MINEXP + 2))
        BY <1>1, <1>5, <2>1
      <4>2. QED
        BY <4>1
    <3>2. Bit[MINEXP + 2] <= Bit[i] /\ Bit[i] \in Nat
      <4>1. PICK d \in Nat : d = MINEXP + 2
        BY <1>1
      <4>2. Bit[d] <= Bit[d + k] /\ d + k \in Nat
        BY BitGrows
      <4>3. Bit[d + k] \in Nat
        BY <4>2, BitIs
      <4>4. QED
        BY <3>1, <4>1, <4>2, <4>3
    <3>3. i # MINEXP
      BY <1>1, <1>5, <2>1
    <3>4. Bit[i] <= size
      BY <1>5, <3>3
    <3>5. QED
      BY <1>2, <3>2, <3>4
  <2>2. QED
    BY <1>1, <1>5, <2>1
<1>10. i < MAXEXP - 1 /\ TAG >= 2 * Bit[MINEXP]
  BY <1>1, <1>5, <1>9, QuantumAssumption
<1>11. room < Bit[i + 1]
  BY <1>8, <1>10
<1>12. room < size + TAG
  <2>1. CASE i = MINEXP
    BY <1>1, <1>2, <1>4, <1>10, <1>11, <2>1
  <2>2. CASE i = MINEXP + 1
    <3>1. Bit[i + 1] = 4 * Bit[MINEXP] /\ Bit[i] = 2 * Bit[MINEXP]
      <4>1. i + 1 = MINEXP + 2
        BY <1>1, <2>2
      <4>2. QED
        BY <1>2, <2>2, <4>1
    <3>2. Bit[i] <= size
      BY <1>1, <1>5, <2>2
    <3>3. QED
      BY <1>1, <1>2, <1>4, <1>10, <1>11, <3>1, <3>2
  <2>3. QED
    BY <1>1, <1>5, <1>9, <2>1, <2>2
<1>13. QED
  BY <1>1, <1>4, <1>12 DEF Fits

(* A request under four quanta that is served adds a block.                *)
LEMMA SmallAddsBlock ==
  ASSUME NEW h, Good(h), NEW size \in Nat, size < 4 * Bit[MINEXP],
         AfterMalloc(h, size).at # NULL
  PROVE  LET m == AfterMalloc(h, size)
         IN  m.at \notin DOMAIN h.tag /\ Starts(m.heap) = Starts(h) \cup {m.at}
<1> DEFINE found == FirstFit(h, Class(size), size)
           n == BlockPages(size)
           m == AfterMalloc(h, size)
<1>1. Sound(h) /\ Class(size) \in Classes /\ TAG \in Nat \ {0}
  BY ClassType, LiballocAssumption DEF Good
<1>2. found = NULL
  <2>1. ASSUME found # NULL
        PROVE  FALSE
    <3>1. PICK t : t = found
      OBVIOUS
    <3>2. t \in DOMAIN h.tag /\ h.tag[t].index = Class(size) /\ Fits(h, t, size)
      BY <1>1, <2>1, <3>1, FirstFitIs
    <3>3. QED
      BY <3>2, SmallNeverFits
  <2>2. QED
    BY <2>1
<1>3. Gaps(h, n) # {}
  BY <1>2 DEF AfterMalloc
<1>4. n \in Nat \ {0} /\ n * PageSize >= size + TAG /\ n * PageSize >= TAG
  <2>1. n \in Nat \ {0} /\ n * PageSize >= size + TAG
    BY BlockIsLarge
  <2>2. n * PageSize \in Nat
    BY <2>1, LiballocAssumption
  <2>3. QED
    BY <1>1, <2>1, <2>2
<1>5. PICK p : p = Min(Gaps(h, n))
  OBVIOUS
<1>6. PICK t : t = p * PageSize
  OBVIOUS
<1>7. m.heap = Shape(allocate_new_tag(h, n, p), t, size) /\ m.at = t
  BY <1>2, <1>3, <1>5, <1>6 DEF AfterMalloc
<1> HIDE DEF n, m, found
<1>8. p \in Gaps(h, n)
  BY <1>3, <1>4, <1>5, FirstGap
<1>9. PICK g : g = allocate_new_tag(h, n, p)
  OBVIOUS
<1>10. /\ Good(g) /\ t \in Used(g) /\ t \notin DOMAIN h.tag
       /\ Starts(g) = Starts(h) \cup {t}
       /\ g.tag[t].right = NULL /\ g.tag[t].real_size = n * PageSize
  BY <1>4, <1>6, <1>8, <1>9, AllocateGood
<1>11. Starts(Shape(g, t, size)) = Starts(g)
  <2>1. size + TAG <= g.tag[t].real_size
    BY <1>4, <1>10
  <2>2. QED
    BY <1>10, <2>1, ShapeGood
<1>12. QED
  BY <1>7, <1>9, <1>10, <1>11 DEF m

-----------------------------------------------------------------------------
(* Tags l and r have become one, which is in no list.                      *)
Joined(h, l, r, g) ==
  /\ Sound(g)
  /\ DOMAIN g.tag = DOMAIN h.tag \ {r}
  /\ g.complete = h.complete
  /\ \A a \in DOMAIN h.tag \ {r} :
       /\ g.tag[a].size = h.tag[a].size
       /\ g.tag[a].real_size = IF a = l THEN h.tag[l].real_size + h.tag[r].real_size
                               ELSE h.tag[a].real_size
       /\ g.tag[a].left = IF a = h.tag[r].right THEN l ELSE h.tag[a].left
       /\ g.tag[a].right = IF a = l THEN h.tag[r].right ELSE h.tag[a].right
       /\ g.tag[a].index = IF a = l THEN -1 ELSE h.tag[a].index

(* A round of the first loop of kernel_free joins a tag in use with its    *)
(* free left neighbour, a round of the second with its right one.          *)
LEMMA MeltLeftJoins ==
  ASSUME NEW h, Sound(h), NEW t \in DOMAIN h.tag, h.tag[t].index = -1,
         h.tag[t].left # NULL, h.tag[h.tag[t].left].index # -1
  PROVE  Joined(h, h.tag[t].left, t, MeltLeft(h, t))
<1>1. PICK l : l = h.tag[t].left
  OBVIOUS
<1>2. /\ l \in DOMAIN h.tag /\ h.tag[l].right = t
      /\ h.tag[l].index \in Classes
  BY <1>1 DEF Sound, Tiled, Heaped, TagFields
<1>3. PICK m : m = melt(h, l, t)
  OBVIOUS
<1>4. Melted(h, l, t, m) /\ Sound(m) /\ l # t
  BY <1>2, <1>3, MeltSound
<1>5. l \in DOMAIN m.tag /\ m.tag[l].index \in Classes
  BY <1>2, <1>4 DEF Melted
<1>6. PICK g : g = remove_tag(m, l)
  OBVIOUS
<1>7. Removed(m, l, g) /\ Sound(g)
  BY <1>4, <1>5, <1>6, RemoveSound
<1>8. Joined(h, l, t, g)
  BY <1>4, <1>7 DEF Joined, Removed, Melted
<1>9. QED
  BY <1>1, <1>3, <1>6, <1>8 DEF MeltLeft

LEMMA MeltRightJoins ==
  ASSUME NEW h, Sound(h), NEW t \in DOMAIN h.tag, h.tag[t].index = -1,
         h.tag[t].right # NULL, h.tag[h.tag[t].right].index # -1
  PROVE  Joined(h, t, h.tag[t].right, MeltRight(h, t))
<1>1. PICK r : r = h.tag[t].right
  OBVIOUS
<1>2. /\ r \in DOMAIN h.tag /\ h.tag[r].index \in Classes /\ r # t
  BY <1>1 DEF Sound, Tiled, Heaped, TagFields
<1>3. PICK m : m = remove_tag(h, r)
  OBVIOUS
<1>4. Removed(h, r, m) /\ Sound(m)
  BY <1>2, <1>3, RemoveSound
<1>5. /\ t \in DOMAIN m.tag /\ r \in DOMAIN m.tag
      /\ m.tag[t].right = r /\ m.tag[r].index = -1
  BY <1>1, <1>2, <1>4 DEF Removed
<1>6. PICK g : g = melt(m, t, r)
  OBVIOUS
<1>7. Melted(m, t, r, g) /\ Sound(g)
  BY <1>4, <1>5, <1>6, MeltSound
<1>8. Joined(h, t, r, g)
  <2>1. \A a \in DOMAIN h.tag : /\ m.tag[a].size = h.tag[a].size
                                /\ m.tag[a].real_size = h.tag[a].real_size
                                /\ m.tag[a].left = h.tag[a].left
                                /\ m.tag[a].right = h.tag[a].right
                                /\ m.tag[a].index = IF a = r THEN -1 ELSE h.tag[a].index
    BY <1>4 DEF Removed
  <2>2. DOMAIN m.tag = DOMAIN h.tag /\ m.complete = h.complete
    BY <1>4 DEF Removed
  <2>3. QED
    BY <1>2, <1>7, <2>1, <2>2 DEF Joined, Melted
<1>9. QED
  BY <1>1, <1>3, <1>6, <1>8 DEF MeltRight

(* Joining a tag in use with a free neighbour.                             *)
LEMMA JoinedGood ==
  ASSUME NEW h, Good(h), NEW l \in DOMAIN h.tag, NEW r \in DOMAIN h.tag, NEW g,
         h.tag[l].right = r, Joined(h, l, r, g)
  PROVE  /\ Good(g)
         /\ Used(g) = (Used(h) \ {l, r}) \cup {l}
         /\ Untouched(h, Used(h) \ {l, r}, g)
<1> DEFINE D == DOMAIN h.tag
<1>0. /\ Sound(h) /\ h.tag[r].left = l /\ l # r
      /\ NULL \notin D
  <2>1. Sound(h) /\ NULL \notin D
    BY DEF Good, Sound, Heaped, NULL
  <2>2. h.tag[r].left = l /\ l # r
    BY <2>1, Ends DEF Sound, Tiled
  <2>3. QED
    BY <2>1, <2>2
<1>1. \A i \in Classes : i # -1
  BY DEF Classes
<1>2. Classed(g)
  BY <1>0 DEF Good, Classed, Joined
<1>3. Coalesced(g)
  <2>1. ASSUME NEW a \in D \ {r}, g.tag[a].index # -1, g.tag[a].right # NULL
        PROVE  g.tag[g.tag[a].right].index = -1
    <3>1. a # l /\ g.tag[a].right = h.tag[a].right /\ h.tag[a].index # -1
      BY <2>1 DEF Joined
    <3>2. PICK u : u = h.tag[a].right
      OBVIOUS
    <3>3. u \in D /\ h.tag[u].left = a /\ h.tag[u].index = -1
      BY <1>0, <2>1, <3>1, <3>2 DEF Good, Coalesced, Sound, Tiled
    <3>4. u # r
      BY <1>0, <3>1, <3>3
    <3>5. QED
      BY <3>1, <3>2, <3>3, <3>4 DEF Joined
  <2>2. QED
    BY <2>1 DEF Coalesced, Joined
<1>4. Counted(g)
  <2>1. ASSUME NEW i \in Classes
        PROVE  WholeFree(g, i) = WholeFree(h, i)
    <3>1. ~Whole(h.tag[l]) /\ ~Whole(h.tag[r])
      BY <1>0 DEF Whole
    <3>2. g.tag[l].index # i
      BY <1>0, <1>1 DEF Joined
    <3>3. ASSUME NEW a \in D, a # l, a # r
          PROVE  /\ g.tag[a].index = h.tag[a].index
                 /\ Whole(g.tag[a]) <=> Whole(h.tag[a])
      <4>1. a = h.tag[r].right => h.tag[a].left = r
        BY <1>0, <3>3 DEF Sound, Tiled
      <4>2. QED
        BY <1>0, <3>3, <4>1 DEF Joined, Whole
    <3>4. DOMAIN g.tag = D \ {r}
      BY DEF Joined
    <3>5. QED
      BY <3>1, <3>2, <3>3, <3>4 DEF WholeFree
  <2>2. QED
    BY <2>1 DEF Good, Counted, Joined
<1>5. Good(g)
  BY <1>2, <1>3, <1>4 DEF Good, Joined
<1>6. Used(g) = (Used(h) \ {l, r}) \cup {l}
  BY <1>0 DEF Used, Joined
<1>7. Untouched(h, Used(h) \ {l, r}, g)
  BY DEF Untouched, Used, Joined
<1>8. QED
  BY <1>5, <1>6, <1>7

-----------------------------------------------------------------------------
(* The loops of kernel_free come to rest after at most one round.          *)
LEMMA LeftRoundsRest ==
  ASSUME NEW h, NEW t, NEW s,
         s = IF IsFree(h, h.tag[t].left) THEN [heap |-> MeltLeft(h, t), at |-> h.tag[t].left]
             ELSE [heap |-> h, at |-> t],
         ~IsFree(s.heap, s.heap.tag[s.at].left)
  PROVE  \A k \in Nat : LeftRounds(h, t)[k + 1] = s
<1> DEFINE s0 == [heap |-> h, at |-> t]
           After(x) == IF IsFree(x.heap, x.heap.tag[x.at].left)
                       THEN [heap |-> MeltLeft(x.heap, x.at), at |-> x.heap.tag[x.at].left] ELSE x
           Next1(g, k) == IF k = 0 THEN s0 ELSE After(g[k - 1])
           Eq(g) == g = [k \in Nat |-> Next1(g, k)]
           F == CHOOSE g : Eq(g)
           G == [k \in Nat |-> IF k = 0 THEN s0 ELSE s]
<1>1. After(s0) = s /\ After(s) = s
  OBVIOUS
<1>2. LeftRounds(h, t) = F
  BY DEF LeftRounds
<1> HIDE DEF After, s0
<1>3. Eq(G)
  <2>1. ASSUME NEW k \in Nat
        PROVE  G[k] = Next1(G, k)
    <3>1. CASE k = 0
      BY <3>1
    <3>2. CASE k # 0
      <4>1. k - 1 \in Nat /\ G[k] = s /\ (G[k - 1] = s0 \/ G[k - 1] = s)
        BY <3>2
      <4>2. QED
        BY <1>1, <3>2, <4>1
    <3>3. QED
      BY <3>1, <3>2
  <2>2. G = [k \in Nat |-> G[k]]
    OBVIOUS
  <2> HIDE DEF Next1, G
  <2>3. [k \in Nat |-> G[k]] = [k \in Nat |-> Next1(G, k)]
    BY <2>1
  <2>4. QED
    BY <2>2, <2>3
<1>4. Eq(F)
  <2> HIDE DEF Eq
  <2> QED BY <1>3
<1> HIDE DEF F, G
<1>5. \A k \in Nat : F[k] = Next1(F, k)
  <2>1. F = [k \in Nat |-> Next1(F, k)]
    BY <1>4
  <2> HIDE DEF Next1
  <2>2. QED
    BY <2>1
<1>6. F[0] = s0 /\ \A k \in Nat : F[k + 1] = After(F[k])
  <2>1. F[0] = s0
    BY <1>5
  <2>2. ASSUME NEW k \in Nat
        PROVE  F[k + 1] = After(F[k])
    <3>1. k + 1 \in Nat /\ k + 1 # 0 /\ (k + 1) - 1 = k
      OBVIOUS
    <3>2. F[k + 1] = Next1(F, k + 1)
      BY <1>5, <3>1
    <3>3. QED
      BY <3>1, <3>2
  <2>3. QED
    BY <2>1, <2>2
<1> DEFINE S == {k \in Nat : F[k + 1] = s}
<1>7. Nat \subseteq S
  <2>1. 0 \in S
    BY <1>1, <1>6
  <2>2. ASSUME NEW k \in Nat, k \in S
        PROVE  k + 1 \in S
    BY <1>1, <1>6, <2>2
  <2> HIDE DEF S
  <2>3. QED
    BY <2>1, <2>2, SetInduction
<1>8. QED
  BY <1>2, <1>7

LEMMA RightRoundsRest ==
  ASSUME NEW h, NEW t, NEW s,
         s = IF IsFree(h, h.tag[t].right) THEN [heap |-> MeltRight(h, t), at |-> t]
             ELSE [heap |-> h, at |-> t],
         ~IsFree(s.heap, s.heap.tag[s.at].right)
  PROVE  \A k \in Nat : RightRounds(h, t)[k + 1] = s
<1> DEFINE s0 == [heap |-> h, at |-> t]
           After(x) == IF IsFree(x.heap, x.heap.tag[x.at].right)
                       THEN [heap |-> MeltRight(x.heap, x.at), at |-> x.at] ELSE x
           Next1(g, k) == IF k = 0 THEN s0 ELSE After(g[k - 1])
           Eq(g) == g = [k \in Nat |-> Next1(g, k)]
           F == CHOOSE g : Eq(g)
           G == [k \in Nat |-> IF k = 0 THEN s0 ELSE s]
<1>1. After(s0) = s /\ After(s) = s
  OBVIOUS
<1>2. RightRounds(h, t) = F
  BY DEF RightRounds
<1> HIDE DEF After, s0
<1>3. Eq(G)
  <2>1. ASSUME NEW k \in Nat
        PROVE  G[k] = Next1(G, k)
    <3>1. CASE k = 0
      BY <3>1
    <3>2. CASE k # 0
      <4>1. k - 1 \in Nat /\ G[k] = s /\ (G[k - 1] = s0 \/ G[k - 1] = s)
        BY <3>2
      <4>2. QED
        BY <1>1, <3>2, <4>1
    <3>3. QED
      BY <3>1, <3>2
  <2>2. G = [k \in Nat |-> G[k]]
    OBVIOUS
  <2> HIDE DEF Next1, G
  <2>3. [k \in Nat |-> G[k]] = [k \in Nat |-> Next1(G, k)]
    BY <2>1
  <2>4. QED
    BY <2>2, <2>3
<1>4. Eq(F)
  <2> HIDE DEF Eq
  <2> QED BY <1>3
<1> HIDE DEF F, G
<1>5. \A k \in Nat : F[k] = Next1(F, k)
  <2>1. F = [k \in Nat |-> Next1(F, k)]
    BY <1>4
  <2> HIDE DEF Next1
  <2>2. QED
    BY <2>1
<1>6. F[0] = s0 /\ \A k \in Nat : F[k + 1] = After(F[k])
  <2>1. F[0] = s0
    BY <1>5
  <2>2. ASSUME NEW k \in Nat
        PROVE  F[k + 1] = After(F[k])
    <3>1. k + 1 \in Nat /\ k + 1 # 0 /\ (k + 1) - 1 = k
      OBVIOUS
    <3>2. F[k + 1] = Next1(F, k + 1)
      BY <1>5, <3>1
    <3>3. QED
      BY <3>1, <3>2
  <2>3. QED
    BY <2>1, <2>2
<1> DEFINE S == {k \in Nat : F[k + 1] = s}
<1>7. Nat \subseteq S
  <2>1. 0 \in S
    BY <1>1, <1>6
  <2>2. ASSUME NEW k \in Nat, k \in S
        PROVE  k + 1 \in S
    BY <1>1, <1>6, <2>2
  <2> HIDE DEF S
  <2>3. QED
    BY <2>1, <2>2, SetInduction
<1>8. QED
  BY <1>2, <1>7

(* What is left of the tags in use when t has become s.at, whose free      *)
(* neighbours are gone.                                                    *)
Merged(h, t, s) ==
  /\ Good(s.heap) /\ s.at \in Used(s.heap)
  /\ Used(s.heap) = (Used(h) \ {t}) \cup {s.at} /\ s.at \notin Used(h) \ {t}
  /\ Untouched(h, Used(h) \ {t}, s.heap)
  /\ s.heap.complete = h.complete

(* "index >= 0" tells the free tags from those in use.                     *)
LEMMA FreeTest ==
  ASSUME NEW h, Sound(h), NEW t \in DOMAIN h.tag \cup {NULL}
  PROVE  IsFree(h, t) <=> t # NULL /\ h.tag[t].index # -1
<1>1. t # NULL => h.tag[t].index \in Classes \cup {-1}
  BY DEF Sound, Heaped, TagFields
<1>2. MAXEXP \in Nat
  BY LiballocAssumption
<1>3. QED
  BY <1>1, <1>2 DEF IsFree, Classes

(* After its first round the first loop stands on a tag with no free left  *)
(* neighbour, since no two free tags were side by side...                  *)
LEMMA LeftRoundsMerge ==
  ASSUME NEW h, Good(h), NEW t \in Used(h), NEW k \in Nat
  PROVE  LET s == LeftRounds(h, t)[k + 1]
         IN  Merged(h, t, s) /\ ~IsFree(s.heap, s.heap.tag[s.at].left)
<1> DEFINE D == DOMAIN h.tag
<1>0. /\ Sound(h) /\ t \in D /\ h.tag[t].index = -1
      /\ NULL \notin D
      /\ h.tag[t].left \in D \cup {NULL}
  BY DEF Good, Used, Sound, Tiled, Heaped, NULL
<1>1. PICK l : l = h.tag[t].left
  OBVIOUS
<1>2. CASE ~IsFree(h, l)
  <2>1. PICK s : s = [heap |-> h, at |-> t]
    OBVIOUS
  <2>2. LeftRounds(h, t)[k + 1] = s
    <3>1. s.heap = h /\ s.at = t /\ ~IsFree(h, h.tag[t].left)
      BY <1>1, <1>2, <2>1
    <3>2. ~IsFree(s.heap, s.heap.tag[s.at].left)
      BY <3>1
    <3>3. s = IF IsFree(h, h.tag[t].left)
              THEN [heap |-> MeltLeft(h, t), at |-> h.tag[t].left] ELSE [heap |-> h, at |-> t]
      BY <2>1, <3>1
    <3>4. QED
      BY <3>2, <3>3, LeftRoundsRest
  <2>3. Merged(h, t, s)
    BY <1>0, <2>1 DEF Merged, Untouched, Used
  <2>4. QED
    BY <1>1, <1>2, <2>1, <2>2, <2>3
<1>3. CASE IsFree(h, l)
  <2>1. l \in D /\ h.tag[l].index # -1 /\ h.tag[l].right = t /\ l # NULL
    BY <1>0, <1>1, <1>3, FreeTest DEF Sound, Tiled
  <2>2. PICK g : g = MeltLeft(h, t)
    OBVIOUS
  <2>3. Joined(h, l, t, g)
    BY <1>0, <1>1, <2>1, <2>2, MeltLeftJoins
  <2>4. /\ Good(g) /\ Used(g) = (Used(h) \ {l, t}) \cup {l}
        /\ Untouched(h, Used(h) \ {l, t}, g)
    BY <1>0, <2>1, <2>3, JoinedGood
  <2>5. l \notin Used(h) /\ g.complete = h.complete
    BY <2>1, <2>3 DEF Used, Joined
  <2>6. PICK s : s = [heap |-> g, at |-> l]
    OBVIOUS
  <2>7. Merged(h, t, s)
    <3>1. Used(h) \ {l, t} = Used(h) \ {t}
      BY <2>5
    <3>2. QED
      BY <2>4, <2>5, <2>6, <3>1 DEF Merged
  <2>8. ~IsFree(g, g.tag[l].left)
    <3>1. Sound(g) /\ l \in DOMAIN g.tag
      BY <2>4 DEF Good, Used
    <3>2. g.tag[l].left \in DOMAIN g.tag \cup {NULL}
      BY <3>1 DEF Sound, Tiled
    <3>3. CASE g.tag[l].left # NULL
      <4>1. PICK u : u = g.tag[l].left
        OBVIOUS
      <4>2. u \in DOMAIN g.tag /\ g.tag[u].right = l /\ u # NULL
        BY <3>1, <3>3, <4>1 DEF Sound, Tiled
      <4>3. u # l
        BY <3>1, <4>2, Ends
      <4>4. l # h.tag[t].right
        <5>1. h.tag[t].right # NULL => h.tag[h.tag[t].right].left = t
          BY <1>0 DEF Sound, Tiled
        <5>2. l = h.tag[t].right => h.tag[l].left = t /\ t \in D /\ h.tag[t].right = l
          BY <1>0, <2>1, <5>1
        <5>3. h.tag[t].right # NULL => h.tag[t].right > t
          BY <1>0, Ends
        <5>4. h.tag[l].right > l /\ h.tag[l].right = t
          BY <1>0, <2>1, Ends
        <5>5. l \in Nat /\ t \in Nat
          BY <1>0, <2>1, Ends
        <5>6. QED
          BY <2>1, <5>3, <5>4, <5>5
      <4>5. h.tag[l].left = u /\ u \in D
        BY <2>1, <2>3, <4>1, <4>2, <4>4 DEF Joined
      <4>6. h.tag[u].index = -1
        BY <1>0, <2>1, <4>2, <4>5, Neighbours DEF Good, Used
      <4>7. g.tag[u].index = -1
        BY <2>3, <4>2, <4>3, <4>6 DEF Joined
      <4>8. QED
        BY <3>1, <4>1, <4>2, <4>7, FreeTest
    <3>4. CASE g.tag[l].left = NULL
      BY <3>4 DEF IsFree
    <3>5. QED
      BY <3>3, <3>4
  <2>9. s.heap = g /\ s.at = l
    BY <2>6
  <2>10. LeftRounds(h, t)[k + 1] = s
    BY <1>1, <1>3, <2>2, <2>6, <2>8, <2>9, LeftRoundsRest
  <2>11. QED
    BY <2>7, <2>8, <2>9, <2>10
<1>4. QED
  BY <1>2, <1>3

(* ... and so does the second loop at its right one.                       *)
LEMMA RightRoundsMerge ==
  ASSUME NEW h, Good(h), NEW t \in Used(h), ~IsFree(h, h.tag[t].left), NEW k \in Nat
  PROVE  LET s == RightRounds(h, t)[k + 1]
         IN  /\ Merged(h, t, s)
             /\ ~IsFree(s.heap, s.heap.tag[s.at].left)
             /\ ~IsFree(s.heap, s.heap.tag[s.at].right)
<1> DEFINE D == DOMAIN h.tag
<1>0. /\ Sound(h) /\ t \in D /\ h.tag[t].index = -1
      /\ NULL \notin D
      /\ h.tag[t].left \in D \cup {NULL} /\ h.tag[t].right \in D \cup {NULL}
  BY DEF Good, Used, Sound, Tiled, Heaped, NULL
<1>1. PICK r : r = h.tag[t].right
  OBVIOUS
<1>2. CASE ~IsFree(h, r)
  <2>1. PICK s : s = [heap |-> h, at |-> t]
    OBVIOUS
  <2>2. RightRounds(h, t)[k + 1] = s
    BY <1>1, <1>2, <2>1, RightRoundsRest
  <2>3. Merged(h, t, s)
    BY <1>0, <2>1 DEF Merged, Untouched, Used
  <2>4. QED
    BY <1>1, <1>2, <2>1, <2>2, <2>3
<1>3. CASE IsFree(h, r)
  <2>1. r \in D /\ h.tag[r].index # -1 /\ h.tag[r].left = t /\ r # NULL
    BY <1>0, <1>1, <1>3, FreeTest DEF Sound, Tiled
  <2>2. PICK g : g = MeltRight(h, t)
    OBVIOUS
  <2>3. Joined(h, t, r, g)
    BY <1>0, <1>1, <2>1, <2>2, MeltRightJoins
  <2>4. /\ Good(g) /\ Used(g) = (Used(h) \ {t, r}) \cup {t}
        /\ Untouched(h, Used(h) \ {t, r}, g)
    BY <1>0, <1>1, <2>1, <2>3, JoinedGood
  <2>5. r \notin Used(h) /\ g.complete = h.complete
    BY <2>1, <2>3 DEF Used, Joined
  <2>6. PICK s : s = [heap |-> g, at |-> t]
    OBVIOUS
  <2>7. Merged(h, t, s)
    <3>1. Used(h) \ {t, r} = Used(h) \ {t}
      BY <2>5
    <3>2. QED
      BY <2>4, <2>5, <2>6, <3>1 DEF Merged
  <2>8. ~IsFree(g, g.tag[t].right)
    <3>1. Sound(g) /\ t \in DOMAIN g.tag
      BY <2>4 DEF Good, Used
    <3>2. g.tag[t].right = h.tag[r].right
      BY <1>0, <2>3, <3>1 DEF Joined
    <3>3. CASE h.tag[r].right # NULL
      <4>1. PICK u : u = h.tag[r].right
        OBVIOUS
      <4>2. u \in DOMAIN g.tag /\ g.tag[u].left = t /\ u # NULL
        BY <3>1, <3>2, <3>3, <4>1 DEF Sound, Tiled
      <4>3. u # t
        BY <3>1, <3>2, <4>1, <4>2, Ends
      <4>4. h.tag[u].index = -1 /\ u \in D
        BY <1>0, <2>1, <3>3, <4>1, Neighbours DEF Good, Used
      <4>5. g.tag[u].index = -1
        BY <2>3, <4>2, <4>3, <4>4 DEF Joined
      <4>6. QED
        BY <3>1, <3>2, <4>1, <4>2, <4>5, FreeTest
    <3>4. CASE h.tag[r].right = NULL
      BY <3>2, <3>4 DEF IsFree
    <3>5. QED
      BY <3>3, <3>4
  <2>9. s.heap = g /\ s.at = t
    BY <2>6
  <2>10. RightRounds(h, t)[k + 1] = s
    BY <1>1, <1>3, <2>2, <2>6, <2>8, <2>9, RightRoundsRest
  <2>11. ~IsFree(g, g.tag[t].left)
    <3>1. Sound(g) /\ t \in DOMAIN g.tag
      BY <2>4 DEF Good, Used
    <3>2. CASE g.tag[t].left # NULL
      <4>1. PICK u : u = g.tag[t].left
        OBVIOUS
      <4>2. u \in DOMAIN g.tag /\ g.tag[u].right = t /\ u # NULL
        BY <3>1, <3>2, <4>1 DEF Sound, Tiled
      <4>3. u # t
        BY <3>1, <4>2, Ends
      <4>4. u \in D /\ h.tag[u].right = t /\ g.tag[u].index = h.tag[u].index
        BY <2>3, <4>2, <4>3 DEF Joined
      <4>5. h.tag[t].left = u
        BY <1>0, <4>4 DEF Sound, Tiled
      <4>6. h.tag[u].index = -1
        BY <1>0, <4>2, <4>4, <4>5, FreeTest
      <4>7. QED
        BY <3>1, <4>1, <4>2, <4>4, <4>6, FreeTest
    <3>3. CASE g.tag[t].left = NULL
      BY <3>3 DEF IsFree
    <3>4. QED
      BY <3>2, <3>3
  <2>12. QED
    BY <2>7, <2>8, <2>9, <2>10, <2>11
<1>4. QED
  BY <1>2, <1>3

(* Both loops, which run for as many rounds as there are tags: at least    *)
(* one.                                                                    *)
LEMMA CoalesceMerges ==
  ASSUME NEW h, Good(h), NEW t \in Used(h)
  PROVE  LET s == Coalesce(h, t)
         IN  /\ Merged(h, t, s)
             /\ ~IsFree(s.heap, s.heap.tag[s.at].left)
             /\ ~IsFree(s.heap, s.heap.tag[s.at].right)
<1>1. PICK n : n = Cardinality(DOMAIN h.tag)
  OBVIOUS
<1>2. PICK k \in Nat : n = k + 1
  <2>1. IsFiniteSet(DOMAIN h.tag) /\ t \in DOMAIN h.tag
    BY DEF Good, Sound, Heaped, Used
  <2>2. n \in Nat /\ n # 0
    BY <1>1, <2>1, FS_CardinalityType, FS_EmptySet
  <2>3. n - 1 \in Nat /\ n = (n - 1) + 1
    BY <2>2
  <2>4. QED
    BY <2>3
<1>3. PICK l : l = LeftRounds(h, t)[n]
  OBVIOUS
<1>4. Merged(h, t, l) /\ ~IsFree(l.heap, l.heap.tag[l.at].left)
  BY <1>2, <1>3, LeftRoundsMerge
<1>5. PICK s : s = RightRounds(l.heap, l.at)[n]
  OBVIOUS
<1>6. /\ Merged(l.heap, l.at, s)
      /\ ~IsFree(s.heap, s.heap.tag[s.at].left)
      /\ ~IsFree(s.heap, s.heap.tag[s.at].right)
  <2>1. Good(l.heap) /\ l.at \in Used(l.heap)
    BY <1>4 DEF Merged
  <2>2. PICK g : g = l.heap
    OBVIOUS
  <2>3. PICK u : u = l.at
    OBVIOUS
  <2>4. Good(g) /\ u \in Used(g) /\ ~IsFree(g, g.tag[u].left) /\ s = RightRounds(g, u)[k + 1]
    BY <1>2, <1>4, <1>5, <2>1, <2>2, <2>3
  <2>5. /\ Merged(g, u, s)
        /\ ~IsFree(s.heap, s.heap.tag[s.at].left)
        /\ ~IsFree(s.heap, s.heap.tag[s.at].right)
    BY <2>4, RightRoundsMerge
  <2>6. QED
    BY <2>2, <2>3, <2>5
<1>7. Merged(h, t, s)
  BY <1>4, <1>6 DEF Merged, Untouched
<1>8. Coalesce(h, t) = s
  BY <1>1, <1>3, <1>5 DEF Coalesce
<1>9. QED
  BY <1>6, <1>7, <1>8


(* What kernel_free does to the heap.                                      *)
Frees(h, t, f) ==
  /\ Good(f.heap)
  /\ f.stopped \in BOOLEAN
  /\ ~f.stopped => /\ Used(f.heap) = Used(h) \ {t}
                   /\ Untouched(h, Used(h) \ {t}, f.heap)

(* A tag without free neighbours enters the list of its class; if it is a  *)
(* whole block, it is counted.                                             *)
LEMMA ListedGood ==
  ASSUME NEW h, Good(h), NEW t \in Used(h), NEW i \in Classes,
         i = Class(h.tag[t].real_size - TAG),
         Whole(h.tag[t]) => h.complete[i] # MAXCOMPLETE,
         ~IsFree(h, h.tag[t].left), ~IsFree(h, h.tag[t].right)
  PROVE  LET g == insert_tag(Standby(h, t, i), t, i)
         IN  /\ Good(g)
             /\ Used(g) = Used(h) \ {t}
             /\ Untouched(h, DOMAIN h.tag, g)
<1> DEFINE D == DOMAIN h.tag
           x == IF Whole(h.tag[t]) THEN h.complete[i] + 1 ELSE h.complete[i]
           c == [h EXCEPT !.complete[i] = x]
           g == insert_tag(c, t, i)
<1>0. /\ Sound(h) /\ t \in D /\ h.tag[t].index = -1
      /\ NULL \notin D /\ x \in Int
  BY DEF Good, Used, Sound, Heaped, NULL
<1>1. Standby(h, t, i) = c
  BY DEF Standby
<1> HIDE DEF x
<1>2. /\ Sound(c) /\ c.tag = h.tag
      /\ \A j \in Classes : c.complete[j] = IF j = i THEN x ELSE h.complete[j]
  BY <1>0, CountSound
<1> HIDE DEF c
<1>3. Inserted(c, t, i, g) /\ Sound(g)
  BY <1>0, <1>2, InsertSound
<1> HIDE DEF g
<1>4. /\ DOMAIN g.tag = D /\ g.complete = c.complete
      /\ \A a \in D : /\ g.tag[a].size = h.tag[a].size
                      /\ g.tag[a].real_size = h.tag[a].real_size
                      /\ g.tag[a].left = h.tag[a].left
                      /\ g.tag[a].right = h.tag[a].right
                      /\ g.tag[a].index = IF a = t THEN i ELSE h.tag[a].index
  BY <1>2, <1>3 DEF Inserted
<1>5. \A j \in Classes : j # -1
  BY DEF Classes
<1>6. Classed(g)
  BY <1>4 DEF Good, Classed
<1>7. /\ h.tag[t].left # NULL => h.tag[t].left \in D /\ h.tag[h.tag[t].left].index = -1
      /\ h.tag[t].right # NULL => h.tag[t].right \in D /\ h.tag[h.tag[t].right].index = -1
      /\ h.tag[t].right # t
  <2>1. /\ h.tag[t].left # NULL => h.tag[t].left \in D
        /\ h.tag[t].right # NULL => h.tag[t].right \in D
    BY <1>0 DEF Sound, Tiled
  <2>2. h.tag[t].right # t
    BY <1>0, Ends
  <2>3. QED
    BY <1>0, <2>1, <2>2, FreeTest
<1>8. Coalesced(g)
  <2>1. ASSUME NEW a \in D, g.tag[a].index # -1, g.tag[a].right # NULL
        PROVE  g.tag[g.tag[a].right].index = -1
    <3>1. PICK u : u = h.tag[a].right
      OBVIOUS
    <3>2. u \in D /\ h.tag[u].left = a /\ g.tag[a].right = u /\ u # NULL
      BY <1>0, <1>4, <2>1, <3>1 DEF Sound, Tiled
    <3>3. CASE a = t
      BY <1>4, <1>7, <3>1, <3>2, <3>3
    <3>4. CASE a # t
      <4>1. h.tag[u].index = -1
        BY <1>4, <2>1, <3>1, <3>2, <3>4 DEF Good, Coalesced
      <4>2. h.tag[a].index # -1
        BY <1>4, <2>1, <3>4
      <4>3. u # t
        BY <1>0, <1>7, <3>2, <4>2
      <4>4. QED
        BY <1>4, <3>2, <4>1, <4>3
    <3>5. QED
      BY <3>3, <3>4
  <2>2. QED
    BY <1>4, <2>1 DEF Coalesced
<1>9. ASSUME NEW j \in Classes
      PROVE  g.complete[j] = Cardinality(WholeFree(g, j)) /\ g.complete[j] <= MAXCOMPLETE
  <2>0. /\ h.complete[j] = Cardinality(WholeFree(h, j)) /\ h.complete[j] <= MAXCOMPLETE
        /\ IsFiniteSet(WholeFree(h, j)) /\ Cardinality(WholeFree(h, j)) \in Nat /\ MAXCOMPLETE \in Nat
    BY <1>0, WholeFreeFinite, LiballocAssumption DEF Good, Counted
  <2>1. CASE j = i /\ Whole(h.tag[t])
    <3>1. WholeFree(g, j) = WholeFree(h, j) \cup {t} /\ t \notin WholeFree(h, j)
      BY <1>0, <1>4, <1>5, <2>1 DEF WholeFree, Whole
    <3>2. Cardinality(WholeFree(g, j)) = Cardinality(WholeFree(h, j)) + 1
      BY <2>0, <3>1, FS_AddElement
    <3>3. g.complete[j] = h.complete[j] + 1
      BY <1>2, <1>4, <2>1 DEF x
    <3>4. QED
      BY <2>0, <2>1, <3>2, <3>3
  <2>2. CASE ~(j = i /\ Whole(h.tag[t]))
    <3>1. WholeFree(g, j) = WholeFree(h, j)
      BY <1>0, <1>4, <1>5, <2>2 DEF WholeFree, Whole
    <3>2. g.complete[j] = h.complete[j]
      BY <1>2, <1>4, <2>2 DEF x
    <3>3. QED
      BY <2>0, <3>1, <3>2
  <2>3. QED
    BY <2>1, <2>2
<1>10. Good(g)
  BY <1>3, <1>6, <1>8, <1>9 DEF Good, Counted
<1>11. Used(g) = Used(h) \ {t}
  BY <1>4, <1>5 DEF Used
<1>12. Untouched(h, D, g)
  BY <1>4 DEF Untouched
<1>13. QED
  BY <1>1, <1>10, <1>11, <1>12 DEF g

(* kernel_free of a tag in use: it is given back and no other changes.     *)
LEMMA FreeGood ==
  ASSUME NEW h, Good(h), NEW t \in Used(h)
  PROVE  Frees(h, t, AfterFree(h, t + TAG))
<1>1. PICK s : s = Coalesce(h, t)
  OBVIOUS
<1>2. PICK g : g = s.heap
  OBVIOUS
<1>3. PICK u : u = s.at
  OBVIOUS
<1>4. Merged(h, t, s) /\ ~IsFree(g, g.tag[u].left) /\ ~IsFree(g, g.tag[u].right)
  BY <1>1, <1>2, <1>3, CoalesceMerges
<1>5. /\ Good(g) /\ u \in Used(g)
      /\ Used(g) \ {u} = Used(h) \ {t}
      /\ Untouched(h, Used(h) \ {t}, g)
      /\ g.complete = h.complete
  BY <1>2, <1>3, <1>4 DEF Merged
<1>6. PICK i \in Classes : i = Class(g.tag[u].real_size - TAG)
  <2>1. g.tag[u].real_size - TAG \in Int
    BY <1>5, Ends, LiballocAssumption DEF Good, Used
  <2>2. QED
    BY <2>1, ClassType
<1>7. (t + TAG) - TAG = t
  BY <1>5, Ends, LiballocAssumption DEF Good, Used
<1>8. AfterFree(h, t + TAG) =
        IF Whole(g.tag[u]) /\ h.complete[i] = MAXCOMPLETE
        THEN [heap |-> g, stopped |-> TRUE]
        ELSE [heap |-> insert_tag(Standby(g, u, i), u, i), stopped |-> FALSE]
  BY <1>1, <1>2, <1>3, <1>6, <1>7 DEF AfterFree
<1>9. PICK f : f = AfterFree(h, t + TAG)
  OBVIOUS
<1>10. CASE Whole(g.tag[u]) /\ h.complete[i] = MAXCOMPLETE
  <2>1. f = [heap |-> g, stopped |-> TRUE]
    BY <1>8, <1>9, <1>10
  <2>2. f.heap = g /\ f.stopped = TRUE
    BY <2>1
  <2>3. QED
    BY <1>5, <1>9, <2>2 DEF Frees
<1>11. CASE ~(Whole(g.tag[u]) /\ h.complete[i] = MAXCOMPLETE)
  <2>1. PICK k : k = insert_tag(Standby(g, u, i), u, i)
    OBVIOUS
  <2>2. f = [heap |-> k, stopped |-> FALSE]
    BY <1>8, <1>9, <1>11, <2>1
  <2>3. f.heap = k /\ f.stopped = FALSE
    BY <2>2
  <2>4. Whole(g.tag[u]) => g.complete[i] # MAXCOMPLETE
    BY <1>5, <1>11
  <2>5. Good(k) /\ Used(k) = Used(g) \ {u} /\ Untouched(g, DOMAIN g.tag, k)
    BY <1>4, <1>5, <1>6, <2>1, <2>4, ListedGood
  <2>6. Untouched(h, Used(h) \ {t}, k)
    BY <1>5, <2>5 DEF Untouched
  <2>7. QED
    BY <1>5, <1>9, <2>3, <2>5, <2>6 DEF Frees
<1>12. QED
  BY <1>10, <1>11

-----------------------------------------------------------------------------
(* What clients hold is what is in use.                                    *)
Holds(h, C) ==
  /\ C \subseteq [at : Nat, size : Sizes]
  /\ \A a \in C : /\ a.at - TAG \in Used(h)
                  /\ h.tag[a.at - TAG].size = a.size
                  /\ a.size + TAG <= h.tag[a.at - TAG].real_size
  /\ \A t \in Used(h) : \E a \in C : a.at = t + TAG

(* What kernel_malloc returns overlaps nothing that is held.               *)
LEMMA HoldsMalloc ==
  ASSUME NEW h, NEW C, Holds(h, C), Good(h), NEW size \in Sizes,
         NEW m, Serves(h, m, size), m.at # NULL
  PROVE  LET new == [at |-> m.at + TAG, size |-> size]
         IN  /\ Holds(m.heap, C \cup {new})
             /\ new.at \in Nat /\ new.at > 0
             /\ \A a \in C : a.at # new.at /\ ~H!Overlap(new, a)
<1>1. PICK g : g = m.heap
  OBVIOUS
<1>2. PICK t : t = m.at
  OBVIOUS
<1>3. PICK new : new = [at |-> t + TAG, size |-> size]
  OBVIOUS
<1>4. /\ Good(g) /\ Sound(g)
      /\ t \notin Used(h) /\ Used(g) = Used(h) \cup {t}
      /\ Untouched(h, Used(h), g)
      /\ g.tag[t].size = size /\ size + TAG <= g.tag[t].real_size
  BY <1>1, <1>2 DEF Serves, Good
<1>5. /\ TAG \in Nat \ {0} /\ size \in Nat /\ Sizes \subseteq Nat
      /\ \A u \in DOMAIN g.tag : u \in Nat /\ u > 0 /\ g.tag[u].real_size \in Nat
  BY <1>4, Ends, LiballocAssumption
<1>6. /\ t \in DOMAIN g.tag /\ t \in Nat
      /\ new.at = t + TAG /\ new.size = size /\ new.at - TAG = t
      /\ new \in [at : Nat, size : Sizes]
  BY <1>3, <1>4, <1>5 DEF Used
<1>7. ASSUME NEW a \in C
      PROVE  /\ a.at \in Nat /\ a.size \in Nat
             /\ a.at - TAG \in Used(h) /\ a.at - TAG \in Used(g) /\ a.at - TAG # t
             /\ g.tag[a.at - TAG].size = a.size
             /\ a.size + TAG <= g.tag[a.at - TAG].real_size
  BY <1>4, <1>5 DEF Holds, Untouched
<1>8. Holds(g, C \cup {new})
  <2>1. C \cup {new} \subseteq [at : Nat, size : Sizes]
    BY <1>6 DEF Holds
  <2>2. \A a \in C \cup {new} : /\ a.at - TAG \in Used(g)
                                /\ g.tag[a.at - TAG].size = a.size
                                /\ a.size + TAG <= g.tag[a.at - TAG].real_size
    BY <1>4, <1>6, <1>7
  <2>3. \A u \in Used(g) : \E a \in C \cup {new} : a.at = u + TAG
    BY <1>4, <1>6 DEF Holds
  <2>4. QED
    BY <2>1, <2>2, <2>3 DEF Holds
<1>9. ASSUME NEW a \in C
      PROVE  a.at # new.at /\ ~H!Overlap(new, a)
  <2>1. PICK u : u = a.at - TAG
    OBVIOUS
  <2>2. /\ u \in DOMAIN g.tag /\ u \in Nat /\ u # t /\ a.at = u + TAG
        /\ a.size \in Nat /\ a.size + TAG <= g.tag[u].real_size
        /\ g.tag[u].real_size \in Nat /\ g.tag[t].real_size \in Nat
    BY <1>5, <1>6, <1>7, <2>1 DEF Used
  <2>3. u + g.tag[u].real_size <= t \/ t + g.tag[t].real_size <= u
    BY <1>4, <1>6, <2>2 DEF Sound, Apart
  <2>4. new.at + new.size <= a.at \/ a.at + a.size <= new.at
    BY <1>4, <1>5, <1>6, <2>2, <2>3
  <2>5. a.at # new.at
    BY <1>5, <1>6, <2>2
  <2>6. QED
    BY <1>5, <1>6, <1>7, <2>4, <2>5 DEF H!Overlap
<1>10. QED
  BY <1>1, <1>2, <1>3, <1>5, <1>6, <1>8, <1>9

(* After kernel_free the others hold what they held.                       *)
LEMMA HoldsFree ==
  ASSUME NEW h, NEW C, Holds(h, C), Good(h), NEW a \in C
  PROVE  LET f == AfterFree(h, a.at)
         IN  /\ Good(f.heap) /\ f.stopped \in BOOLEAN
             /\ ~f.stopped => Holds(f.heap, C \ {a})
<1>1. PICK t : t = a.at - TAG
  OBVIOUS
<1>2. /\ t \in Used(h) /\ t \in Nat /\ a.at = t + TAG /\ TAG \in Nat
      /\ a.at \in Nat /\ Sizes \subseteq Nat
  BY <1>1, Ends, LiballocAssumption DEF Holds, Good, Used
<1>3. PICK f : f = AfterFree(h, a.at)
  OBVIOUS
<1>4. Frees(h, t, f)
  BY <1>2, <1>3, FreeGood
<1>5. ASSUME ~f.stopped
      PROVE  Holds(f.heap, C \ {a})
  <2>1. PICK g : g = f.heap
    OBVIOUS
  <2>2. Used(g) = Used(h) \ {t} /\ Untouched(h, Used(h) \ {t}, g)
    BY <1>4, <1>5, <2>1 DEF Frees
  <2>3. ASSUME NEW b \in C \ {a}
        PROVE  b.at - TAG \in Used(h) /\ b.at - TAG # t
    <3>1. /\ b.at - TAG \in Used(h) /\ b.at \in Nat
          /\ h.tag[b.at - TAG].size = b.size /\ h.tag[t].size = a.size
      BY <1>1 DEF Holds
    <3>2. b.at - TAG = t => b.at = a.at /\ b.size = a.size
      BY <1>2, <3>1
    <3>3. b = [at |-> b.at, size |-> b.size] /\ a = [at |-> a.at, size |-> a.size]
      BY DEF Holds
    <3>4. QED
      BY <3>1, <3>2, <3>3
  <2>4. \A b \in C \ {a} : /\ b.at - TAG \in Used(g)
                           /\ g.tag[b.at - TAG].size = b.size
                           /\ b.size + TAG <= g.tag[b.at - TAG].real_size
    BY <2>2, <2>3 DEF Holds, Untouched
  <2>5. \A u \in Used(g) : \E b \in C \ {a} : b.at = u + TAG
    <3>1. ASSUME NEW u \in Used(g)
          PROVE  \E b \in C \ {a} : b.at = u + TAG
      <4>1. u \in Used(h) /\ u # t /\ u \in Nat
        BY <2>2, Ends DEF Good, Used
      <4>2. PICK b \in C : b.at = u + TAG
        BY <4>1 DEF Holds
      <4>3. b # a
        BY <1>2, <4>1, <4>2
      <4>4. QED
        BY <4>2, <4>3
    <3>2. QED
      BY <3>1
  <2>6. QED
    BY <2>1, <2>4, <2>5 DEF Holds
<1>6. QED
  BY <1>3, <1>4, <1>5 DEF Frees

-----------------------------------------------------------------------------
(* Two moves never share an allocation.                                    *)
Moves ==
  /\ moving \subseteq [old : held, new : held \cup [at : {NULL}, size : Sizes]]
  /\ \A m, n \in moving : m.old # n.new /\ (m.old = n.old => m = n)

(* The inductive invariant.  Once a call has not returned (stopped), the   *)
(* lock stays taken: the heap is still good, but the tag that was being    *)
(* freed is in use and held by nobody.                                     *)
IInv ==
  /\ Good(Heap)
  /\ held \subseteq [at : Nat, size : Sizes]
  /\ ~stopped => Holds(Heap, held)
  /\ Moves
  /\ stopped \in BOOLEAN

(* An empty heap is good.                                                  *)
LEMMA InitGood ==
  ASSUME Init
  PROVE  Good(Heap) /\ Used(Heap) = {}
<1> DEFINE h == Heap
<1>1. /\ h.tag = <<>> /\ h.free = [i \in Classes |-> NULL]
      /\ h.complete = [i \in Classes |-> 0]
      /\ h \in [tag : {h.tag}, free : {h.free}, complete : {h.complete}]
  BY DEF Init, Heap
<1> HIDE DEF h
<1>2. DOMAIN h.tag = {} /\ h.tag \in [DOMAIN h.tag -> TagFields]
  BY <1>1
<1>3. Heaped(h)
  BY <1>1, <1>2, FS_EmptySet DEF Heaped, NULL
<1>4. Tiled(h) /\ Apart(h) /\ Reached(h) /\ Classed(h) /\ Coalesced(h)
  BY <1>2 DEF Tiled, Apart, Reached, Classed, Coalesced
<1>5. Linked(h)
  BY <1>1, <1>2 DEF Linked
<1>6. Counted(h)
  <2>1. ASSUME NEW i \in Classes
        PROVE  WholeFree(h, i) = {}
    BY <1>2 DEF WholeFree
  <2>2. QED
    <3>1. 0 <= MAXCOMPLETE
      BY LiballocAssumption
    <3>2. \A i \in Classes : h.complete[i] = 0 /\ Cardinality(WholeFree(h, i)) = 0
      BY <1>1, <2>1, FS_EmptySet
    <3>3. QED
      BY <3>1, <3>2 DEF Counted
<1>7. QED
  BY <1>2, <1>3, <1>4, <1>5, <1>6 DEF Good, Sound, Used, h

(* Becomes changes the heap as a value.                                    *)
LEMMA BecomesHeap ==
  ASSUME NEW g, Good(g), Becomes(g)
  PROVE  Heap' = g
<1>1. g = [tag |-> g.tag, free |-> g.free, complete |-> g.complete]
  BY DEF Good, Sound, Heaped
<1>2. QED
  BY <1>1 DEF Becomes, Heap

LEMMA InitInvariant == Init => IInv
<1> SUFFICES ASSUME Init
             PROVE  IInv
  OBVIOUS
<1>1. held = {} /\ moving = {} /\ stopped = FALSE
  BY DEF Init
<1>2. Holds(Heap, held)
  BY <1>1, InitGood DEF Holds
<1>3. QED
  BY <1>1, <1>2, InitGood DEF IInv, Moves

(* A new allocation, as kernel_malloc and ReallocMalloc make it.           *)
LEMMA MallocStep ==
  ASSUME IInv, ~stopped, NEW size \in Sizes, NEW m, m = AfterMalloc(Heap, size),
         Becomes(m.heap), NEW new, new = [at |-> m.at + TAG, size |-> size],
         held' = IF m.at = NULL THEN held ELSE held \cup {new}
  PROVE  /\ Good(Heap)' /\ Holds(Heap, held)'
         /\ m.at # NULL => /\ new.at \in Nat /\ new.at > 0
                           /\ \A a \in held : a.at # new.at /\ ~H!Overlap(new, a)
<1>1. PICK h : h = Heap
  OBVIOUS
<1>2. Good(h) /\ Holds(h, held) /\ size \in Nat
  BY <1>1, LiballocAssumption DEF IInv
<1>3. Serves(h, m, size)
  BY <1>1, <1>2, MallocGood
<1>4. Good(m.heap) /\ Heap' = m.heap
  BY <1>3, BecomesHeap DEF Serves
<1>5. CASE m.at = NULL
  <2>1. m.heap = h /\ held' = held
    BY <1>3, <1>5 DEF Serves
  <2>2. QED
    BY <1>2, <1>4, <1>5, <2>1
<1>6. CASE m.at # NULL
  BY <1>2, <1>3, <1>4, <1>6, HoldsMalloc
<1>7. QED
  BY <1>5, <1>6

(* The end of an allocation, as kernel_free and ReallocFree make it.       *)
LEMMA FreeStep ==
  ASSUME IInv, ~stopped, NEW a \in held, NEW f, f = AfterFree(Heap, a.at),
         Becomes(f.heap), stopped' = f.stopped, held' = held \ {a}
  PROVE  /\ Good(Heap)' /\ stopped' \in BOOLEAN
         /\ ~stopped' => Holds(Heap, held)'
<1>1. PICK h : h = Heap
  OBVIOUS
<1>2. Good(h) /\ Holds(h, held)
  BY <1>1 DEF IInv
<1>3. /\ Good(f.heap) /\ f.stopped \in BOOLEAN
      /\ ~f.stopped => Holds(f.heap, held \ {a})
  BY <1>1, <1>2, HoldsFree
<1>4. Heap' = f.heap
  BY <1>3, BecomesHeap
<1>5. QED
  BY <1>3, <1>4

(* Each action keeps the invariant.                                        *)
LEMMA MallocKeeps ==
  ASSUME IInv, NEW n \in Sizes, kernel_malloc(n)
  PROVE  IInv'
<1>1. PICK m : m = AfterMalloc(Heap, n)
  OBVIOUS
<1>2. PICK new : new = [at |-> m.at + TAG, size |-> n]
  OBVIOUS
<1>3. /\ ~stopped /\ Becomes(m.heap) /\ moving' = moving /\ stopped' = stopped
      /\ held' = IF m.at = NULL THEN held ELSE held \cup {new}
  BY <1>1, <1>2 DEF kernel_malloc
<1>4. Good(Heap)' /\ Holds(Heap, held)'
  BY <1>1, <1>2, <1>3, MallocStep
<1>5. held \subseteq held' /\ (held \subseteq [at : Nat, size : Sizes])'
  BY <1>3, <1>4 DEF Holds
<1>6. Moves'
  <2>1. \A m1, m2 \in moving : m1.old # m2.new /\ (m1.old = m2.old => m1 = m2)
    BY DEF IInv, Moves
  <2>2. moving \subseteq [old : held', new : held' \cup [at : {NULL}, size : Sizes]]
    <3>1. moving \subseteq [old : held, new : held \cup [at : {NULL}, size : Sizes]]
      BY DEF IInv, Moves
    <3>2. QED
      BY <1>5, <3>1
  <2>3. QED
    BY <1>3, <2>1, <2>2 DEF Moves
<1>7. QED
  BY <1>3, <1>4, <1>5, <1>6 DEF IInv

LEMMA FreeKeeps ==
  ASSUME IInv, NEW a \in held, kernel_free(a)
  PROVE  IInv'
<1>1. PICK f : f = AfterFree(Heap, a.at)
  OBVIOUS
<1>2. /\ ~stopped /\ Becomes(f.heap) /\ stopped' = f.stopped /\ held' = held \ {a}
      /\ moving' = moving /\ \A m \in moving : a \notin {m.old, m.new}
  BY <1>1 DEF kernel_free
<1>3. Good(Heap)' /\ stopped' \in BOOLEAN /\ (~stopped' => Holds(Heap, held)')
  BY <1>1, <1>2, FreeStep
<1>4. Moves'
  <2>1. moving \subseteq [old : held, new : held \cup [at : {NULL}, size : Sizes]]
    BY DEF IInv, Moves
  <2>2. moving \subseteq [old : held', new : held' \cup [at : {NULL}, size : Sizes]]
    BY <1>2, <2>1
  <2>3. QED
    BY <1>2, <2>2 DEF IInv, Moves
<1>5. QED
  BY <1>2, <1>3, <1>4 DEF IInv

LEMMA ReallocMallocKeeps ==
  ASSUME IInv, NEW a \in held, NEW n \in Sizes, ReallocMalloc(a, n)
  PROVE  IInv'
<1>1. PICK m : m = AfterMalloc(Heap, n)
  OBVIOUS
<1>2. PICK new : new = [at |-> m.at + TAG, size |-> n]
  OBVIOUS
<1>3. PICK to : to = [at |-> IF m.at = NULL THEN NULL ELSE m.at + TAG, size |-> n]
  OBVIOUS
<1>4. PICK move : move = [old |-> a, new |-> to]
  OBVIOUS
<1>5. m.at # NULL => to = new
  BY <1>2, <1>3
<1>6. /\ ~stopped /\ Becomes(m.heap) /\ stopped' = stopped
      /\ held' = IF m.at = NULL THEN held ELSE held \cup {new}
      /\ moving' = moving \cup {move}
      /\ \A k \in moving : a \notin {k.old, k.new}
  <2>1. /\ ~stopped /\ Becomes(m.heap) /\ stopped' = stopped
        /\ held' = IF m.at = NULL THEN held ELSE held \cup {to}
        /\ moving' = moving \cup {move}
        /\ \A k \in moving : a \notin {k.old, k.new}
    BY <1>1, <1>3, <1>4 DEF ReallocMalloc
  <2>2. QED
    BY <1>5, <2>1
<1>7. /\ Good(Heap)' /\ Holds(Heap, held)'
      /\ m.at # NULL => \A b \in held : b.at # new.at
  <2>1. ~stopped /\ Becomes(m.heap) /\ held' = IF m.at = NULL THEN held ELSE held \cup {new}
    BY <1>6
  <2>2. Good(Heap)' /\ Holds(Heap, held)'
    BY <1>1, <1>2, <2>1, MallocStep
  <2>3. ASSUME m.at # NULL
        PROVE  \A b \in held : b.at # new.at /\ ~H!Overlap(new, b)
    BY <1>1, <1>2, <2>1, <2>3, MallocStep
  <2>4. QED
    BY <2>2, <2>3
<1>8. held \subseteq held' /\ (held \subseteq [at : Nat, size : Sizes])'
  BY <1>6, <1>7 DEF Holds
<1>9. \A b \in held : b # to
  <2>1. CASE m.at = NULL
    <3>1. \A b \in held : b.at # NULL
      <4>1. \A b \in held : b.at \in Nat /\ b.at - TAG \in Used(Heap)
        BY <1>6 DEF IInv, Holds
      <4>2. \A u \in Used(Heap) : u > 0
        BY Ends DEF IInv, Good, Used
      <4>3. QED
        BY <4>1, <4>2, LiballocAssumption DEF NULL
    <3>2. to.at = NULL
      BY <1>3, <2>1
    <3>3. QED
      BY <3>1, <3>2
  <2>2. CASE m.at # NULL
    BY <1>5, <1>7, <2>2
  <2>3. QED
    BY <2>1, <2>2
<1>10. to \in held' \cup [at : {NULL}, size : Sizes]
  <2>1. CASE m.at = NULL
    BY <1>3, <2>1
  <2>2. CASE m.at # NULL
    BY <1>5, <1>6, <2>2
  <2>3. QED
    BY <2>1, <2>2
<1>11. Moves'
  <2>1. moving \subseteq [old : held, new : held \cup [at : {NULL}, size : Sizes]]
    BY DEF IInv, Moves
  <2>2. move.old = a /\ move.new = to
        /\ move \in [old : held', new : held' \cup [at : {NULL}, size : Sizes]]
    BY <1>4, <1>8, <1>10
  <2>3. moving' \subseteq [old : held', new : held' \cup [at : {NULL}, size : Sizes]]
    BY <1>6, <1>8, <2>1, <2>2
  <2>4. ASSUME NEW k \in moving
        PROVE  k.old # to /\ k.old # a /\ k.new # a
    <3>1. k.old \in held
      BY <2>1
    <3>2. QED
      BY <1>6, <1>9, <3>1
  <2>5. a # to
    BY <1>9
  <2>6. \A m1, m2 \in moving : m1.old # m2.new /\ (m1.old = m2.old => m1 = m2)
    BY DEF IInv, Moves
  <2>7. \A m1, m2 \in moving' : m1.old # m2.new /\ (m1.old = m2.old => m1 = m2)
    BY <1>6, <2>2, <2>4, <2>5, <2>6
  <2>8. QED
    BY <2>3, <2>7 DEF Moves
<1>12. QED
  BY <1>6, <1>7, <1>8, <1>11 DEF IInv

LEMMA ReallocFreeKeeps ==
  ASSUME IInv, NEW m \in moving, ReallocFree(m)
  PROVE  IInv'
<1>1. PICK f : f = AfterFree(Heap, m.old.at)
  OBVIOUS
<1>2. PICK a : a = m.old
  OBVIOUS
<1>3. /\ ~stopped /\ Becomes(f.heap) /\ stopped' = f.stopped /\ held' = held \ {a}
      /\ moving' = moving \ {m} /\ f = AfterFree(Heap, a.at)
  BY <1>1, <1>2 DEF ReallocFree
<1>4. moving \subseteq [old : held, new : held \cup [at : {NULL}, size : Sizes]]
  BY DEF IInv, Moves
<1>5. a \in held
  BY <1>2, <1>4
<1>6. Good(Heap)' /\ stopped' \in BOOLEAN /\ (~stopped' => Holds(Heap, held)')
  BY <1>3, <1>5, FreeStep
<1>7. Moves'
  <2>1. \A k \in moving : k # m => k.old # a /\ k.new # a
    BY <1>2 DEF IInv, Moves
  <2>2. moving' \subseteq [old : held', new : held' \cup [at : {NULL}, size : Sizes]]
    BY <1>3, <1>4, <2>1
  <2>3. QED
    BY <1>3, <2>2 DEF IInv, Moves
<1>8. QED
  BY <1>3, <1>6, <1>7 DEF IInv

LEMMA StepInvariant == IInv /\ [Next]_vars => IInv'
<1> SUFFICES ASSUME IInv, [Next]_vars
             PROVE  IInv'
  OBVIOUS
<1>1. CASE \E n \in Sizes : kernel_malloc(n)
  BY <1>1, MallocKeeps
<1>2. CASE \E a \in held : kernel_free(a)
  BY <1>2, FreeKeeps
<1>3. CASE \E a \in held, n \in Sizes : ReallocMalloc(a, n)
  BY <1>3, ReallocMallocKeeps
<1>4. CASE \E m \in moving : ReallocFree(m)
  BY <1>4, ReallocFreeKeeps
<1>5. CASE UNCHANGED vars
  <2>1. Heap' = Heap /\ held' = held /\ moving' = moving /\ stopped' = stopped
    BY <1>5 DEF vars, Heap
  <2>2. QED
    BY <2>1 DEF IInv, Moves
<1>6. QED
  BY <1>1, <1>2, <1>3, <1>4, <1>5 DEF Next

(* Between any two calls of kernel_malloc, kernel_free and kernel_realloc  *)
(* (liballoc.c:285, 400, 511) tags tile their blocks, lists and counts are *)
(* exact, no two free tags are neighbours, and, while the lock is not      *)
(* stuck, the tags in use are those of the allocations that clients hold.  *)
THEOREM HeapInvariant == Spec => []IInv
BY InitInvariant, StepInvariant, PTL DEF Spec

(* The heap implements Heap: kernel_malloc returns memory that overlaps    *)
(* no allocation, and no call moves, resizes or takes away an allocation   *)
(* that is not its own, however tags are split, joined and reused          *)
(* (liballoc.c:306-377, 426-443).                                          *)
THEOREM HeapImplemented == Spec => ImplementsHeap
<1>1. Init => H!Init
  BY DEF Init, H!Init
<1>2. IInv /\ IInv' /\ [Next]_vars => [H!Malloc \/ H!Free]_held
  <2> SUFFICES ASSUME IInv, [Next]_vars, held' # held
               PROVE  H!Malloc \/ H!Free
    OBVIOUS
  <2>1. ASSUME NEW n \in Sizes, NEW m, m = AfterMalloc(Heap, n), ~stopped, Becomes(m.heap),
               NEW new, new = [at |-> m.at + TAG, size |-> n],
               held' = IF m.at = NULL THEN held ELSE held \cup {new}
        PROVE  H!Malloc
    <3>1. m.at # NULL /\ held' = held \cup {new} /\ new \in held' \ held
      BY <2>1
    <3>2. new.at > 0 /\ \A a \in held : a.at # new.at /\ ~H!Overlap(new, a)
      BY <2>1, <3>1, MallocStep
    <3>3. new.size \in Sizes
      BY <2>1
    <3>4. QED
      BY <3>1, <3>2, <3>3 DEF H!Malloc
  <2>2. ASSUME NEW n \in Sizes, kernel_malloc(n)
        PROVE  H!Malloc
    <3>1. PICK m : m = AfterMalloc(Heap, n)
      OBVIOUS
    <3>2. PICK new : new = [at |-> m.at + TAG, size |-> n]
      OBVIOUS
    <3>3. ~stopped /\ Becomes(m.heap) /\ held' = IF m.at = NULL THEN held ELSE held \cup {new}
      BY <2>2, <3>1, <3>2 DEF kernel_malloc
    <3>4. QED
      BY <2>1, <3>1, <3>2, <3>3
  <2>3. ASSUME NEW a \in held, NEW n \in Sizes, ReallocMalloc(a, n)
        PROVE  H!Malloc
    <3>1. PICK m : m = AfterMalloc(Heap, n)
      OBVIOUS
    <3>2. PICK new : new = [at |-> m.at + TAG, size |-> n]
      OBVIOUS
    <3>3. /\ ~stopped /\ Becomes(m.heap)
          /\ held' = IF m.at = NULL THEN held ELSE held \cup {new}
      BY <2>3, <3>1, <3>2 DEF ReallocMalloc
    <3>4. QED
      BY <2>1, <3>1, <3>2, <3>3
  <2>4. ASSUME NEW a \in held, kernel_free(a)
        PROVE  H!Free
    BY <2>4 DEF kernel_free, H!Free
  <2>5. ASSUME NEW m \in moving, ReallocFree(m)
        PROVE  H!Free
    <3>1. m.old \in held
      BY DEF IInv, Moves
    <3>2. QED
      BY <2>5, <3>1 DEF ReallocFree, H!Free
  <2>6. QED
    BY <2>2, <2>3, <2>4, <2>5 DEF Next, vars
<1>3. QED
  BY <1>1, <1>2, HeapInvariant, PTL DEF Spec, ImplementsHeap, H!Spec

(* A request under four quanta, such as a list node of the frame allocator *)
(* (24 bytes), is never served from a free tag of its size class: it takes *)
(* new pages.  kernel_malloc asks for room for a second tag (liballoc.c:   *)
(* 315), which alone is larger than what the class can hold in excess.     *)
THEOREM SmallAlwaysNewBlock == Spec => SmallRequestsGetNewBlocks
<1> DEFINE Small(n) == n < 4 * Bit[MINEXP] /\ kernel_malloc(n) /\ held' # held =>
                         Cardinality({t \in Tags : tag[t].left = NULL})' >
                         Cardinality({t \in Tags : tag[t].left = NULL})
<1>1. ASSUME IInv, NEW n \in Sizes, n < 4 * Bit[MINEXP], kernel_malloc(n), held' # held
      PROVE  Cardinality(Starts(Heap)') > Cardinality(Starts(Heap))
  <2>1. Good(Heap) /\ n \in Nat
    BY <1>1, LiballocAssumption DEF IInv
  <2>2. PICK h : h = Heap
    OBVIOUS
  <2>3. PICK m : m = AfterMalloc(h, n)
    OBVIOUS
  <2>4. Becomes(m.heap) /\ m.at # NULL
    BY <1>1, <2>2, <2>3 DEF kernel_malloc
  <2>5. Good(m.heap)
    BY <2>1, <2>2, <2>3, MallocGood DEF Serves
  <2>6. Heap' = m.heap
    BY <2>4, <2>5, BecomesHeap
  <2>7. m.at \notin DOMAIN h.tag /\ Starts(m.heap) = Starts(h) \cup {m.at}
    BY <1>1, <2>1, <2>2, <2>3, <2>4, SmallAddsBlock
  <2>8. IsFiniteSet(Starts(h)) /\ m.at \notin Starts(h)
    <3>1. IsFiniteSet(DOMAIN h.tag) /\ Starts(h) \in SUBSET (DOMAIN h.tag)
      BY <2>1, <2>2 DEF Good, Sound, Heaped, Starts
    <3>2. QED
      BY <2>7, <3>1, FS_Subset
  <2>9. /\ Cardinality(Starts(h)) \in Nat
        /\ Cardinality(Starts(h) \cup {m.at}) = Cardinality(Starts(h)) + 1
    BY <2>8, FS_CardinalityType, FS_AddElement
  <2>10. Starts(Heap)' = Starts(m.heap)
    BY <2>6 DEF Starts
  <2>11. QED
    BY <2>2, <2>7, <2>9, <2>10
<1>2. Starts(Heap) = {t \in Tags : tag[t].left = NULL}
  BY DEF Starts, Heap, Tags
<1>3. Starts(Heap)' = {t \in Tags : tag[t].left = NULL}'
  BY DEF Starts, Heap, Tags
<1>4. IInv /\ [Next]_vars => [\A n \in Sizes : Small(n)]_vars
  <2>1. ASSUME IInv, NEW n \in Sizes
        PROVE  Small(n)
    BY <1>1, <1>2, <1>3, <2>1
  <2>2. QED
    BY <2>1
<1>5. QED
  BY <1>4, HeapInvariant, PTL DEF Spec, SmallRequestsGetNewBlocks

-----------------------------------------------------------------------------
(* From the heap as a value to the variables.                              *)
LEMMA HeapFields ==
  Heap.tag = tag /\ Heap.free = l_freePages /\ Heap.complete = l_completePages
BY DEF Heap

LEMMA FreeTagsAre ==
  ASSUME Good(Heap)
  PROVE  /\ Used(Heap) = Tags \ FreeTags
         /\ \A t \in Tags : tag[t].index \in Classes \cup {-1}
         /\ \A t \in Tags : t \in FreeTags <=> tag[t].index # -1
<1>1. \A t \in Tags : tag[t].index \in Classes \cup {-1}
  BY HeapFields DEF Good, Sound, Heaped, TagFields, Tags
<1>2. \A i \in Classes : i >= 0
  BY DEF Classes
<1>3. \A t \in Tags : t \in FreeTags <=> tag[t].index # -1
  BY <1>1, <1>2 DEF FreeTags
<1>4. QED
  BY <1>1, <1>3, HeapFields DEF Used, Tags, FreeTags

(* Every link of every tag, and every list head, leads to a tag that       *)
(* exists: melting never leaves a pointer to the boundary tag it destroys  *)
(* (liballoc.c:181-207), and no count of whole blocks falls below zero     *)
(* (liballoc.c:345).                                                       *)
THEOREM HeapTypeCorrect == Spec => []TypeOK
<1>1. IInv => TypeOK
  <2> SUFFICES ASSUME IInv
               PROVE  TypeOK
    OBVIOUS
  <2>1. Good(Heap) /\ Sound(Heap)
    BY DEF IInv, Good
  <2>2. /\ tag \in [Tags -> TagFields]
        /\ l_freePages \in [Classes -> Nat]
        /\ l_completePages \in [Classes -> Int]
    BY <2>1, HeapFields DEF Sound, Heaped, Tags
  <2>3. \A t \in Tags :
          /\ tag[t].left \in TagOrNull /\ tag[t].right \in TagOrNull
          /\ tag[t].next \in TagOrNull /\ tag[t].prev \in TagOrNull
    BY <2>1, HeapFields DEF Sound, Tiled, Linked, Tags, TagOrNull
  <2>4. tag \in [Tags -> [size : Nat, real_size : Nat, index : Classes \cup {-1},
                          left : TagOrNull, right : TagOrNull,
                          next : TagOrNull, prev : TagOrNull]]
    <3>1. ASSUME NEW t \in Tags
          PROVE  tag[t] \in [size : Nat, real_size : Nat, index : Classes \cup {-1},
                             left : TagOrNull, right : TagOrNull,
                             next : TagOrNull, prev : TagOrNull]
      <4>1. tag[t] \in TagFields
        BY <2>2
      <4>2. QED
        BY <2>3, <4>1 DEF TagFields
    <3>2. QED
      BY <2>2, <3>1
  <2>5. l_freePages \in [Classes -> TagOrNull]
    <3>1. \A i \in Classes : l_freePages[i] \in TagOrNull
      BY <2>1, HeapFields DEF Sound, Linked, Tags, TagOrNull
    <3>2. QED
      BY <2>2, <3>1
  <2>6. l_completePages \in [Classes -> Nat]
    <3>1. \A i \in Classes : l_completePages[i] \in Nat
      BY <2>1, HeapFields, WholeFreeFinite DEF Good, Counted
    <3>2. QED
      BY <2>2, <3>1
  <2>7. QED
    BY <2>4, <2>5, <2>6 DEF IInv, Moves, TypeOK
<1>2. QED
  BY <1>1, HeapInvariant, PTL

(* The boundary tags tile their blocks, with links both ways, whatever     *)
(* split_tag (liballoc.c:209), melt_left and absorb_right did.             *)
THEOREM TagsAlwaysTile == Spec => []TagsTileBlocks
<1>1. IInv => TagsTileBlocks
  BY HeapFields DEF IInv, Good, Sound, Tiled, TagsTileBlocks, Tags
<1>2. QED
  BY <1>1, HeapInvariant, PTL

(* Free tags are never neighbours, so one round of each loop of            *)
(* kernel_free (liballoc.c:427, 437) joins all there is to join, and the   *)
(* rest that split_tag cuts off is never next to a free tag.               *)
THEOREM FreeTagsAlwaysApart == Spec => []NoFreeNeighbours
<1>1. IInv => NoFreeNeighbours
  <2> SUFFICES ASSUME Good(Heap), NEW t \in FreeTags, tag[t].right # NULL
               PROVE  tag[t].right \notin FreeTags
    BY DEF IInv, NoFreeNeighbours
  <2>1. t \in Tags /\ tag[t].index # -1
    BY FreeTagsAre DEF FreeTags
  <2>2. tag[t].right \in Tags /\ tag[tag[t].right].index = -1
    BY <2>1, HeapFields DEF Good, Sound, Tiled, Coalesced, Tags
  <2>3. QED
    BY <2>2, FreeTagsAre
<1>2. QED
  BY <1>1, HeapInvariant, PTL

(* l_completePages counts the whole free blocks of each class, no more     *)
(* than MAXCOMPLETE of them (liballoc.c:343-345, 450-476), though malloc   *)
(* and free decide independently whether a block is whole.                 *)
THEOREM WholeBlocksCounted == Spec => []CompleteExact
<1>1. IInv => CompleteExact
  <2> SUFFICES ASSUME Good(Heap)
               PROVE  CompleteExact
    BY DEF IInv
  <2>1. ASSUME NEW i \in Classes
        PROVE  WholeFree(Heap, i) = {t \in FreeTags : Whole(tag[t]) /\ tag[t].index = i}
    <3>1. i >= 0
      BY DEF Classes
    <3>2. QED
      BY <3>1, HeapFields DEF WholeFree, FreeTags, Tags
  <2>2. QED
    BY <2>1, HeapFields DEF Good, Counted, CompleteExact
<1>2. QED
  BY <1>1, HeapInvariant, PTL

(* While the lock is not stuck, the tags in use are those of the           *)
(* allocations held, each large enough for the size it was asked for and   *)
(* recording that size.                                                    *)
THEOREM HeldAlwaysTagged == Spec => []HeldIsTagged
<1>1. IInv => HeldIsTagged
  <2> SUFFICES ASSUME IInv, ~stopped
               PROVE  /\ {a.at - TAG : a \in held} = Tags \ FreeTags
                      /\ \A a \in held : /\ tag[a.at - TAG].size = a.size
                                         /\ a.size + TAG <= tag[a.at - TAG].real_size
    BY DEF HeldIsTagged
  <2>1. Good(Heap) /\ Holds(Heap, held) /\ Used(Heap) = Tags \ FreeTags
    BY FreeTagsAre DEF IInv
  <2>2. \A u \in Used(Heap) : u \in Nat /\ (u + TAG) - TAG = u
    BY <2>1, Ends, LiballocAssumption DEF Good, Used
  <2>3. \A u \in Used(Heap) : \E a \in held : a.at - TAG = u
    BY <2>1, <2>2 DEF Holds
  <2>4. {a.at - TAG : a \in held} = Used(Heap)
    BY <2>1, <2>3 DEF Holds
  <2>5. QED
    BY <2>1, <2>4, HeapFields DEF Holds
<1>2. QED
  BY <1>1, HeapInvariant, PTL

(* The walk through list i visits its tags once each and then stops.       *)
LEMMA WalkVisitsAll ==
  ASSUME NEW h, Sound(h), NEW i \in Classes,
         NEW S, \A t : t \in S <=> t \in DOMAIN h.tag /\ h.tag[t].index = i,
         NEW nth, nth = NthFree(h, i)
  PROVE  /\ \A k \in 0 .. Cardinality(S) - 1 : nth[k] \in S
         /\ \A t \in S : \E k \in 0 .. Cardinality(S) - 1 : nth[k] = t
         /\ nth[Cardinality(S)] = NULL
<1>1. PICK n : n = Cardinality(S)
  OBVIOUS
<1>2. IsFiniteSet(S) /\ n \in Nat /\ NULL \notin S
  <2>1. IsFiniteSet(DOMAIN h.tag) /\ S \in SUBSET (DOMAIN h.tag) /\ NULL \notin DOMAIN h.tag
    BY DEF Sound, Heaped, NULL
  <2>2. IsFiniteSet(S)
    BY <2>1, FS_Subset
  <2>3. QED
    BY <1>1, <2>1, <2>2, FS_CardinalityType
<1>3. /\ nth[0] = h.free[i]
      /\ \A k \in Nat : nth[k + 1] = IF nth[k] = NULL THEN NULL ELSE h.tag[nth[k]].next
      /\ \A k \in Nat : nth[k] # NULL => nth[k] \in S
  BY NthFreeIs
<1>4. ASSUME NEW k \in Nat, nth[k + 1] # NULL
      PROVE  /\ nth[k] # NULL /\ h.tag[nth[k]].next = nth[k + 1]
             /\ h.tag[nth[k + 1]].prev = nth[k]
  <2>1. nth[k] # NULL /\ h.tag[nth[k]].next = nth[k + 1]
    BY <1>3, <1>4
  <2>2. nth[k] \in DOMAIN h.tag
    BY <1>3, <2>1
  <2>3. QED
    BY <1>4, <2>1, <2>2 DEF Sound, Linked
<1>5. nth[0] # NULL => h.tag[nth[0]].prev = NULL
  BY <1>3 DEF Sound, Linked
<1> DEFINE P == {j \in Nat : \A k \in Nat : j < k /\ nth[k] # NULL => nth[j] # nth[k]}
<1>6. 0 \in P
  <2>1. ASSUME NEW k \in Nat, 0 < k, nth[k] # NULL, nth[0] = nth[k]
        PROVE  FALSE
    <3>1. k - 1 \in Nat /\ (k - 1) + 1 = k
      BY <2>1
    <3>2. nth[k - 1] # NULL /\ h.tag[nth[k]].prev = nth[k - 1]
      BY <1>4, <2>1, <3>1
    <3>3. QED
      BY <1>5, <2>1, <3>2
  <2>2. QED
    BY <2>1
<1>7. ASSUME NEW j \in Nat, j \in P
      PROVE  j + 1 \in P
  <2>1. ASSUME NEW k \in Nat, j + 1 < k, nth[k] # NULL, nth[j + 1] = nth[k]
        PROVE  FALSE
    <3>1. k - 1 \in Nat /\ (k - 1) + 1 = k /\ j < k - 1
      BY <2>1
    <3>2. nth[k - 1] # NULL /\ h.tag[nth[k]].prev = nth[k - 1]
      BY <1>4, <2>1, <3>1
    <3>3. h.tag[nth[j + 1]].prev = nth[j]
      BY <1>4, <2>1
    <3>4. nth[j] = nth[k - 1]
      BY <2>1, <3>2, <3>3
    <3>5. QED
      BY <1>7, <3>1, <3>2, <3>4
  <2>2. QED
    BY <2>1
<1>8. \A j, k \in Nat : j < k /\ nth[k] # NULL => nth[j] # nth[k]
  <2>1. Nat \subseteq P
    <3> HIDE DEF P
    <3> QED BY <1>6, <1>7, SetInduction
  <2>2. QED
    BY <2>1
<1>9. \E k \in 0 .. n : nth[k] = NULL
  <2> SUFFICES ASSUME \A k \in 0 .. n : nth[k] # NULL
               PROVE  FALSE
    OBVIOUS
  <2> DEFINE f == [k \in 0 .. n |-> nth[k]]
  <2>1. f \in [0 .. n -> S]
    BY <1>2, <1>3
  <2>2. IsFiniteSet(0 .. n) /\ Cardinality(0 .. n) = n + 1
    BY <1>2, FS_Interval
  <2>3. Cardinality(S) < Cardinality(0 .. n)
    BY <1>1, <1>2, <2>2
  <2>4. \E x, y \in 0 .. n : x # y /\ f[x] = f[y]
    <3> HIDE DEF f
    <3> QED BY <1>2, <2>1, <2>2, <2>3, FS_PigeonHole
  <2>5. PICK x \in 0 .. n, y \in 0 .. n : x # y /\ nth[x] = nth[y]
    BY <2>4
  <2>6. x \in Nat /\ y \in Nat /\ nth[x] # NULL /\ nth[y] # NULL /\ (x < y \/ y < x)
    BY <1>2, <2>5
  <2>7. QED
    BY <1>8, <2>5, <2>6
<1>10. PICK m \in Nat : m <= n /\ nth[m] = NULL /\ \A k \in Nat : nth[k] = NULL => m <= k
  <2> DEFINE Z == {k \in Nat : nth[k] = NULL}
  <2>1. PICK z \in 0 .. n : z \in Z
    BY <1>2, <1>9
  <2>2. PICK m \in Z : \A k \in Z : m <= k
    <3> HIDE DEF Z
    <3>1. Z \subseteq Nat
      BY DEF Z
    <3>2. QED
      BY <2>1, <3>1, LeastMember
  <2>3. m \in Nat /\ m <= z /\ z <= n
    BY <1>2, <2>1, <2>2
  <2>4. m <= n
    BY <1>2, <2>1, <2>3
  <2>5. QED
    BY <2>2, <2>3, <2>4
<1> DEFINE C == {nth[k] : k \in 0 .. m - 1}
<1>11. \A k \in 0 .. m - 1 : k \in Nat /\ nth[k] # NULL
  BY <1>10
<1>12. C \subseteq S
  BY <1>3, <1>11
<1>13. Closed(h, i, C)
  <2>1. h.free[i] # NULL => h.free[i] \in C
    <3>1. h.free[i] # NULL => m # 0
      BY <1>3, <1>10
    <3>2. m # 0 => 0 \in 0 .. m - 1
      OBVIOUS
    <3>3. QED
      BY <1>3, <3>1, <3>2
  <2>2. ASSUME NEW u \in C, h.tag[u].next # NULL
        PROVE  h.tag[u].next \in C
    <3>1. PICK k \in 0 .. m - 1 : u = nth[k]
      OBVIOUS
    <3>2. k \in Nat /\ nth[k] # NULL
      BY <1>11
    <3>3. nth[k + 1] = h.tag[u].next
      BY <1>3, <3>1, <3>2
    <3>4. k + 1 # m
      BY <1>10, <2>2, <3>3
    <3>5. k + 1 \in 0 .. m - 1
      BY <3>2, <3>4
    <3>6. QED
      BY <3>3, <3>5
  <2> HIDE DEF C
  <2>3. QED
    BY <1>12, <2>1, <2>2 DEF Closed
<1>14. C = S
  <2> HIDE DEF C
  <2> QED BY <1>12, <1>13 DEF Sound, Reached
<1>15. n <= m
  <2> DEFINE f == [k \in 0 .. m - 1 |-> nth[k]]
  <2>1. f \in Surjection(0 .. m - 1, S)
    <3>1. f \in [0 .. m - 1 -> S]
      BY <1>3, <1>11
    <3>2. \A t \in S : \E k \in 0 .. m - 1 : f[k] = t
      BY <1>14
    <3> HIDE DEF f
    <3>3. QED
      BY <3>1, <3>2 DEF Surjection
  <2>2. IsFiniteSet(0 .. m - 1) /\ Cardinality(0 .. m - 1) = m
    BY <1>10, FS_Interval
  <2>3. QED
    <3> HIDE DEF f
    <3> QED BY <1>1, <2>1, <2>2, FS_Surjection
<1>16. n = m
  BY <1>2, <1>10, <1>15
<1>17. QED
  BY <1>1, <1>10, <1>14, <1>16

(* Each free list holds exactly the free tags of its class, each once,     *)
(* with mutual links, and ends: no free tag is lost to the search of       *)
(* kernel_malloc and none in use is found by it (liballoc.c:143-178,       *)
(* 310-326).                                                               *)
THEOREM ListsAlwaysExact == Spec => []ListsExact
<1>1. IInv => ListsExact
  <2> SUFFICES ASSUME Good(Heap), NEW i \in Classes
               PROVE  LET nth == NthFree(Heap, i)
                          n   == Cardinality({t \in Tags : tag[t].index = i})
                      IN  /\ {nth[k] : k \in 0 .. n - 1} = {t \in Tags : tag[t].index = i}
                          /\ nth[n] = NULL
                          /\ \A t \in Tags : tag[t].index = i =>
                               /\ i = Class(tag[t].real_size - TAG)
                               /\ tag[t].prev = (IF l_freePages[i] = t THEN NULL
                                                 ELSE CHOOSE u \in Tags : tag[u].next = t)
    BY DEF IInv, ListsExact
  <2> DEFINE S == {t \in Tags : tag[t].index = i}
             nth == NthFree(Heap, i)
  <2>3. {nth[k] : k \in 0 .. Cardinality(S) - 1} = S /\ nth[Cardinality(S)] = NULL
    <3>1. \A t : t \in S <=> t \in DOMAIN Heap.tag /\ Heap.tag[t].index = i
      BY HeapFields DEF Tags
    <3>2. PICK h : h = Heap
      OBVIOUS
    <3>3. Sound(h) /\ nth = NthFree(h, i)
      BY <3>2 DEF Good
    <3> HIDE DEF S, nth
    <3>4. \A t : t \in S <=> t \in DOMAIN h.tag /\ h.tag[t].index = i
      BY <3>1, <3>2
    <3>5. /\ \A k \in 0 .. Cardinality(S) - 1 : nth[k] \in S
          /\ \A t \in S : \E k \in 0 .. Cardinality(S) - 1 : nth[k] = t
          /\ nth[Cardinality(S)] = NULL
      BY <3>3, <3>4, WalkVisitsAll
    <3>6. QED
      BY <3>5
  <2>4. ASSUME NEW t \in Tags, tag[t].index = i
        PROVE  /\ i = Class(tag[t].real_size - TAG)
               /\ tag[t].prev = (IF l_freePages[i] = t THEN NULL
                                 ELSE CHOOSE u \in Tags : tag[u].next = t)
    <3>1. i # -1 /\ NULL \notin Tags
      BY HeapFields DEF Classes, Good, Sound, Heaped, Tags, NULL
    <3>2. i = Class(tag[t].real_size - TAG)
      BY <2>4, <3>1, HeapFields DEF Good, Classed, Tags
    <3>3. CASE l_freePages[i] = t
      <4>1. tag[t].prev = NULL
        BY <3>1, <3>3, HeapFields DEF Good, Sound, Linked, Tags
      <4>2. QED
        BY <3>2, <3>3, <4>1
    <3>4. CASE l_freePages[i] # t
      <4>1. /\ tag[t].prev # NULL /\ tag[t].prev \in Tags
            /\ tag[tag[t].prev].next = t
        BY <2>4, <3>1, <3>4, HeapFields DEF Good, Sound, Linked, Tags
      <4>2. ASSUME NEW u \in Tags, tag[u].next = t
            PROVE  u = tag[t].prev
        BY <3>1, <4>2, HeapFields DEF Good, Sound, Linked, Tags
      <4>3. (CHOOSE u \in Tags : tag[u].next = t) = tag[t].prev
        BY <4>1, <4>2
      <4>4. QED
        BY <3>2, <3>4, <4>3
    <3>5. QED
      BY <3>3, <3>4
  <2>5. QED
    BY <2>3, <2>4
<1>2. QED
  BY <1>1, HeapInvariant, PTL
=============================================================================

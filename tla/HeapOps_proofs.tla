--------------------------- MODULE HeapOps_proofs ---------------------------
(***************************************************************************)
(* What the calls of HeapOps do to a heap of any size, also to one that a  *)
(* second Erase of the same node has upset, and what one iteration of      *)
(* their loops is.                                                         *)
(***************************************************************************)
EXTENDS HeapOps, SequenceTheorems, WellFoundedInduction, TLAPS

(* A set of natural numbers with a member has a least one. *)
LEMMA LeastNatural ==
    ASSUME NEW T, T \subseteq Nat, T # {}
    PROVE  \E x \in T : \A y \in T : x <= y
<1> DEFINE Less == {pair \in Nat \X Nat : pair[1] < pair[2]}
<1>1. IsWellFoundedOn(Less, Nat)
    BY NatLessThanWellFounded DEF OpToRel
<1>2. \A x, y \in Nat : y < x => <<y, x>> \in Less
    OBVIOUS
<1> HIDE DEF Less
<1>3. PICK x \in T : \A y \in T : ~ (<<y, x>> \in Less)
    BY <1>1, WFMin, Zenon
<1>4. \A y \in T : y \in Nat /\ x \in Nat /\ ~ (y < x)
    BY <1>2, <1>3
<1> QED
    BY <1>4

----------------------------------------------------------------------------
(* A heap with the slots 1 .. N, as far as types go: slots hold nodes and  *)
(* nodes hold slots.                                                       *)
HeapRecord(H, N) ==
    H \in [items : [0 .. N -> 0 .. N], num : 0 .. N, size : Int,
           index : [0 .. N -> 0 .. N], val : [0 .. N -> Int]]

HeapType(H, N) == HeapRecord(H, N) /\ \A i \in 1 .. N : H.items[i] # 0

NoRepeat(path) == \A i, j \in 1 .. Len(path) : path[i] = path[j] => i = j

LiveIn(H) == {H.items[i] : i \in 1 .. H.num}

(* A sound heap: a live node knows its slot, and no free slot holds the    *)
(* node of another.                                                        *)
Indexed(H) == \A i \in 1 .. H.num : H.index[H.items[i]] = i
Apart(H, N) == \A i, j \in 1 .. N : i # j /\ j > H.num => H.items[i] # H.items[j]
Sound(H, N) == Indexed(H) /\ Apart(H, N)

(* A node that has been in the heap keeps a slot number. *)
KeepsSlots(H, G, N) == \A n \in 0 .. N : H.index[n] # 0 => G.index[n] # 0

LEMMA HeapFields ==
    ASSUME NEW N \in Nat, NEW H, HeapType(H, N)
    PROVE  /\ H.num \in 0 .. N
           /\ \A i \in 1 .. N : H.items[i] \in 1 .. N
           /\ \A i \in 0 .. N : H.items[i] \in 0 .. N /\ H.index[i] \in 0 .. N /\ H.val[i] \in Int
           /\ \A i \in 1 .. H.num : i \in 1 .. N /\ i \in 0 .. N
<1>1. /\ H.num \in 0 .. N
      /\ H.items \in [0 .. N -> 0 .. N] /\ H.index \in [0 .. N -> 0 .. N]
      /\ H.val \in [0 .. N -> Int]
    BY DEF HeapType, HeapRecord
<1>2. \A i \in 1 .. N : i \in 0 .. N /\ H.items[i] # 0
    BY DEF HeapType, HeapRecord
<1>3. ASSUME NEW i \in 0 .. N
      PROVE  H.items[i] \in 0 .. N /\ H.index[i] \in 0 .. N /\ H.val[i] \in Int
    BY <1>1
<1>4. \A i \in 1 .. N : H.items[i] \in 1 .. N
  <2> SUFFICES ASSUME NEW i \in 1 .. N PROVE H.items[i] \in 1 .. N
      OBVIOUS
  <2>1. H.items[i] \in 0 .. N /\ H.items[i] # 0
      BY <1>2, <1>3
  <2> QED
      BY <2>1
<1>5. \A i \in 1 .. H.num : i \in 1 .. N /\ i \in 0 .. N
    BY <1>1
<1> QED
    BY <1>1, <1>3, <1>4, <1>5

LEMMA PutFacts ==
    ASSUME NEW N \in Nat, NEW H, HeapType(H, N), NEW at \in 1 .. N, NEW n \in 1 .. N
    PROVE  /\ HeapType(PutNode(H, at, n), N)
           /\ PutNode(H, at, n).num = H.num /\ PutNode(H, at, n).val = H.val
           /\ PutNode(H, at, n).items[at] = n
           /\ \A i \in 0 .. N : i # at => PutNode(H, at, n).items[i] = H.items[i]
           /\ PutNode(H, at, n).index[n] = at
           /\ \A x \in 0 .. N : x # n => PutNode(H, at, n).index[x] = H.index[x]
<1> DEFINE G == PutNode(H, at, n)
<1>1. at \in 0 .. N /\ n \in 0 .. N /\ n # 0
    OBVIOUS
<1>2. H \in [items : [0 .. N -> 0 .. N], num : 0 .. N, size : Int,
              index : [0 .. N -> 0 .. N], val : [0 .. N -> Int]]
    BY DEF HeapType, HeapRecord
<1>3. G \in [items : [0 .. N -> 0 .. N], num : 0 .. N, size : Int,
              index : [0 .. N -> 0 .. N], val : [0 .. N -> Int]]
    BY <1>1, <1>2 DEF PutNode
<1>4. /\ G.num = H.num /\ G.val = H.val
      /\ G.items = [H.items EXCEPT ![at] = n] /\ G.index = [H.index EXCEPT ![n] = at]
    BY <1>2 DEF PutNode
<1>5. H.items \in [0 .. N -> 0 .. N] /\ H.index \in [0 .. N -> 0 .. N]
    BY <1>2
<1> HIDE DEF G
<1>6. G.items[at] = n /\ \A i \in 0 .. N : i # at => G.items[i] = H.items[i]
    BY <1>1, <1>4, <1>5
<1>7. G.index[n] = at /\ \A x \in 0 .. N : x # n => G.index[x] = H.index[x]
    BY <1>1, <1>4, <1>5
<1>8. \A i \in 1 .. N : G.items[i] # 0
  <2>1. \A i \in 1 .. N : i \in 0 .. N /\ H.items[i] # 0
      BY DEF HeapType, HeapRecord
  <2> QED
      BY <1>1, <1>6, <2>1
<1> QED
    BY <1>3, <1>4, <1>6, <1>7, <1>8 DEF G, HeapType, HeapRecord

(* The function that ShiftAlong applies, and that it is one. *)
Shifted(H, path, moved, l) ==
    moved = [k \in 1 .. l |->
                IF k = 1 THEN H ELSE PutNode(moved[k - 1], path[k - 1], H.items[path[k]])]

LEMMA ShiftedExists ==
    ASSUME NEW H, NEW path, NEW last \in Nat
    PROVE  \E moved : Shifted(H, path, moved, last)
<1> DEFINE Bad == {l \in Nat : ~ \E moved : Shifted(H, path, moved, l)}
<1>1. SUFFICES ASSUME Bad # {} PROVE FALSE
    OBVIOUS
<1>2. PICK l \in Bad : \A k \in Bad : l <= k
    BY <1>1, LeastNatural
<1>3. CASE l = 0
  <2>1. [k \in 1 .. 0 |-> H] =
            [k \in 1 .. 0 |-> IF k = 1 THEN H
                              ELSE PutNode([j \in 1 .. 0 |-> H][k - 1], path[k - 1], H.items[path[k]])]
      OBVIOUS
  <2>2. Shifted(H, path, [k \in 1 .. 0 |-> H], 0)
      BY <2>1, Zenon DEF Shifted
  <2> QED
      BY <1>2, <1>3, <2>2
<1>4. CASE l # 0
  <2>1. l \in Nat /\ l - 1 \in Nat /\ l - 1 \notin Bad
      BY <1>2, <1>4
  <2>2. PICK f : Shifted(H, path, f, l - 1)
      BY <2>1
  <2> DEFINE g == [k \in 1 .. l |-> IF k = 1 THEN H
                                    ELSE PutNode(f[k - 1], path[k - 1], H.items[path[k]])]
  <2>3. \A k \in 1 .. l - 1 : g[k] = f[k]
    <3>1. \A k \in 1 .. l - 1 :
             f[k] = IF k = 1 THEN H ELSE PutNode(f[k - 1], path[k - 1], H.items[path[k]])
        BY <2>2, Zenon DEF Shifted
    <3>2. \A k \in 1 .. l - 1 : k \in 1 .. l
        BY <2>1
    <3> QED
        BY <3>1, <3>2, Zenon
  <2>4. \A k \in 1 .. l : k # 1 => g[k - 1] = f[k - 1]
    <3>1. \A k \in 1 .. l : k # 1 => k - 1 \in 1 .. l - 1
        BY <2>1
    <3> HIDE DEF g
    <3> QED
        BY <2>3, <3>1
  <2>5. Shifted(H, path, g, l)
      BY <2>4 DEF Shifted
  <2> QED
      BY <1>2, <2>5
<1> QED
    BY <1>3, <1>4

LEMMA ShiftAlongIs ==
    ASSUME NEW H, NEW path, Len(path) \in Nat, NEW n
    PROVE  \E moved : /\ Shifted(H, path, moved, Len(path))
                      /\ ShiftAlong(H, path, n) = PutNode(moved[Len(path)], path[Len(path)], n)
<1> DEFINE moved == CHOOSE f : Shifted(H, path, f, Len(path))
<1>1. Shifted(H, path, moved, Len(path))
    BY ShiftedExists
<1>2. ShiftAlong(H, path, n) = PutNode(moved[Len(path)], path[Len(path)], n)
    BY DEF ShiftAlong, Shifted
<1> QED
    BY <1>1, <1>2

(* While a path is walked one slot is a hole: what is there is moved or    *)
(* overwritten next.                                                       *)
Others(G, hole) == {G.items[i] : i \in (1 .. G.num) \ {hole}}

SoundBut(G, hole, n) ==
    \A i \in (1 .. G.num) \ {hole} : G.index[G.items[i]] = i /\ G.items[i] # n

(* One node moves into the hole, and its own slot becomes the hole. *)
LEMMA HoleMoves ==
    ASSUME NEW N \in Nat, NEW G, HeapType(G, N),
           NEW hole \in 1 .. G.num, NEW from \in 1 .. G.num, hole # from, NEW n
    PROVE  /\ Others(PutNode(G, hole, G.items[from]), from) = Others(G, hole)
           /\ SoundBut(G, hole, n) => SoundBut(PutNode(G, hole, G.items[from]), from, n)
<1> DEFINE x == G.items[from]
           F == PutNode(G, hole, x)
<1>1. G.num \in 0 .. N /\ hole \in 1 .. N /\ from \in 1 .. N
    BY HeapFields
<1>2. x \in 1 .. N /\ \A i \in 1 .. G.num : G.items[i] \in 0 .. N /\ i \in 0 .. N
    BY <1>1, HeapFields
<1> HIDE DEF x
<1>3. /\ F.num = G.num
      /\ F.items[hole] = x
      /\ \A i \in 0 .. N : i # hole => F.items[i] = G.items[i]
      /\ F.index[x] = hole
      /\ \A y \in 0 .. N : y # x => F.index[y] = G.index[y]
  <2>1. HeapType(G, N) /\ hole \in 1 .. N /\ x \in 1 .. N
      BY <1>1, <1>2
  <2> QED
      BY ONLY <2>1, N \in Nat, PutFacts DEF F
<1> HIDE DEF F
<1>4. Others(F, from) = Others(G, hole)
  <2>1. ASSUME NEW y \in Others(F, from)
        PROVE  y \in Others(G, hole)
    <3>1. PICK i \in (1 .. G.num) \ {from} : y = F.items[i]
        BY <1>3 DEF Others
    <3>2. CASE i = hole
        BY <1>3, <3>1, <3>2 DEF Others, x
    <3>3. CASE i # hole
        BY <1>2, <1>3, <3>1, <3>3 DEF Others
    <3> QED
        BY <3>2, <3>3
  <2>2. ASSUME NEW y \in Others(G, hole)
        PROVE  y \in Others(F, from)
    <3>1. PICK i \in (1 .. G.num) \ {hole} : y = G.items[i]
        BY DEF Others
    <3>2. CASE i = from
        BY <1>3, <3>1, <3>2 DEF Others, x
    <3>3. CASE i # from
        BY <1>2, <1>3, <3>1, <3>3 DEF Others
    <3> QED
        BY <3>2, <3>3
  <2> QED
      BY <2>1, <2>2
<1>5. ASSUME SoundBut(G, hole, n)
      PROVE  SoundBut(F, from, n)
  <2> SUFFICES ASSUME NEW i \in (1 .. G.num) \ {from}
               PROVE  F.index[F.items[i]] = i /\ F.items[i] # n
      BY <1>3 DEF SoundBut
  <2>1. G.index[x] = from /\ x # n
      BY <1>5 DEF SoundBut, x
  <2>2. CASE i = hole
      BY <1>3, <2>1, <2>2
  <2>3. CASE i # hole
    <3>1. F.items[i] = G.items[i]
        BY <1>2, <1>3, <2>3
    <3>2. G.index[G.items[i]] = i /\ G.items[i] # n
        BY <1>5, <2>3 DEF SoundBut
    <3>3. G.items[i] # x
        BY <2>1, <3>2
    <3> QED
        BY <1>2, <1>3, <3>1, <3>2, <3>3
  <2> QED
      BY <2>2, <2>3
<1> QED
    BY <1>4, <1>5 DEF F, x

(* What ShiftAlong has done before its k-th slot. *)
Walked(H, G, path, k, n, N) ==
    /\ HeapType(G, N)
    /\ G.num = H.num /\ G.val = H.val
    /\ \A i \in 1 .. N : (\A j \in 1 .. k - 1 : i # path[j]) => G.items[i] = H.items[i]
    /\ Others(G, path[k]) = Others(H, path[1])
    /\ SoundBut(H, path[1], n) => SoundBut(G, path[k], n)
    /\ KeepsSlots(H, G, N)

IsPath(H, path) ==
    /\ Len(path) \in Nat /\ Len(path) >= 1
    /\ \A k \in 1 .. Len(path) : path[k] \in 1 .. H.num
    /\ NoRepeat(path)

LEMMA WalkStep ==
    ASSUME NEW N \in Nat, NEW H, HeapType(H, N), NEW path, IsPath(H, path), NEW n,
           NEW k \in 1 .. Len(path), k # 1,
           NEW G, Walked(H, G, path, k - 1, n, N)
    PROVE  Walked(H, PutNode(G, path[k - 1], H.items[path[k]]), path, k, n, N)
<1> DEFINE x == H.items[path[k]]
           F == PutNode(G, path[k - 1], x)
<1>1. Len(path) \in Nat /\ k \in Nat /\ k - 1 \in 1 .. Len(path) /\ H.num \in 0 .. N
  <2>1. Len(path) \in Nat
      BY DEF IsPath
  <2>2. H.num \in 0 .. N
      BY HeapFields
  <2> QED
      BY <2>1, <2>2
<1>2. path[k] \in 1 .. H.num /\ path[k - 1] \in 1 .. H.num /\ path[k - 1] # path[k]
  <2>1. k - 1 # k
      BY <1>1
  <2> QED
      BY <1>1, <2>1 DEF IsPath, NoRepeat
<1>3. path[k] \in 1 .. N /\ path[k - 1] \in 1 .. N
    BY <1>1, <1>2
<1>4. \A j \in 1 .. k - 1 - 1 : path[k] # path[j]
  <2>1. \A j \in 1 .. k - 1 - 1 : j \in 1 .. Len(path) /\ j # k
      BY <1>1
  <2> QED
      BY <2>1 DEF IsPath, NoRepeat
<1>5. G.items[path[k]] = x
    BY <1>3, <1>4 DEF Walked
<1>6. x \in 1 .. N
    BY <1>3, HeapFields
<1>7. HeapType(G, N) /\ G.num = H.num /\ G.val = H.val
    BY DEF Walked
<1> HIDE DEF x
<1>8. /\ HeapType(F, N) /\ F.num = H.num /\ F.val = H.val
      /\ \A i \in 0 .. N : i # path[k - 1] => F.items[i] = G.items[i]
      /\ F.index[x] = path[k - 1]
      /\ \A y \in 0 .. N : y # x => F.index[y] = G.index[y]
  <2> DEFINE hole == path[k - 1]
  <2>1. HeapType(G, N) /\ hole \in 1 .. N /\ x \in 1 .. N
      BY <1>3, <1>6, <1>7
  <2> HIDE DEF hole
  <2>2. /\ HeapType(F, N) /\ F.num = G.num /\ F.val = G.val
        /\ \A i \in 0 .. N : i # hole => F.items[i] = G.items[i]
        /\ F.index[x] = hole
        /\ \A y \in 0 .. N : y # x => F.index[y] = G.index[y]
    <3>1. F = PutNode(G, hole, x)
        BY DEF hole
    <3> HIDE DEF F
    <3> QED
        BY ONLY <2>1, <3>1, N \in Nat, PutFacts
  <2> QED
      BY <1>7, <2>2 DEF hole
<1>9. /\ Others(F, path[k]) = Others(G, path[k - 1])
      /\ SoundBut(G, path[k - 1], n) => SoundBut(F, path[k], n)
  <2> DEFINE hole == path[k - 1]
             from == path[k]
  <2>1. hole \in 1 .. G.num /\ from \in 1 .. G.num /\ hole # from
      BY <1>2, <1>7
  <2>2. F = PutNode(G, hole, G.items[from])
      BY <1>5
  <2> HIDE DEF hole, from, F
  <2>3. /\ Others(F, from) = Others(G, hole)
        /\ SoundBut(G, hole, n) => SoundBut(F, from, n)
      BY <1>7, <2>1, <2>2, HoleMoves
  <2> QED
      BY <2>3 DEF hole, from
<1> HIDE DEF F
<1>10. ASSUME NEW i \in 1 .. N, \A j \in 1 .. k - 1 : i # path[j]
       PROVE  F.items[i] = H.items[i]
  <2>1. i # path[k - 1] /\ \A j \in 1 .. k - 1 - 1 : i # path[j]
      BY <1>1, <1>10
  <2>2. G.items[i] = H.items[i]
      BY <2>1 DEF Walked
  <2> QED
      BY <1>8, <2>1, <2>2
<1>11. KeepsSlots(H, F, N)
  <2>1. KeepsSlots(H, G, N)
      BY DEF Walked
  <2>2. path[k - 1] # 0
      BY <1>3
  <2> QED
      BY <1>8, <2>1, <2>2 DEF KeepsSlots
<1>12. Walked(H, F, path, k, n, N)
  <2>1. /\ Others(G, path[k - 1]) = Others(H, path[1])
        /\ SoundBut(H, path[1], n) => SoundBut(G, path[k - 1], n)
      BY DEF Walked
  <2> QED
      BY <1>8, <1>9, <1>10, <1>11, <2>1 DEF Walked
<1> QED
    BY <1>12 DEF F, x

LEMMA ShiftAlongFacts ==
    ASSUME NEW N \in Nat, NEW H, HeapType(H, N), NEW path, IsPath(H, path), NEW n \in 1 .. N
    PROVE  LET R == ShiftAlong(H, path, n)
           IN /\ HeapType(R, N)
              /\ R.num = H.num /\ R.val = H.val
              /\ \A i \in 1 .. N : i > H.num => R.items[i] = H.items[i]
              /\ LiveIn(R) = Others(H, path[1]) \cup {n}
              /\ SoundBut(H, path[1], n) =>
                    \A i \in 1 .. H.num : R.index[R.items[i]] = i
              /\ KeepsSlots(H, R, N) /\ R.index[n] # 0
<1> DEFINE last == Len(path)
<1>1. last \in Nat /\ last >= 1 /\ \A k \in 1 .. last : path[k] \in 1 .. H.num
    BY DEF IsPath
<1>2. PICK moved : /\ Shifted(H, path, moved, last)
                   /\ ShiftAlong(H, path, n) = PutNode(moved[last], path[last], n)
    BY <1>1, ShiftAlongIs
<1>3. \A k \in 1 .. last : Walked(H, moved[k], path, k, n, N)
  <2> DEFINE Bad == {k \in 1 .. last : ~ Walked(H, moved[k], path, k, n, N)}
  <2>1. SUFFICES ASSUME Bad # {} PROVE FALSE
      OBVIOUS
  <2>2. Bad \subseteq Nat
      BY <1>1
  <2>3. PICK k \in Bad : \A l \in Bad : k <= l
      BY <2>1, <2>2, LeastNatural
  <2>4. k \in 1 .. last /\ ~ Walked(H, moved[k], path, k, n, N)
      BY <2>3
  <2>5. CASE k = 1
    <3>1. moved[1] = H
        BY <1>1, <1>2 DEF Shifted
    <3>2. Walked(H, H, path, 1, n, N)
        BY DEF Walked, KeepsSlots
    <3> QED
        BY <2>4, <2>5, <3>1, <3>2
  <2>6. CASE k # 1
    <3>1. k - 1 \in 1 .. last /\ k - 1 \notin Bad
        BY <1>1, <2>3, <2>4, <2>6
    <3>2. Walked(H, moved[k - 1], path, k - 1, n, N)
        BY <3>1
    <3>3. moved[k] = PutNode(moved[k - 1], path[k - 1], H.items[path[k]])
        BY <1>2, <2>4, <2>6 DEF Shifted
    <3> HIDE DEF last, Bad
    <3>4. Walked(H, moved[k], path, k, n, N)
        BY <2>4, <2>6, <3>2, <3>3, WalkStep DEF last
    <3> QED
        BY <2>4, <3>4
  <2> QED
      BY <2>5, <2>6
<1> DEFINE G == moved[last]
           hole == path[last]
           R == PutNode(G, hole, n)
<1>4. Walked(H, G, path, last, n, N) /\ hole \in 1 .. H.num
    BY <1>1, <1>3
<1>5. HeapType(G, N) /\ G.num = H.num /\ G.val = H.val /\ H.num \in 0 .. N
    BY <1>4 DEF Walked, HeapType, HeapRecord
<1>6. hole \in 1 .. N
    BY <1>4, <1>5
<1> HIDE DEF hole, G
<1>7. /\ HeapType(R, N) /\ R.num = H.num /\ R.val = H.val
      /\ R.items[hole] = n
      /\ \A i \in 0 .. N : i # hole => R.items[i] = G.items[i]
      /\ R.index[n] = hole
      /\ \A y \in 0 .. N : y # n => R.index[y] = G.index[y]
    BY <1>5, <1>6, PutFacts
<1> HIDE DEF R
<1>8. \A i \in 1 .. N : i > H.num => R.items[i] = H.items[i]
  <2> SUFFICES ASSUME NEW i \in 1 .. N, i > H.num
               PROVE  R.items[i] = H.items[i]
      OBVIOUS
  <2>1. i # hole /\ \A j \in 1 .. last - 1 : i # path[j]
      BY <1>1, <1>4, <1>5
  <2> QED
      BY <1>4, <1>7, <2>1 DEF Walked
<1>9. \A i \in 1 .. H.num : i \in 0 .. N
    BY <1>5
<1>10. LiveIn(R) = Others(H, path[1]) \cup {n}
  <2>1. LiveIn(R) = Others(G, hole) \cup {n}
      BY <1>4, <1>5, <1>7, <1>9 DEF LiveIn, Others
  <2> QED
      BY <1>4, <2>1 DEF Walked, G, hole
<1>11. ASSUME SoundBut(H, path[1], n)
       PROVE  \A i \in 1 .. H.num : R.index[R.items[i]] = i
  <2>1. SoundBut(G, hole, n)
      BY <1>4, <1>11 DEF Walked, G, hole
  <2> SUFFICES ASSUME NEW i \in 1 .. H.num
               PROVE  R.index[R.items[i]] = i
      OBVIOUS
  <2>2. CASE i = hole
      BY <1>7, <2>2
  <2>3. CASE i # hole
    <3>1. G.index[G.items[i]] = i /\ G.items[i] # n
        BY <1>5, <2>1, <2>3 DEF SoundBut
    <3>2. G.items[i] \in 0 .. N
        BY <1>5, <1>9, HeapFields
    <3> QED
        BY <1>7, <1>9, <2>3, <3>1, <3>2
  <2> QED
      BY <2>2, <2>3
<1>12. KeepsSlots(H, R, N) /\ R.index[n] # 0
  <2>1. hole # 0
      BY <1>6
  <2> QED
      BY <1>4, <1>7, <2>1 DEF Walked, KeepsSlots
<1> QED
    BY <1>2, <1>7, <1>8, <1>10, <1>11, <1>12 DEF R, G, hole

----------------------------------------------------------------------------
(* The paths.  A chain is a function that puts each slot in front of the   *)
(* chain of the slot that comes after it, if one does.                     *)
Chain(S, go, next, f) ==
    f = [j \in S |-> <<j>> \o IF go[j] THEN f[next[j]] ELSE <<>>]

(* Each slot is followed by one of lower rank. *)
Descends(S, go, next, rank) ==
    /\ rank \in [S -> Nat]
    /\ \A j \in S : go[j] => next[j] \in S /\ rank[next[j]] < rank[j]

LEMMA ChainExists ==
    ASSUME NEW S, NEW go, NEW next, NEW rank, Descends(S, go, next, rank),
           NEW top \in Nat, \A j \in S : rank[j] < top
    PROVE  \E f : Chain(S, go, next, f)
<1> DEFINE Below(r) == {j \in S : rank[j] < r}
           Bad == {r \in Nat : ~ \E f : Chain(Below(r), go, next, f)}
<1>1. CASE Bad # {}
  <2>1. PICK r \in Bad : \A q \in Bad : r <= q
      BY <1>1, LeastNatural
  <2>2. CASE r = 0
    <3>1. Below(0) = {}
        BY DEF Descends
    <3>2. [j \in {} |-> 0] = [j \in {} |-> <<j>> \o IF go[j] THEN [i \in {} |-> 0][next[j]] ELSE <<>>]
        OBVIOUS
    <3>3. Chain({}, go, next, [j \in {} |-> 0])
        BY <3>2, Zenon DEF Chain
    <3> QED
        BY <2>1, <2>2, <3>1, <3>3
  <2>3. CASE r # 0
    <3>1. r \in Nat /\ r - 1 \in Nat /\ r - 1 \notin Bad
      <4>1. r \in Nat
          BY <2>1
      <4> HIDE DEF Bad
      <4>2. r - 1 \in Nat /\ ~ (r <= r - 1)
          BY <2>3, <4>1
      <4> QED
          BY <2>1, <4>1, <4>2
    <3>2. PICK f : Chain(Below(r - 1), go, next, f)
        BY <3>1
    <3> DEFINE g == [j \in Below(r) |-> <<j>> \o IF go[j] THEN f[next[j]] ELSE <<>>]
    <3>3. \A j \in Below(r) : go[j] => next[j] \in Below(r - 1) /\ next[j] \in Below(r)
        BY <3>1 DEF Descends
    <3>4. \A j \in Below(r - 1) : j \in Below(r)
        BY <3>1 DEF Descends
    <3> HIDE DEF Below
    <3>5. \A j \in Below(r - 1) : g[j] = f[j]
        BY <3>2, <3>4, Zenon DEF Chain
    <3>6. \A j \in Below(r) : go[j] => g[next[j]] = f[next[j]]
        BY <3>3, <3>5
    <3>7. \A j \in Below(r) : g[j] = <<j>> \o IF go[j] THEN g[next[j]] ELSE <<>>
        BY <3>6, Zenon
    <3>8. Chain(Below(r), go, next, g)
        BY <3>7, Zenon DEF Chain
    <3> QED
        BY <2>1, <3>8
  <2> QED
      BY <2>2, <2>3
<1>2. CASE Bad = {}
  <2>1. \E f : Chain(Below(top), go, next, f)
      BY <1>2
  <2>2. Below(top) = S
      OBVIOUS
  <2> QED
      BY <2>1, <2>2
<1> QED
    BY <1>1, <1>2

(* A new first element. *)
Cons(j, q) == <<j>> \o q

LEMMA ConsOnce ==
    ASSUME NEW S, NEW j \in S, NEW q \in Seq(S), NoRepeat(q), \A k \in 1 .. Len(q) : q[k] # j
    PROVE  /\ Cons(j, q) \in Seq(S) /\ Cons(j, q) # <<>> /\ Cons(j, q)[1] = j
           /\ NoRepeat(Cons(j, q))
           /\ \A k \in 1 .. Len(Cons(j, q)) :
                 Cons(j, q)[k] = j \/ \E l \in 1 .. Len(q) : Cons(j, q)[k] = q[l]
<1> DEFINE p == <<j>> \o q
<1>1. Len(q) \in Nat /\ p \in Seq(S) /\ Len(p) = Len(q) + 1
    OBVIOUS
<1>2. p[1] = j /\ \A k \in 1 .. Len(p) : k # 1 => k - 1 \in 1 .. Len(q) /\ p[k] = q[k - 1]
    OBVIOUS
<1>3. p # <<>>
    BY <1>1
<1> HIDE DEF p
<1>4. NoRepeat(p)
  <2> SUFFICES ASSUME NEW a \in 1 .. Len(p), NEW b \in 1 .. Len(p), p[a] = p[b]
               PROVE  a = b
      BY DEF NoRepeat
  <2>1. CASE a = 1 \/ b = 1
      BY <1>2, <2>1
  <2>2. CASE a # 1 /\ b # 1
    <3>1. a - 1 \in 1 .. Len(q) /\ b - 1 \in 1 .. Len(q) /\ q[a - 1] = q[b - 1]
        BY <1>2, <2>2
    <3>2. a - 1 = b - 1
        BY <3>1 DEF NoRepeat
    <3> QED
        BY <1>1, <3>2
  <2> QED
      BY <2>1, <2>2
<1>5. \A k \in 1 .. Len(p) : p[k] = j \/ \E l \in 1 .. Len(q) : p[k] = q[l]
    BY <1>2
<1> QED
    BY <1>1, <1>2, <1>3, <1>4, <1>5 DEF p, Cons

LEMMA ConsAlone ==
    ASSUME NEW S, NEW j \in S
    PROVE  /\ Cons(j, <<>>) \in Seq(S) /\ Cons(j, <<>>) # <<>> /\ Cons(j, <<>>)[1] = j
           /\ NoRepeat(Cons(j, <<>>))
           /\ \A k \in 1 .. Len(Cons(j, <<>>)) : Cons(j, <<>>)[k] = j
<1>1. Cons(j, <<>>) = <<j>>
    BY DEF Cons
<1> DEFINE p == Cons(j, <<>>)
<1>2. p \in Seq(S) /\ Len(p) = 1 /\ p[1] = j
  <2>1. <<j>> \in Seq(S) /\ Len(<<j>>) = 1 /\ <<j>>[1] = j
      OBVIOUS
  <2>2. p = <<j>>
      BY <1>1
  <2> HIDE DEF p
  <2> QED
      BY ONLY <2>1, <2>2, Zenon
<1> HIDE DEF p
<1>3. p # <<>>
    BY <1>2
<1>4. \A k \in 1 .. Len(p) : k = 1
    BY <1>2
<1> QED
    BY <1>2, <1>3, <1>4 DEF NoRepeat, p

(* A chain that descends passes no slot twice. *)
LEMMA ChainIsPath ==
    ASSUME NEW S, NEW go, NEW next, NEW rank, Descends(S, go, next, rank),
           NEW f, Chain(S, go, next, f)
    PROVE  \A j \in S : /\ f[j] \in Seq(S) /\ f[j] # <<>> /\ f[j][1] = j
                        /\ NoRepeat(f[j])
<1> DEFINE Good(j) == /\ f[j] \in Seq(S) /\ f[j] # <<>> /\ f[j][1] = j
                      /\ NoRepeat(f[j])
                      /\ \A k \in 1 .. Len(f[j]) : rank[f[j][k]] <= rank[j]
           Bad == {r \in Nat : \E j \in S : rank[j] = r /\ ~ Good(j)}
<1>1. CASE Bad # {}
  <2>1. PICK r \in Bad : \A q \in Bad : r <= q
      BY <1>1, LeastNatural
  <2>2. PICK j \in S : rank[j] = r /\ ~ Good(j)
      BY <2>1
  <2>3. f[j] = <<j>> \o IF go[j] THEN f[next[j]] ELSE <<>>
      BY Zenon DEF Chain
  <2>4. rank[j] \in Nat
      BY DEF Descends
  <2>5. CASE go[j]
    <3> DEFINE q == f[next[j]]
    <3>1. next[j] \in S /\ rank[next[j]] \in Nat /\ rank[next[j]] < rank[j]
        BY <2>5 DEF Descends
    <3>2. rank[next[j]] \notin Bad
        BY <2>1, <2>2, <2>4, <3>1
    <3>3. Good(next[j])
        BY <3>1, <3>2
    <3>4. q \in Seq(S) /\ NoRepeat(q) /\ \A k \in 1 .. Len(q) : rank[q[k]] <= rank[next[j]]
        BY <3>3
    <3> HIDE DEF q, Good
    <3>5. \A k \in 1 .. Len(q) : q[k] \in S
        BY <3>4
    <3>6. \A k \in 1 .. Len(q) : rank[q[k]] \in Nat /\ rank[q[k]] < rank[j] /\ q[k] # j
        BY <2>4, <3>1, <3>4, <3>5 DEF Descends
    <3> DEFINE p == Cons(j, q)
    <3>7. /\ p \in Seq(S) /\ p # <<>> /\ p[1] = j /\ NoRepeat(p)
          /\ \A k \in 1 .. Len(p) : p[k] = j \/ \E l \in 1 .. Len(q) : p[k] = q[l]
        BY <3>4, <3>6, ConsOnce
    <3> HIDE DEF p
    <3>8. \A k \in 1 .. Len(p) : rank[p[k]] <= rank[j]
        BY <2>4, <3>6, <3>7
    <3>9. f[j] = p
        BY <2>3, <2>5 DEF p, q, Cons
    <3>10. Good(j)
        BY <3>7, <3>8, <3>9 DEF Good
    <3> QED
        BY <2>2, <3>10
  <2>6. CASE ~ go[j]
    <3>1. f[j] = Cons(j, <<>>)
        BY <2>3, <2>6 DEF Cons
    <3>2. /\ f[j] \in Seq(S) /\ f[j] # <<>> /\ f[j][1] = j /\ NoRepeat(f[j])
          /\ \A k \in 1 .. Len(f[j]) : f[j][k] = j
        BY <3>1, ConsAlone
    <3>3. Good(j)
        BY <2>4, <3>2
    <3> QED
        BY <2>2, <3>3
  <2> QED
      BY <2>5, <2>6
<1>2. CASE Bad = {}
  <2>1. \A j \in S : rank[j] \in Nat
      BY DEF Descends
  <2>2. \A j \in S : Good(j)
      BY <1>2, <2>1
  <2> QED
      BY <2>2
<1> QED
    BY <1>1, <1>2

(* Two chains that go the same way from a set of slots, and stay in it,    *)
(* are the same there.                                                     *)
SameWay(U, go, next, goes, follows) ==
    \A j \in U : goes[j] = go[j] /\ (go[j] => follows[j] = next[j])

LEMMA ChainsAgree ==
    ASSUME NEW S, NEW go, NEW next, NEW f, Chain(S, go, next, f),
           NEW T, NEW goes, NEW follows, NEW g, Chain(T, goes, follows, g),
           NEW U, U \subseteq S, U \subseteq T,
           NEW rank, Descends(U, go, next, rank),
           SameWay(U, go, next, goes, follows)
    PROVE  \A j \in U : f[j] = g[j]
<1> DEFINE Bad == {r \in Nat : \E j \in U : rank[j] = r /\ f[j] # g[j]}
<1>1. CASE Bad # {}
  <2>1. PICK r \in Bad : \A q \in Bad : r <= q
      BY <1>1, LeastNatural
  <2>2. PICK j \in U : rank[j] = r /\ f[j] # g[j]
      BY <2>1
  <2>3. /\ f[j] = <<j>> \o IF go[j] THEN f[next[j]] ELSE <<>>
        /\ g[j] = <<j>> \o IF goes[j] THEN g[follows[j]] ELSE <<>>
    <3>1. j \in S /\ j \in T
        BY <2>2
    <3> QED
        BY <3>1, Zenon DEF Chain
  <2>4. CASE go[j]
    <3> DEFINE m == next[j]
    <3>1. m \in U /\ rank[m] \in Nat /\ rank[j] \in Nat /\ rank[m] < rank[j]
        BY <2>4 DEF Descends
    <3>2. rank[m] \notin Bad
        BY <2>1, <2>2, <3>1
    <3>3. f[m] = g[m]
        BY <3>1, <3>2
    <3>4. goes[j] /\ follows[j] = m
        BY <2>2, <2>4 DEF SameWay
    <3> HIDE DEF m
    <3>5. f[j] = <<j>> \o f[m] /\ g[j] = <<j>> \o g[m]
        BY <2>3, <2>4, <3>4 DEF m
    <3> QED
        BY <2>2, <3>3, <3>5
  <2>5. CASE ~ go[j]
    <3>1. f[j] = <<j>> \o <<>> /\ g[j] = <<j>> \o <<>>
        BY <2>2, <2>3, <2>5 DEF SameWay
    <3> QED
        BY <2>2, <3>1
  <2> QED
      BY <2>4, <2>5
<1>2. CASE Bad = {}
  <2>1. \A j \in U : rank[j] \in Nat
      BY DEF Descends
  <2> QED
      BY <1>2, <2>1
<1> QED
    BY <1>1, <1>2

(* A node rises from slot to slot towards the top. *)
MayRiseFrom(H, n, j) == j > 1 /\ H.val[n] < KeyAt(H, j \div 2)
Rises(H, n, i) == [j \in 1 .. i |-> MayRiseFrom(H, n, j)]
Parents(i) == [j \in 1 .. i |-> j \div 2]
Depth(i) == [j \in 1 .. i |-> j]

LEMMA RisesDescends ==
    ASSUME NEW H, NEW n, NEW i \in Nat
    PROVE  Descends(1 .. i, Rises(H, n, i), Parents(i), Depth(i))
<1>1. Depth(i) \in [1 .. i -> Nat]
    BY DEF Depth
<1>2. ASSUME NEW j \in 1 .. i, Rises(H, n, i)[j]
      PROVE  Parents(i)[j] \in 1 .. i /\ Depth(i)[Parents(i)[j]] < Depth(i)[j]
  <2>0. MayRiseFrom(H, n, j)
      BY <1>2 DEF Rises
  <2>1. j > 1 /\ j \in Nat
      BY <2>0 DEF MayRiseFrom
  <2>2. j \div 2 \in 1 .. i /\ j \div 2 < j
      BY <2>1
  <2> QED
      BY <2>2 DEF Parents, Depth
<1> QED
    BY <1>1, <1>2 DEF Descends

LEMMA UpIsChain ==
    ASSUME NEW H, NEW n, NEW i \in Nat
    PROVE  \E f : Chain(1 .. i, Rises(H, n, i), Parents(i), f) /\ UpPath(H, n, i) = f[i]
<1> DEFINE S == 1 .. i
           go == Rises(H, n, i)
           next == Parents(i)
           Is(f) == f = [j \in S |-> <<j>> \o IF j > 1 /\ H.val[n] < KeyAt(H, j \div 2)
                                              THEN f[j \div 2] ELSE <<>>]
           from == CHOOSE f : Is(f)
<1>1. UpPath(H, n, i) = from[i]
    BY DEF UpPath
<1>2. \A f : Is(f) <=> Chain(S, go, next, f)
  <2>1. \A j \in S : go[j] = (j > 1 /\ H.val[n] < KeyAt(H, j \div 2)) /\ next[j] = j \div 2
      BY DEF Rises, Parents, MayRiseFrom
  <2> HIDE DEF S, go, next
  <2> QED
      BY <2>1, Zenon DEF Chain
<1>3. \E f : Chain(S, go, next, f)
  <2>1. i + 1 \in Nat /\ \A j \in S : Depth(i)[j] < i + 1
      BY DEF Depth
  <2> QED
      BY <2>1, RisesDescends, ChainExists
<1> HIDE DEF S, go, next, Is
<1>4. Chain(S, go, next, from)
    BY <1>2, <1>3
<1> HIDE DEF from
<1> QED
    BY <1>1, <1>4 DEF S, go, next

LEMMA UpFacts ==
    ASSUME NEW H, NEW n, NEW i \in Nat \ {0}
    PROVE  /\ UpPath(H, n, i) \in Seq(1 .. i) /\ UpPath(H, n, i) # <<>>
           /\ UpPath(H, n, i)[1] = i /\ NoRepeat(UpPath(H, n, i))
<1>1. PICK f : Chain(1 .. i, Rises(H, n, i), Parents(i), f) /\ UpPath(H, n, i) = f[i]
    BY UpIsChain
<1>2. i \in 1 .. i
    OBVIOUS
<1>3. Descends(1 .. i, Rises(H, n, i), Parents(i), Depth(i))
    BY RisesDescends
<1> QED
    BY <1>1, <1>2, <1>3, ChainIsPath

(* One level of it. *)
LEMMA UpUnfolds ==
    ASSUME NEW H, NEW n, NEW i \in Nat \ {0}
    PROVE  UpPath(H, n, i) =
               Cons(i, IF MayRiseFrom(H, n, i) THEN UpPath(H, n, i \div 2) ELSE <<>>)
<1> DEFINE p == i \div 2
<1>1. PICK f : Chain(1 .. i, Rises(H, n, i), Parents(i), f) /\ UpPath(H, n, i) = f[i]
    BY UpIsChain
<1>2. i \in 1 .. i
    OBVIOUS
<1>3. f[i] = <<i>> \o IF Rises(H, n, i)[i] THEN f[Parents(i)[i]] ELSE <<>>
    BY <1>1, <1>2, Zenon DEF Chain
<1>4. Rises(H, n, i)[i] = MayRiseFrom(H, n, i) /\ Parents(i)[i] = p
    BY <1>2 DEF Rises, Parents
<1>5. CASE MayRiseFrom(H, n, i)
  <2>1. p \in Nat /\ p \in 1 .. p /\ \A j \in 1 .. p : j \in 1 .. i
      BY <1>5 DEF MayRiseFrom
  <2> HIDE DEF p
  <2>2. PICK g : Chain(1 .. p, Rises(H, n, p), Parents(p), g) /\ UpPath(H, n, p) = g[p]
      BY <2>1, UpIsChain
  <2>3. Descends(1 .. p, Rises(H, n, p), Parents(p), Depth(p))
      BY <2>1, RisesDescends
  <2>4. SameWay(1 .. p, Rises(H, n, p), Parents(p), Rises(H, n, i), Parents(i))
    <3>1. \A j \in 1 .. p : Rises(H, n, i)[j] = Rises(H, n, p)[j] /\ Parents(i)[j] = Parents(p)[j]
        BY <2>1 DEF Rises, Parents
    <3> QED
        BY <3>1 DEF SameWay
  <2>5. 1 .. p \subseteq 1 .. i
      BY <2>1
  <2>6. \A j \in 1 .. p : g[j] = f[j]
    <3> DEFINE S == 1 .. p
               T == 1 .. i
               go == Rises(H, n, p)
               next == Parents(p)
               goes == Rises(H, n, i)
               follows == Parents(i)
               rank == Depth(p)
    <3>1. /\ Chain(S, go, next, g) /\ Chain(T, goes, follows, f)
          /\ S \subseteq S /\ S \subseteq T /\ Descends(S, go, next, rank)
          /\ SameWay(S, go, next, goes, follows)
        BY <1>1, <2>2, <2>3, <2>4, <2>5
    <3> HIDE DEF S, T, go, next, goes, follows, rank
    <3>2. \A j \in S : g[j] = f[j]
        BY ONLY <3>1, ChainsAgree
    <3> QED
        BY <3>2 DEF S
  <2>7. UpPath(H, n, p) = f[p]
      BY <2>1, <2>2, <2>6
  <2> QED
      BY <1>1, <1>3, <1>4, <1>5, <2>7 DEF Cons, p
<1>6. CASE ~ MayRiseFrom(H, n, i)
    BY <1>1, <1>3, <1>4, <1>6 DEF Cons
<1> QED
    BY <1>5, <1>6

(* It depends on the keys and on the slots above. *)
LEMMA UpSame ==
    ASSUME NEW H, NEW G, NEW n, NEW i \in Nat \ {0},
           G.val = H.val, \A j \in 1 .. i - 1 : G.items[j] = H.items[j]
    PROVE  UpPath(G, n, i) = UpPath(H, n, i)
<1>1. PICK f : Chain(1 .. i, Rises(H, n, i), Parents(i), f) /\ UpPath(H, n, i) = f[i]
    BY UpIsChain
<1>2. PICK g : Chain(1 .. i, Rises(G, n, i), Parents(i), g) /\ UpPath(G, n, i) = g[i]
    BY UpIsChain
<1>3. \A j \in 1 .. i : MayRiseFrom(G, n, j) = MayRiseFrom(H, n, j)
  <2> SUFFICES ASSUME NEW j \in 1 .. i, j > 1
               PROVE  (H.val[n] < KeyAt(G, j \div 2)) = (H.val[n] < KeyAt(H, j \div 2))
      BY DEF MayRiseFrom
  <2>1. j \div 2 \in 1 .. i - 1
      OBVIOUS
  <2> QED
      BY <2>1 DEF KeyAt
<1>4. SameWay(1 .. i, Rises(H, n, i), Parents(i), Rises(G, n, i), Parents(i))
  <2>1. \A j \in 1 .. i : Rises(G, n, i)[j] = Rises(H, n, i)[j]
      BY <1>3 DEF Rises
  <2> QED
      BY <2>1 DEF SameWay
<1>5. Descends(1 .. i, Rises(H, n, i), Parents(i), Depth(i))
    BY RisesDescends
<1>6. \A j \in 1 .. i : f[j] = g[j]
  <2> DEFINE S == 1 .. i
             go == Rises(H, n, i)
             next == Parents(i)
             goes == Rises(G, n, i)
             rank == Depth(i)
  <2>1. /\ Chain(S, go, next, f) /\ Chain(S, goes, next, g)
        /\ S \subseteq S /\ Descends(S, go, next, rank)
        /\ SameWay(S, go, next, goes, next)
      BY <1>1, <1>2, <1>4, <1>5
  <2> HIDE DEF S, go, next, goes, rank
  <2>2. \A j \in S : f[j] = g[j]
      BY ONLY <2>1, ChainsAgree
  <2> QED
      BY <2>2 DEF S
<1>7. i \in 1 .. i
    OBVIOUS
<1> QED
    BY <1>1, <1>2, <1>6, <1>7

(* A node sinks from slot to slot towards the leaves. *)
MaySinkFrom(H, n, j) == 2 * j <= H.num /\ ~ (H.val[n] < KeyAt(H, MinChildOf(H, j)))
Sinks(H, n) == [j \in 1 .. H.num |-> MaySinkFrom(H, n, j)]
MinChildren(H) == [j \in 1 .. H.num |-> MinChildOf(H, j)]
Height(num) == [j \in 1 .. num |-> num - j]

LEMMA MinChildIs ==
    ASSUME NEW H, H.num \in Nat, NEW j \in 1 .. H.num, 2 * j <= H.num
    PROVE  MinChildOf(H, j) \in 1 .. H.num /\ MinChildOf(H, j) > j
<1>1. \/ MinChildOf(H, j) = 2 * j
      \/ MinChildOf(H, j) = 2 * j + 1 /\ 2 * j # H.num
    BY DEF MinChildOf
<1> DEFINE c == MinChildOf(H, j)
<1>2. c = 2 * j \/ (c = 2 * j + 1 /\ 2 * j # H.num)
    BY <1>1
<1> HIDE DEF c
<1>3. c \in 1 .. H.num /\ c > j
    BY <1>2
<1> QED
    BY <1>3 DEF c

LEMMA SinksDescends ==
    ASSUME NEW H, H.num \in Nat, NEW n
    PROVE  Descends(1 .. H.num, Sinks(H, n), MinChildren(H), Height(H.num))
<1>1. Height(H.num) \in [1 .. H.num -> Nat]
    BY DEF Height
<1>2. ASSUME NEW j \in 1 .. H.num, Sinks(H, n)[j]
      PROVE  /\ MinChildren(H)[j] \in 1 .. H.num
             /\ Height(H.num)[MinChildren(H)[j]] < Height(H.num)[j]
  <2>1. 2 * j <= H.num
    <3>1. MaySinkFrom(H, n, j)
        BY <1>2 DEF Sinks
    <3> QED
        BY <3>1 DEF MaySinkFrom
  <2> DEFINE c == MinChildOf(H, j)
  <2>2. c \in 1 .. H.num /\ c > j
      BY <2>1, MinChildIs
  <2>3. MinChildren(H)[j] = c
      BY DEF MinChildren
  <2> HIDE DEF c
  <2> QED
      BY <2>2, <2>3 DEF Height
<1> QED
    BY <1>1, <1>2 DEF Descends

LEMMA DownIsChain ==
    ASSUME NEW H, H.num \in Nat, NEW n, NEW i
    PROVE  \E f : /\ Chain(1 .. H.num, Sinks(H, n), MinChildren(H), f)
                  /\ DownPath(H, n, i) = f[i]
<1> DEFINE S == 1 .. H.num
           go == Sinks(H, n)
           next == MinChildren(H)
           Is(f) == f = [j \in S |-> <<j>> \o
                            IF 2 * j <= H.num /\ ~ (H.val[n] < KeyAt(H, MinChildOf(H, j)))
                            THEN f[MinChildOf(H, j)] ELSE <<>>]
           from == CHOOSE f : Is(f)
<1>1. DownPath(H, n, i) = from[i]
    BY DEF DownPath
<1>2. \A f : Is(f) <=> Chain(S, go, next, f)
  <2>1. \A j \in S : /\ go[j] = (2 * j <= H.num /\ ~ (H.val[n] < KeyAt(H, MinChildOf(H, j))))
                     /\ next[j] = MinChildOf(H, j)
      BY DEF Sinks, MinChildren, MaySinkFrom
  <2> HIDE DEF S, go, next
  <2> QED
      BY <2>1, Zenon DEF Chain
<1>3. \E f : Chain(S, go, next, f)
  <2>1. H.num + 1 \in Nat /\ \A j \in S : Height(H.num)[j] < H.num + 1
      BY DEF Height
  <2> QED
      BY <2>1, SinksDescends, ChainExists
<1> HIDE DEF S, go, next, Is
<1>4. Chain(S, go, next, from)
    BY <1>2, <1>3
<1> HIDE DEF from
<1> QED
    BY <1>1, <1>4 DEF S, go, next

LEMMA DownFacts ==
    ASSUME NEW H, H.num \in Nat, NEW n, NEW i \in 1 .. H.num
    PROVE  /\ DownPath(H, n, i) \in Seq(1 .. H.num) /\ DownPath(H, n, i) # <<>>
           /\ DownPath(H, n, i)[1] = i /\ NoRepeat(DownPath(H, n, i))
<1>1. PICK f : /\ Chain(1 .. H.num, Sinks(H, n), MinChildren(H), f)
               /\ DownPath(H, n, i) = f[i]
    BY DownIsChain
<1>2. Descends(1 .. H.num, Sinks(H, n), MinChildren(H), Height(H.num))
    BY SinksDescends
<1> QED
    BY <1>1, <1>2, ChainIsPath

(* One level of it. *)
LEMMA DownUnfolds ==
    ASSUME NEW H, H.num \in Nat, NEW n, NEW i \in 1 .. H.num
    PROVE  DownPath(H, n, i) =
               Cons(i, IF MaySinkFrom(H, n, i) THEN DownPath(H, n, MinChildOf(H, i)) ELSE <<>>)
<1> DEFINE c == MinChildOf(H, i)
           S == 1 .. H.num
           go == Sinks(H, n)
           next == MinChildren(H)
           rank == Height(H.num)
<1>1. PICK f : Chain(S, go, next, f) /\ DownPath(H, n, i) = f[i]
    BY DownIsChain
<1>2. PICK g : Chain(S, go, next, g) /\ DownPath(H, n, c) = g[c]
    BY DownIsChain
<1>3. f[i] = <<i>> \o IF go[i] THEN f[next[i]] ELSE <<>>
    BY <1>1, Zenon DEF Chain
<1>4. go[i] = MaySinkFrom(H, n, i) /\ next[i] = c
    BY DEF Sinks, MinChildren
<1>5. CASE MaySinkFrom(H, n, i)
  <2>1. c \in S
      BY <1>5, MinChildIs DEF MaySinkFrom
  <2>2. Descends(S, go, next, rank)
      BY SinksDescends
  <2>3. S \subseteq S /\ SameWay(S, go, next, go, next)
      BY DEF SameWay
  <2> HIDE DEF c, S, go, next, rank
  <2>4. \A j \in S : g[j] = f[j]
      BY ONLY <1>1, <1>2, <2>2, <2>3, ChainsAgree
  <2>5. DownPath(H, n, c) = f[c]
      BY <1>2, <2>1, <2>4
  <2> QED
      BY <1>1, <1>3, <1>4, <1>5, <2>5 DEF Cons, c
<1>6. CASE ~ MaySinkFrom(H, n, i)
    BY <1>1, <1>3, <1>4, <1>6 DEF Cons
<1> QED
    BY <1>5, <1>6

(* It depends on the keys and on the slots below. *)
LEMMA DownSame ==
    ASSUME NEW H, NEW G, H.num \in Nat, NEW n, NEW i \in 1 .. H.num,
           G.num = H.num, G.val = H.val,
           \A j \in 1 .. H.num : j > i => G.items[j] = H.items[j]
    PROVE  DownPath(G, n, i) = DownPath(H, n, i)
<1> DEFINE S == 1 .. H.num
           U == i .. H.num
           go == Sinks(H, n)
           next == MinChildren(H)
           goes == Sinks(G, n)
           follows == MinChildren(G)
           rank == [j \in U |-> H.num - j]
<1>1. PICK f : Chain(S, go, next, f) /\ DownPath(H, n, i) = f[i]
    BY DownIsChain
<1>2. PICK g : Chain(S, goes, follows, g) /\ DownPath(G, n, i) = g[i]
  <2>1. G.num \in Nat
      OBVIOUS
  <2> HIDE DEF S
  <2>2. PICK g : Chain(1 .. G.num, goes, follows, g) /\ DownPath(G, n, i) = g[i]
      BY <2>1, DownIsChain
  <2> QED
      BY <2>2 DEF S
<1>3. ASSUME NEW j \in U
      PROVE  /\ MaySinkFrom(G, n, j) = MaySinkFrom(H, n, j)
             /\ MaySinkFrom(H, n, j) => MinChildOf(G, j) = MinChildOf(H, j)
  <2>1. ASSUME 2 * j <= H.num
        PROVE  /\ MinChildOf(G, j) = MinChildOf(H, j)
               /\ KeyAt(G, MinChildOf(G, j)) = KeyAt(H, MinChildOf(H, j))
    <3>1. j \in 1 .. H.num /\ j >= i /\ 2 * j \in 1 .. H.num /\ 2 * j > i
        BY <2>1
    <3>2. KeyAt(G, 2 * j) = KeyAt(H, 2 * j)
        BY <3>1 DEF KeyAt
    <3>3. 2 * j # H.num => KeyAt(G, 2 * j + 1) = KeyAt(H, 2 * j + 1)
        BY <2>1, <3>1 DEF KeyAt
    <3>4. MinChildOf(G, j) = MinChildOf(H, j)
        BY <3>2, <3>3 DEF MinChildOf
    <3> DEFINE c == MinChildOf(H, j)
    <3>5. c \in 1 .. H.num /\ c > j
        BY <2>1, <3>1, MinChildIs
    <3> HIDE DEF c
    <3>6. KeyAt(G, c) = KeyAt(H, c)
        BY <3>1, <3>5 DEF KeyAt
    <3> QED
        BY <3>4, <3>6 DEF c
  <2>2. CASE 2 * j <= H.num
      BY <2>1, <2>2 DEF MaySinkFrom
  <2>3. CASE ~ (2 * j <= H.num)
      BY <2>3 DEF MaySinkFrom
  <2> QED
      BY <2>2, <2>3
<1>4. \A j \in U : /\ j \in S
                   /\ go[j] = MaySinkFrom(H, n, j) /\ next[j] = MinChildOf(H, j)
                   /\ goes[j] = MaySinkFrom(G, n, j) /\ follows[j] = MinChildOf(G, j)
    BY DEF Sinks, MinChildren
<1>5. SameWay(U, go, next, goes, follows)
  <2> HIDE DEF U, go, next, goes, follows
  <2> QED
      BY <1>3, <1>4 DEF SameWay
<1>6. Descends(U, go, next, rank)
  <2>1. rank \in [U -> Nat]
      OBVIOUS
  <2>2. ASSUME NEW j \in U, go[j]
        PROVE  next[j] \in U /\ rank[next[j]] < rank[j]
    <3>1. 2 * j <= H.num /\ j \in 1 .. H.num
        BY <1>4, <2>2 DEF MaySinkFrom
    <3> DEFINE c == MinChildOf(H, j)
    <3>2. c \in 1 .. H.num /\ c > j
        BY <3>1, MinChildIs
    <3>3. next[j] = c
        BY <1>4
    <3> HIDE DEF c
    <3> QED
        BY <3>2, <3>3
  <2> HIDE DEF U, go, next, rank
  <2> QED
      BY <2>1, <2>2 DEF Descends
<1>7. U \subseteq S /\ i \in U
    OBVIOUS
<1> HIDE DEF S, U, go, next, goes, follows, rank
<1>8. \A j \in U : f[j] = g[j]
  <2>1. Chain(S, go, next, f) /\ Chain(S, goes, follows, g) /\ U \subseteq S
      BY <1>1, <1>2, <1>7
  <2> QED
      BY ONLY <1>5, <1>6, <2>1, ChainsAgree
<1> QED
    BY <1>1, <1>2, <1>7, <1>8

LEMMA UpIsPath ==
    ASSUME NEW N \in Nat, NEW H, HeapType(H, N), NEW n, NEW i \in 1 .. H.num
    PROVE  IsPath(H, UpPath(H, n, i)) /\ UpPath(H, n, i)[1] = i
<1> DEFINE p == UpPath(H, n, i)
<1>1. i \in Nat \ {0} /\ \A k \in 1 .. i : k \in 1 .. H.num
    BY HeapFields
<1>2. p \in Seq(1 .. i) /\ p # <<>> /\ p[1] = i /\ NoRepeat(p)
    BY <1>1, UpFacts
<1> HIDE DEF p
<1>3. Len(p) \in Nat /\ Len(p) >= 1 /\ \A k \in 1 .. Len(p) : p[k] \in 1 .. i
    BY <1>2, EmptySeq
<1> QED
    BY <1>1, <1>2, <1>3 DEF IsPath, p

LEMMA DownIsPath ==
    ASSUME NEW N \in Nat, NEW H, HeapType(H, N), NEW n, NEW i \in 1 .. H.num
    PROVE  IsPath(H, DownPath(H, n, i)) /\ DownPath(H, n, i)[1] = i
<1> DEFINE p == DownPath(H, n, i)
<1>1. H.num \in Nat
    BY HeapFields
<1>2. p \in Seq(1 .. H.num) /\ p # <<>> /\ p[1] = i /\ NoRepeat(p)
    BY <1>1, DownFacts
<1> DEFINE S == 1 .. H.num
<1> HIDE DEF p, S
<1>3. Len(p) \in Nat /\ Len(p) >= 1 /\ \A k \in 1 .. Len(p) : p[k] \in S
  <2>1. p \in Seq(S) /\ p # <<>>
      BY <1>2 DEF S
  <2> QED
      BY ONLY <2>1, EmptySeq
<1> QED
    BY <1>2, <1>3 DEF IsPath, p, S

----------------------------------------------------------------------------
(* The calls.                                                              *)

(* Free slots stay apart from the live ones, in whatever order those are. *)
LEMMA ApartKept ==
    ASSUME NEW N \in Nat, NEW G, HeapType(G, N), NEW R, HeapType(R, N),
           R.num = G.num, LiveIn(R) = LiveIn(G), Apart(G, N),
           \A i \in 1 .. N : i > G.num => R.items[i] = G.items[i]
    PROVE  Apart(R, N)
<1> SUFFICES ASSUME NEW i \in 1 .. N, NEW j \in 1 .. N, i # j, j > R.num
             PROVE  R.items[i] # R.items[j]
    BY DEF Apart
<1>1. R.items[j] = G.items[j] /\ G.num \in 0 .. N
    BY HeapFields
<1>2. CASE i > G.num
    BY <1>1, <1>2 DEF Apart
<1>3. CASE i <= G.num
  <2>1. i \in 1 .. R.num
      BY <1>1, <1>3
  <2>2. R.items[i] \in LiveIn(G)
      BY <2>1 DEF LiveIn
  <2>3. PICK l \in 1 .. G.num : R.items[i] = G.items[l]
      BY <2>2 DEF LiveIn
  <2>4. l \in 1 .. N /\ l # j
      BY <1>1, <2>3
  <2> QED
      BY <1>1, <2>3, <2>4 DEF Apart
<1> QED
    BY <1>1, <1>2, <1>3

(* AdjustNode moves live nodes among the live slots. *)
LEMMA AdjustFacts ==
    ASSUME NEW N \in Nat, NEW H, HeapType(H, N), NEW i \in 1 .. N
    PROVE  LET R == AdjustNode(H, i)
           IN /\ HeapType(R, N) /\ R.num = H.num /\ R.val = H.val
              /\ \A j \in 1 .. N : j > H.num => R.items[j] = H.items[j]
              /\ LiveIn(R) = LiveIn(H)
              /\ KeepsSlots(H, R, N)
              /\ Indexed(H) => Indexed(R)
<1> DEFINE R == AdjustNode(H, i)
           n == H.items[i]
<1>1. H.num \in 0 .. N /\ n \in 1 .. N
    BY HeapFields
<1>2. CASE i > H.num
  <2>1. R = H
      BY <1>2 DEF AdjustNode
  <2> QED
      BY <2>1 DEF KeepsSlots
<1>3. CASE i <= H.num
  <2>1. i \in 1 .. H.num
      BY <1>1, <1>3
  <2>2. PICK path : R = ShiftAlong(H, path, n) /\ IsPath(H, path) /\ path[1] = i
    <3>1. \/ R = RaiseFrom(H, n, i)
          \/ R = LowerFrom(H, n, i)
        BY <1>1, <1>3 DEF AdjustNode
    <3>2. CASE R = RaiseFrom(H, n, i)
      <4>1. R = ShiftAlong(H, UpPath(H, n, i), n)
          BY <3>2, Zenon DEF RaiseFrom
      <4> QED
          BY <2>1, <4>1, UpIsPath
    <3>3. CASE R = LowerFrom(H, n, i)
      <4>1. R = ShiftAlong(H, DownPath(H, n, i), n)
          BY <3>3, Zenon DEF LowerFrom
      <4> QED
          BY <2>1, <4>1, DownIsPath
    <3> QED
        BY <3>1, <3>2, <3>3
  <2> HIDE DEF R, n
  <2>3. /\ HeapType(R, N)
        /\ R.num = H.num /\ R.val = H.val
        /\ \A j \in 1 .. N : j > H.num => R.items[j] = H.items[j]
        /\ LiveIn(R) = Others(H, i) \cup {n}
        /\ SoundBut(H, i, n) => \A j \in 1 .. H.num : R.index[R.items[j]] = j
        /\ KeepsSlots(H, R, N)
      BY <1>1, <2>2, ShiftAlongFacts
  <2>4. Others(H, i) \cup {n} = LiveIn(H)
      BY <2>1 DEF Others, LiveIn, n
  <2>5. ASSUME Indexed(H) PROVE Indexed(R)
    <3>1. SoundBut(H, i, n)
        BY <2>1, <2>5 DEF Indexed, SoundBut, n
    <3> QED
        BY <2>3, <3>1 DEF Indexed
  <2> QED
      BY <2>3, <2>4, <2>5 DEF R
<1> QED
    BY <1>1, <1>2, <1>3

(* Insert makes the first free node live. *)
LEMMA InsertFacts ==
    ASSUME NEW N \in Nat, NEW H, HeapType(H, N), H.num < N, NEW k \in Int
    PROVE  LET R == InsertKey(H, k)
               n == NextNode(H)
           IN /\ HeapType(R, N) /\ R.num = H.num + 1
              /\ n \in 1 .. N /\ R.index[n] # 0
              /\ R.val[n] = k /\ \A x \in 0 .. N : x # n => R.val[x] = H.val[x]
              /\ LiveIn(R) = LiveIn(H) \cup {n}
              /\ KeepsSlots(H, R, N)
              /\ Sound(H, N) => Sound(R, N) /\ n \notin LiveIn(H)
<1> DEFINE n == NextNode(H)
           last == H.num + 1
           G == [H EXCEPT !.num = @ + 1, !.val[n] = k, !.size = IF Full(H) THEN 2 * @ ELSE @]
           R == InsertKey(H, k)
<1>1. H.num \in 0 .. N /\ last \in 1 .. N
    BY HeapFields
<1>2. n \in 1 .. N /\ n = H.items[last]
    BY <1>1, HeapFields DEF NextNode
<1>3. R = ShiftAlong(G, UpPath(G, n, last), n)
    BY DEF InsertKey, RaiseFrom
<1> HIDE DEF n
<1>4. /\ HeapType(G, N) /\ G.num = last /\ G.items = H.items /\ G.index = H.index
      /\ G.val = [H.val EXCEPT ![n] = k]
  <2>1. H \in [items : [0 .. N -> 0 .. N], num : 0 .. N, size : Int,
               index : [0 .. N -> 0 .. N], val : [0 .. N -> Int]]
      BY DEF HeapType, HeapRecord
  <2>2. /\ G.num = last /\ G.items = H.items /\ G.index = H.index
        /\ G.val = [H.val EXCEPT ![n] = k]
      BY <2>1
  <2>3. n \in 0 .. N /\ last \in 0 .. N
      BY <1>1, <1>2
  <2>4. (IF Full(H) THEN 2 * H.size ELSE H.size) \in Int
      BY <2>1
  <2>5. G \in [items : [0 .. N -> 0 .. N], num : 0 .. N, size : Int,
               index : [0 .. N -> 0 .. N], val : [0 .. N -> Int]]
      BY <2>1, <2>3, <2>4
  <2>6. \A i \in 1 .. N : H.items[i] # 0
      BY DEF HeapType, HeapRecord
  <2> HIDE DEF G
  <2> QED
      BY <2>2, <2>5, <2>6 DEF HeapType, HeapRecord
<1> HIDE DEF G, R
<1>5. last \in 1 .. G.num
    BY <1>1, <1>4
<1>6. IsPath(G, UpPath(G, n, last)) /\ UpPath(G, n, last)[1] = last
    BY <1>4, <1>5, UpIsPath
<1>7. /\ HeapType(R, N)
      /\ R.num = G.num /\ R.val = G.val
      /\ \A i \in 1 .. N : i > G.num => R.items[i] = G.items[i]
      /\ LiveIn(R) = Others(G, last) \cup {n}
      /\ SoundBut(G, last, n) => \A i \in 1 .. G.num : R.index[R.items[i]] = i
      /\ KeepsSlots(G, R, N) /\ R.index[n] # 0
  <2> DEFINE path == UpPath(G, n, last)
  <2>1. R = ShiftAlong(G, path, n) /\ IsPath(G, path) /\ path[1] = last
      BY <1>3, <1>6
  <2> HIDE DEF path
  <2> QED
      BY <1>2, <1>4, <2>1, ShiftAlongFacts
<1>8. Others(G, last) = LiveIn(H)
  <2>1. (1 .. G.num) \ {last} = 1 .. H.num
      BY <1>1, <1>4
  <2> QED
      BY <1>4, <2>1 DEF Others, LiveIn
<1>9. R.val[n] = k /\ \A x \in 0 .. N : x # n => R.val[x] = H.val[x]
  <2>1. H.val \in [0 .. N -> Int]
      BY DEF HeapType, HeapRecord
  <2>2. n \in 0 .. N
      BY <1>2
  <2> QED
      BY <1>4, <1>7, <2>1, <2>2
<1>10. KeepsSlots(H, R, N)
    BY <1>4, <1>7 DEF KeepsSlots
<1>11. ASSUME Sound(H, N)
       PROVE  Sound(R, N) /\ n \notin LiveIn(H)
  <2>1. \A i \in 1 .. H.num : i \in 1 .. N /\ i # last /\ H.items[i] # n
    <3>1. \A i \in 1 .. H.num : i \in 1 .. N /\ i # last
        BY <1>1
    <3> QED
        BY <1>1, <1>2, <1>11, <3>1 DEF Sound, Apart
  <2>2. n \notin LiveIn(H)
      BY <2>1 DEF LiveIn
  <2>3. \A i \in (1 .. G.num) \ {last} : i \in 1 .. H.num
      BY <1>1, <1>4
  <2>4. SoundBut(G, last, n)
      BY <1>4, <1>11, <2>1, <2>3 DEF Sound, Indexed, SoundBut
  <2>5. Indexed(R)
      BY <1>7, <2>4 DEF Indexed
  <2>6. Apart(R, N)
    <3>1. Apart(G, N)
        BY <1>1, <1>4, <1>11 DEF Sound, Apart
    <3>2. LiveIn(G) = Others(G, last) \cup {n}
        BY <1>2, <1>4, <1>5 DEF LiveIn, Others
    <3> QED
        BY <1>4, <1>7, <3>1, <3>2, ApartKept
  <2> QED
      BY <2>2, <2>5, <2>6 DEF Sound
<1> QED
    BY <1>2, <1>4, <1>7, <1>8, <1>9, <1>10, <1>11 DEF R, n

(* Erase puts the last node where the slot number of its argument says.    *)
(* For a node that is not live that is another's slot; only of a sound     *)
(* heap, and a live node, does it take out just that node.                 *)
LEMMA EraseFacts ==
    ASSUME NEW N \in Nat, NEW H, HeapType(H, N), NEW n \in 1 .. N, H.index[n] # 0
    PROVE  LET R == EraseNode(H, n)
           IN /\ HeapType(R, N) /\ R.val = H.val
              /\ R.num = IF H.num = 0 THEN 0 ELSE H.num - 1
              /\ LiveIn(R) \subseteq LiveIn(H)
              /\ KeepsSlots(H, R, N)
              /\ Sound(H, N) /\ n \in LiveIn(H) => Sound(R, N) /\ LiveIn(R) = LiveIn(H) \ {n}
<1>1. CASE H.num = 0
  <2>1. EraseNode(H, n) = H
      BY <1>1 DEF EraseNode
  <2>2. LiveIn(H) = {}
      BY <1>1 DEF LiveIn
  <2> QED
      BY <1>1, <2>1, <2>2 DEF KeepsSlots
<1>2. CASE H.num # 0
  <2> DEFINE at == H.index[n]
             last == H.items[H.num]
             h == [H.items EXCEPT ![at] = last, ![H.num] = n]
             G == [H EXCEPT !.items = h, !.num = @ - 1, !.index[h[at]] = at]
             R == EraseNode(H, n)
  <2>1. R = AdjustNode(G, G.index[n])
      BY <1>2 DEF EraseNode
  <2>2. /\ H.num \in 1 .. N /\ at \in 1 .. N /\ last \in 1 .. N
        /\ H.num \in 0 .. N /\ at \in 0 .. N /\ n \in 0 .. N /\ last \in 0 .. N
    <3>1. H.num \in 1 .. N
        BY <1>2, HeapFields
    <3>2. at \in 0 .. N /\ at # 0
        BY HeapFields
    <3>3. last \in 1 .. N
        BY <3>1, HeapFields
    <3> QED
        BY <3>1, <3>2, <3>3
  <2>3. H \in [items : [0 .. N -> 0 .. N], num : 0 .. N, size : Int,
               index : [0 .. N -> 0 .. N], val : [0 .. N -> Int]]
      BY DEF HeapType, HeapRecord
  <2>4. H.items \in [0 .. N -> 0 .. N] /\ H.index \in [0 .. N -> 0 .. N]
      BY <2>3
  <2> HIDE DEF at, last
  <2>5. /\ h \in [0 .. N -> 0 .. N] /\ h[H.num] = n
        /\ h[at] = IF at = H.num THEN n ELSE last
        /\ \A i \in 0 .. N : i # at /\ i # H.num => h[i] = H.items[i]
      BY <2>2, <2>4
  <2> HIDE DEF h
  <2>6. h[at] \in 1 .. N /\ h[at] \in 0 .. N
      BY <2>2, <2>5
  <2>7. /\ G.items = h /\ G.num = H.num - 1 /\ G.val = H.val
        /\ G.index = [H.index EXCEPT ![h[at]] = at]
      BY <2>3
  <2>8. HeapType(G, N)
    <3>1. \A i \in 1 .. N : h[i] # 0
      <4>1. \A i \in 1 .. N : i \in 0 .. N /\ H.items[i] # 0
          BY DEF HeapType, HeapRecord
      <4>2. n # 0 /\ last # 0
          BY <2>2
      <4> QED
          BY <2>5, <4>1, <4>2
    <3>2. H.num - 1 \in 0 .. N
        BY <2>2
    <3>3. G \in [items : [0 .. N -> 0 .. N], num : 0 .. N, size : Int,
                 index : [0 .. N -> 0 .. N], val : [0 .. N -> Int]]
        BY <2>2, <2>3, <2>5, <2>6, <3>2
    <3> HIDE DEF G
    <3> QED
        BY <2>7, <3>1, <3>3 DEF HeapType, HeapRecord
  <2> HIDE DEF G, R
  <2>9. G.index[h[at]] = at /\ \A x \in 0 .. N : x # h[at] => G.index[x] = H.index[x]
      BY <2>4, <2>6, <2>7
  <2>10. G.index[n] = at
    <3>1. CASE n = h[at]
        BY <2>9, <3>1
    <3>2. CASE n # h[at]
        BY <2>2, <2>9, <3>2 DEF at
    <3> QED
        BY <3>1, <3>2
  <2>11. /\ HeapType(R, N) /\ R.num = G.num /\ R.val = G.val
         /\ \A j \in 1 .. N : j > G.num => R.items[j] = G.items[j]
         /\ LiveIn(R) = LiveIn(G)
         /\ KeepsSlots(G, R, N)
         /\ Indexed(G) => Indexed(R)
    <3>1. R = AdjustNode(G, at)
        BY <2>1, <2>10
    <3> QED
        BY <2>2, <2>8, <3>1, AdjustFacts
  <2>12. KeepsSlots(H, R, N)
    <3>1. KeepsSlots(H, G, N)
        BY <2>2, <2>9 DEF KeepsSlots
    <3> QED
        BY <2>11, <3>1 DEF KeepsSlots
  <2>13. \A i \in 1 .. G.num : /\ i \in 1 .. H.num /\ i # H.num /\ i \in 1 .. N /\ i \in 0 .. N
                               /\ G.items[i] = IF i = at THEN last ELSE H.items[i]
    <3>1. \A i \in 1 .. G.num : i \in 1 .. H.num /\ i # H.num /\ i \in 1 .. N /\ i \in 0 .. N
        BY <2>2, <2>7
    <3> QED
        BY <2>5, <2>7, <3>1
  <2>14. last \in LiveIn(H) /\ \A i \in 1 .. H.num : H.items[i] \in LiveIn(H)
      BY <2>2 DEF LiveIn, last
  <2>15. LiveIn(G) \subseteq LiveIn(H)
    <3>1. \A i \in 1 .. G.num : G.items[i] \in LiveIn(H)
        BY <2>13, <2>14
    <3> QED
        BY <3>1 DEF LiveIn
  <2>16. ASSUME Sound(H, N), n \in LiveIn(H)
         PROVE  Sound(R, N) /\ LiveIn(R) = LiveIn(H) \ {n}
    <3>1. PICK i0 \in 1 .. H.num : n = H.items[i0]
        BY <2>16 DEF LiveIn
    <3>2. \A i, j \in 1 .. H.num : H.items[i] = H.items[j] => i = j
        BY <2>16 DEF Sound, Indexed
    <3>3. at = i0 /\ at \in 1 .. H.num /\ n = H.items[at]
        BY <2>16, <3>1 DEF Sound, Indexed, at
    <3>4. H.num \in 1 .. H.num
        BY <2>2
    <3>5. h[at] = last
        BY <2>5, <3>3 DEF last
    <3>6. last = n <=> at = H.num
        BY <3>2, <3>3, <3>4 DEF last
    <3>7. LiveIn(G) = LiveIn(H) \ {n}
      <4>1. \A i \in 1 .. G.num : G.items[i] \in LiveIn(H) /\ G.items[i] # n
          BY <2>13, <2>14, <3>2, <3>3, <3>6
      <4>2. ASSUME NEW x \in LiveIn(H), x # n
            PROVE  x \in LiveIn(G)
        <5>1. PICK i \in 1 .. H.num : x = H.items[i]
            BY DEF LiveIn
        <5>2. CASE i = H.num
          <6>1. x = last /\ at # H.num /\ at \in 1 .. G.num
              BY <2>2, <2>7, <3>3, <3>6, <4>2, <5>1, <5>2 DEF last
          <6> QED
              BY <2>13, <6>1 DEF LiveIn
        <5>3. CASE i # H.num
          <6>1. i # at /\ i \in 1 .. G.num
              BY <2>2, <2>7, <3>3, <4>2, <5>1, <5>3
          <6> QED
              BY <2>13, <5>1, <6>1 DEF LiveIn
        <5> QED
            BY <5>2, <5>3
      <4> QED
          BY <4>1, <4>2 DEF LiveIn
    <3>8. Indexed(G)
      <4> SUFFICES ASSUME NEW i \in 1 .. G.num
                   PROVE  G.index[G.items[i]] = i
          BY DEF Indexed
      <4>1. i \in 1 .. H.num /\ i # H.num /\ i \in 0 .. N
            /\ G.items[i] = IF i = at THEN last ELSE H.items[i]
          BY <2>13
      <4>2. CASE i = at
          BY <2>9, <3>5, <4>1, <4>2
      <4>3. CASE i # at
        <5>1. H.items[i] # last
            BY <3>2, <3>4, <4>1 DEF last
        <5>2. H.items[i] \in 0 .. N
            BY <2>4, <4>1
        <5>3. G.index[H.items[i]] = H.index[H.items[i]]
            BY <2>9, <3>5, <5>1, <5>2
        <5> QED
            BY <2>16, <4>1, <4>3, <5>3 DEF Sound, Indexed
      <4> QED
          BY <4>2, <4>3
    <3>9. Apart(G, N)
      <4> SUFFICES ASSUME NEW i \in 1 .. N, NEW j \in 1 .. N, i # j, j > G.num
                   PROVE  h[i] # h[j]
          BY <2>7 DEF Apart
      <4>1. i \in 0 .. N /\ j \in 0 .. N /\ j >= H.num
          BY <2>2, <2>7
      <4>2. \A a, b \in 1 .. N : a # b /\ b > H.num => H.items[a] # H.items[b]
          BY <2>16 DEF Sound, Apart
      <4>3. at \in 1 .. N /\ H.num \in 1 .. N /\ at <= H.num
          BY <2>2, <3>3
      <4>4. CASE j = H.num
        <5>1. h[j] = n /\ i # H.num
            BY <2>5, <4>4
        <5>2. CASE i = at
            BY <2>5, <3>6, <5>1, <5>2
        <5>3. CASE i # at
          <6>1. h[i] = H.items[i]
              BY <2>5, <4>1, <5>1, <5>3
          <6>2. CASE i < H.num
            <7>1. i \in 1 .. H.num
                BY <2>2, <6>2
            <7> QED
                BY <3>2, <3>3, <5>1, <5>3, <6>1, <7>1
          <6>3. CASE i > H.num
              BY <3>3, <4>2, <4>3, <5>1, <5>3, <6>1, <6>3
          <6> QED
              BY <2>2, <5>1, <6>2, <6>3
        <5> QED
            BY <5>2, <5>3
      <4>5. CASE j > H.num
        <5>1. h[j] = H.items[j]
          <6>1. j # at /\ j # H.num
              BY <4>3, <4>5
          <6> QED
              BY <2>5, <4>1, <6>1
        <5>2. CASE i = at
            BY <3>5, <4>2, <4>3, <4>5, <5>1, <5>2 DEF last
        <5>3. CASE i = H.num
          <6>1. h[i] = H.items[at]
              BY <2>5, <3>3, <5>3
          <6>2. at \in 1 .. N /\ at # j /\ j > H.num
              BY <4>3, <4>5
          <6>3. H.items[at] # H.items[j]
              BY <4>2, <6>2
          <6> QED
              BY <5>1, <6>1, <6>3
        <5>4. CASE i # at /\ i # H.num
            BY <2>5, <4>1, <4>2, <4>5, <5>1, <5>4
        <5> QED
            BY <5>2, <5>3, <5>4
      <4> QED
          BY <2>2, <4>1, <4>4, <4>5
    <3>10. Apart(R, N)
        BY <2>8, <2>11, <3>9, ApartKept
    <3> QED
        BY <2>11, <3>7, <3>8, <3>10 DEF Sound
  <2> QED
      BY <1>2, <2>7, <2>11, <2>12, <2>15, <2>16 DEF R
<1> QED
    BY <1>1, <1>2

----------------------------------------------------------------------------
(* One iteration of a loop: the first slot of the path takes the node of   *)
(* the second, and the rest of the path is walked from there.              *)
SameBut(G, H, i, N) ==
    /\ G.num = H.num /\ G.val = H.val
    /\ \A j \in 0 .. N : j # i => G.items[j] = H.items[j]

LEMMA PutChangesOne ==
    ASSUME NEW N \in Nat, NEW H, HeapRecord(H, N), NEW i \in 0 .. N, NEW x
    PROVE  SameBut(PutNode(H, i, x), H, i, N)
<1> DEFINE G == PutNode(H, i, x)
<1>1. H.items \in [0 .. N -> 0 .. N]
    BY DEF HeapRecord
<1>2. G.num = H.num /\ G.val = H.val /\ G.items = [H.items EXCEPT ![i] = x]
    BY DEF HeapRecord, PutNode
<1> HIDE DEF G
<1>3. \A j \in 0 .. N : j # i => G.items[j] = H.items[j]
    BY <1>1, <1>2
<1>4. SameBut(G, H, i, N)
    BY <1>2, <1>3 DEF SameBut
<1> QED
    BY <1>4 DEF G

LEMMA SeqWidens ==
    ASSUME NEW S, NEW T, S \subseteq T, NEW p \in Seq(S)
    PROVE  p \in Seq(T)
<1>1. Len(p) \in Nat /\ p = [k \in 1 .. Len(p) |-> p[k]] /\ \A k \in 1 .. Len(p) : p[k] \in S
    OBVIOUS
<1> QED
    BY <1>1, IsASeq

LEMMA ConsIs ==
    ASSUME NEW S, NEW i \in S, NEW p \in Seq(S)
    PROVE  /\ Len(Cons(i, p)) = Len(p) + 1 /\ Len(p) \in Nat
           /\ Cons(i, p)[1] = i
           /\ \A k \in 1 .. Len(p) : Cons(i, p)[k + 1] = p[k] /\ p[k] \in S
<1>1. Cons(i, p) = <<i>> \o p
    BY DEF Cons
<1>2. /\ Len(<<i>> \o p) = Len(p) + 1 /\ Len(p) \in Nat
      /\ (<<i>> \o p)[1] = i
      /\ \A k \in 1 .. Len(p) : (<<i>> \o p)[k + 1] = p[k] /\ p[k] \in S
    OBVIOUS
<1> QED
    BY <1>1, <1>2

LEMMA ShiftStops ==
    ASSUME NEW H, NEW i, NEW n
    PROVE  ShiftAlong(H, Cons(i, <<>>), n) = PutNode(H, i, n)
<1> DEFINE path == Cons(i, <<>>)
<1>1. Len(path) = 1 /\ path[1] = i
  <2>1. path = <<i>>
      BY DEF Cons
  <2> QED
      BY <2>1
<1> HIDE DEF path
<1>2. PICK moved : /\ Shifted(H, path, moved, Len(path))
                   /\ ShiftAlong(H, path, n) = PutNode(moved[Len(path)], path[Len(path)], n)
    BY <1>1, ShiftAlongIs
<1>3. moved[1] = H
    BY <1>1, <1>2 DEF Shifted
<1> QED
    BY <1>1, <1>2, <1>3 DEF path

LEMMA ShiftMoves ==
    ASSUME NEW N \in Nat, NEW H, HeapRecord(H, N), NEW i \in 0 .. N,
           NEW p \in Seq(0 .. N), p # <<>>, NoRepeat(Cons(i, p)), NEW n
    PROVE  ShiftAlong(H, Cons(i, p), n) = ShiftAlong(PutNode(H, i, H.items[p[1]]), p, n)
<1> DEFINE path == Cons(i, p)
           l == Len(p)
           G == PutNode(H, i, H.items[p[1]])
<1>1. /\ Len(path) = l + 1 /\ l \in Nat /\ path[1] = i
      /\ \A k \in 1 .. l : path[k + 1] = p[k] /\ p[k] \in 0 .. N
    BY ConsIs
<1>2. l >= 1
    BY <1>1, EmptySeq
<1>3. \A k \in 1 .. l : p[k] # i
  <2> SUFFICES ASSUME NEW k \in 1 .. l, p[k] = i
               PROVE  FALSE
      OBVIOUS
  <2>1. k + 1 \in 1 .. Len(path) /\ 1 \in 1 .. Len(path) /\ k + 1 # 1
      BY <1>1
  <2>2. path[k + 1] = path[1]
      BY <1>1
  <2> QED
      BY <2>1, <2>2 DEF NoRepeat
<1>4. \A k \in 1 .. l : G.items[p[k]] = H.items[p[k]]
  <2>1. SameBut(G, H, i, N)
      BY PutChangesOne
  <2> HIDE DEF G
  <2> QED
      BY <1>1, <1>3, <2>1 DEF SameBut
<1> HIDE DEF path, l
<1>5. PICK f : /\ Shifted(H, path, f, l + 1)
               /\ ShiftAlong(H, path, n) = PutNode(f[l + 1], path[l + 1], n)
  <2>1. Len(path) \in Nat
      BY <1>1
  <2> QED
      BY <1>1, <2>1, ShiftAlongIs
<1>6. PICK g : /\ Shifted(G, p, g, l)
               /\ ShiftAlong(G, p, n) = PutNode(g[l], p[l], n)
    BY <1>1, ShiftAlongIs DEF l
<1>7. /\ f[1] = H
      /\ \A k \in 1 .. l : f[k + 1] = PutNode(f[k], path[k], H.items[p[k]])
  <2>1. \A m \in 1 .. l + 1 :
           f[m] = IF m = 1 THEN H ELSE PutNode(f[m - 1], path[m - 1], H.items[path[m]])
      BY <1>5 DEF Shifted
  <2>2. 1 \in 1 .. l + 1
      BY <1>1
  <2>3. ASSUME NEW k \in 1 .. l
        PROVE  f[k + 1] = PutNode(f[k], path[k], H.items[p[k]])
    <3>1. k + 1 \in 1 .. l + 1 /\ k + 1 # 1 /\ k + 1 - 1 = k
        BY <1>1
    <3>2. f[k + 1] = PutNode(f[k + 1 - 1], path[k + 1 - 1], H.items[path[k + 1]])
        BY <2>1, <3>1
    <3> QED
        BY <1>1, <3>1, <3>2
  <2> QED
      BY <2>1, <2>2, <2>3
<1>8. /\ g[1] = G
      /\ \A k \in 1 .. l : k # 1 => g[k] = PutNode(g[k - 1], p[k - 1], G.items[p[k]])
  <2> HIDE DEF G
  <2>1. \A m \in 1 .. l :
           g[m] = IF m = 1 THEN G ELSE PutNode(g[m - 1], p[m - 1], G.items[p[m]])
      BY <1>6 DEF Shifted
  <2> QED
      BY <1>1, <1>2, <2>1
<1>9. \A k \in 1 .. l : f[k + 1] = g[k]
  <2> DEFINE Bad == {k \in 1 .. l : f[k + 1] # g[k]}
  <2>1. SUFFICES ASSUME Bad # {} PROVE FALSE
      OBVIOUS
  <2>2. Bad \subseteq Nat
      BY <1>1
  <2>3. PICK k \in Bad : \A m \in Bad : k <= m
      BY <2>1, <2>2, LeastNatural
  <2>4. CASE k = 1
    <3>1. f[2] = PutNode(H, i, H.items[p[1]])
        BY <1>1, <1>2, <1>7
    <3>2. f[2] = G
        BY <3>1 DEF G
    <3> HIDE DEF G
    <3> QED
        BY <1>8, <2>3, <2>4, <3>2
  <2>5. CASE k # 1
    <3>1. PICK j \in 1 .. l : j = k - 1 /\ j \notin Bad /\ k = j + 1
      <4>1. k \in 1 .. l
          BY <2>3
      <4> HIDE DEF Bad
      <4>2. k - 1 \in 1 .. l /\ ~ (k <= k - 1) /\ k = k - 1 + 1
          BY <1>1, <2>5, <4>1
      <4>3. k - 1 \notin Bad
          BY <2>3, <4>2
      <4> QED
          BY <4>2, <4>3
    <3>2. f[k] = g[j] /\ path[k] = p[j]
        BY <1>1, <3>1
    <3>3. f[k + 1] = PutNode(g[j], p[j], H.items[p[k]])
        BY <1>7, <2>3, <3>2
    <3>4. g[k] = PutNode(g[j], p[j], G.items[p[k]])
        BY <1>8, <2>3, <2>5, <3>1
    <3>5. G.items[p[k]] = H.items[p[k]]
        BY <1>4, <2>3
    <3> QED
        BY <2>3, <3>3, <3>4, <3>5
  <2> QED
      BY <2>4, <2>5
<1>10. l \in 1 .. l /\ path[l + 1] = p[l] /\ f[l + 1] = g[l]
    BY <1>1, <1>2, <1>9
<1> HIDE DEF G
<1>11. ShiftAlong(H, path, n) = ShiftAlong(G, p, n)
    BY <1>5, <1>6, <1>10
<1> QED
    BY <1>11 DEF path, G

(* AdjustNode's first loop, and Insert's. *)
LEMMA RaiseStops ==
    ASSUME NEW H, NEW n, NEW i \in Nat \ {0}, ~ MayRiseFrom(H, n, i)
    PROVE  RaiseFrom(H, n, i) = PutNode(H, i, n)
<1>1. UpPath(H, n, i) = Cons(i, <<>>)
    BY UpUnfolds
<1> QED
    BY <1>1, ShiftStops DEF RaiseFrom

LEMMA RaiseMoves ==
    ASSUME NEW N \in Nat, NEW H, HeapRecord(H, N), NEW n, NEW i \in 1 .. N,
           MayRiseFrom(H, n, i)
    PROVE  RaiseFrom(H, n, i) = RaiseFrom(PutNode(H, i, H.items[i \div 2]), n, i \div 2)
<1> DEFINE m == i \div 2
           p == UpPath(H, n, m)
           G == PutNode(H, i, H.items[m])
<1>1. m \in Nat \ {0} /\ m < i /\ i \in Nat \ {0} /\ i \in 0 .. N /\ m \in 0 .. N
    BY DEF MayRiseFrom
<1> HIDE DEF m
<1>2. UpPath(H, n, i) = Cons(i, p)
    BY <1>1, UpUnfolds DEF m
<1>3. p \in Seq(1 .. m) /\ p # <<>> /\ p[1] = m
    BY <1>1, UpFacts
<1>4. p \in Seq(0 .. N)
  <2>1. 1 .. m \subseteq 0 .. N
      BY <1>1
  <2> HIDE DEF p
  <2> QED
      BY <1>3, <2>1, SeqWidens
<1>5. NoRepeat(Cons(i, p))
  <2>1. NoRepeat(UpPath(H, n, i))
      BY <1>1, UpFacts
  <2> QED
      BY <1>2, <2>1
<1>6. UpPath(G, n, m) = p
  <2>1. SameBut(G, H, i, N)
      BY <1>1, PutChangesOne
  <2> HIDE DEF G
  <2>2. \A j \in 1 .. m - 1 : G.items[j] = H.items[j]
    <3>1. \A j \in 1 .. m - 1 : j \in 0 .. N /\ j # i
        BY <1>1
    <3> QED
        BY <2>1, <3>1 DEF SameBut
  <2> QED
      BY <1>1, <2>1, <2>2, UpSame DEF SameBut
<1> HIDE DEF p
<1>7. ShiftAlong(H, Cons(i, p), n) = ShiftAlong(PutNode(H, i, H.items[p[1]]), p, n)
    BY <1>1, <1>3, <1>4, <1>5, ShiftMoves
<1>8. RaiseFrom(H, n, i) = ShiftAlong(G, p, n)
    BY <1>2, <1>3, <1>7 DEF RaiseFrom
<1> HIDE DEF G
<1>9. RaiseFrom(H, n, i) = RaiseFrom(G, n, m)
    BY <1>6, <1>8 DEF RaiseFrom
<1> QED
    BY <1>9 DEF G, m

(* Its second loop. *)
LEMMA LowerStops ==
    ASSUME NEW H, H.num \in Nat, NEW n, NEW i \in 1 .. H.num, ~ MaySinkFrom(H, n, i)
    PROVE  LowerFrom(H, n, i) = PutNode(H, i, n)
<1>1. DownPath(H, n, i) = Cons(i, <<>>)
    BY DownUnfolds
<1> QED
    BY <1>1, ShiftStops DEF LowerFrom

LEMMA LowerMoves ==
    ASSUME NEW N \in Nat, NEW H, HeapRecord(H, N), NEW n, NEW i \in 1 .. H.num,
           MaySinkFrom(H, n, i)
    PROVE  LowerFrom(H, n, i) =
               LowerFrom(PutNode(H, i, H.items[MinChildOf(H, i)]), n, MinChildOf(H, i))
<1> DEFINE m == MinChildOf(H, i)
           p == DownPath(H, n, m)
           G == PutNode(H, i, H.items[m])
<1>1. H.num \in 0 .. N /\ H.num \in Nat
    BY DEF HeapRecord
<1>2. m \in 1 .. H.num /\ m > i
  <2>1. 2 * i <= H.num
      BY DEF MaySinkFrom
  <2> QED
      BY <1>1, <2>1, MinChildIs
<1> HIDE DEF m
<1>3. i \in 0 .. N /\ m \in 0 .. N
    BY <1>1, <1>2
<1>4. DownPath(H, n, i) = Cons(i, p)
    BY <1>1, DownUnfolds DEF m
<1>5. p \in Seq(1 .. H.num) /\ p # <<>> /\ p[1] = m
    BY <1>1, <1>2, DownFacts
<1>6. p \in Seq(0 .. N)
  <2>1. 1 .. H.num \subseteq 0 .. N
      BY <1>1
  <2> HIDE DEF p
  <2> QED
      BY <1>5, <2>1, SeqWidens
<1>7. NoRepeat(Cons(i, p))
  <2>1. NoRepeat(DownPath(H, n, i))
      BY <1>1, DownFacts
  <2> QED
      BY <1>4, <2>1
<1>8. DownPath(G, n, m) = p
  <2>1. SameBut(G, H, i, N)
      BY <1>3, PutChangesOne
  <2> HIDE DEF G
  <2>2. \A j \in 1 .. H.num : j > m => G.items[j] = H.items[j]
    <3>1. \A j \in 1 .. H.num : j > m => j \in 0 .. N /\ j # i
        BY <1>1, <1>2
    <3> QED
        BY <2>1, <3>1 DEF SameBut
  <2> QED
      BY <1>1, <1>2, <2>1, <2>2, DownSame DEF SameBut
<1> HIDE DEF p
<1>9. ShiftAlong(H, Cons(i, p), n) = ShiftAlong(PutNode(H, i, H.items[p[1]]), p, n)
    BY <1>3, <1>5, <1>6, <1>7, ShiftMoves
<1>10. LowerFrom(H, n, i) = ShiftAlong(G, p, n)
    BY <1>4, <1>5, <1>9 DEF LowerFrom
<1> HIDE DEF G
<1>11. LowerFrom(H, n, i) = LowerFrom(G, n, m)
    BY <1>8, <1>10 DEF LowerFrom
<1> QED
    BY <1>11 DEF G, m
=============================================================================

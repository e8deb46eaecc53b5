--------------------------- MODULE UserTableProofs ---------------------------
(***************************************************************************)
(* What TLAPS proves of the table of users, for every number of users,     *)
(* threads, nodes and cells and every size of the table: that it is a map  *)
(* to whoever uses it, that a search finds who was there and that a save   *)
(* can be read back, whatever threads insert and append meanwhile; where   *)
(* hash_address leads; and that the operations on lists do what their      *)
(* names say.                                                              *)
(***************************************************************************)
EXTENDS UserTable, SequenceTheorems, FiniteSetTheorems, WellFoundedInduction, TLAPS

-----------------------------------------------------------------------------
(***************************************************************************)
(* Why: the inductive invariants.  The chains end: there is an order that  *)
(* every next pointer goes down.                                           *)
(***************************************************************************)
Falls(cells) ==
    \E k \in Nat : \E rank \in [DOMAIN cells -> 0 .. k] :
        \A c \in DOMAIN cells : cells[c].next # Null => rank[cells[c].next] < rank[c]

(***************************************************************************)
(* Whoever inserts is alone, knows that its user is not there, and has a   *)
(* node that nobody has seen yet and that points to the first one.  A node *)
(* is in the bucket of its key, and the only one of its key.               *)
(***************************************************************************)
InsertInv ==
    \A t \in Thread : pc[t] \in {"insert", "link"} =>
        /\ loginLock = t
        /\ op[t][1] \in User /\ \A n \in Linked : nodes[n].key # op[t][1]
        /\ pc[t] = "link" =>
              /\ op[t][2] \in DOMAIN nodes \ Linked
              /\ nodes[op[t][2]] = [key |-> op[t][1], next |-> head[Of[op[t][1]]], followers |-> Null]

ChainInv ==
    /\ Falls(nodes)
    /\ \A a \in Bucket : \A n \in Range(Chain(a)) : Of[nodes[n].key] = a
    /\ \A m, n \in Linked : nodes[m].key = nodes[n].key => m = n
    /\ \A n \in DOMAIN nodes : n \in Linked \/ \E t \in Thread : pc[t] = "link" /\ op[t][2] = n

(***************************************************************************)
(* A search that was started for a user in the table has it before it.     *)
(***************************************************************************)
FindInv ==
    finder.of # Null =>
        /\ finder.there => \E n \in Range(Walk(nodes, finder.at)) : nodes[n].key = finder.of
        /\ finder.done => finder.at = Null \/ nodes[finder.at].key = finder.of

(***************************************************************************)
(* Whoever appends is alone at that user, has a cell in no list, and the   *)
(* lists share no cell.                                                    *)
(***************************************************************************)
Cells(n) == Range(Walk(heap, nodes[n].followers))

AppendInv ==
    \A t \in Thread : pc[t] \in {"create", "append"} =>
        /\ op[t][1] \in Linked /\ userLock[op[t][1]] = t
        /\ pc[t] = "create" => op[t][2] \in User
        /\ pc[t] = "append" =>
              /\ op[t][2] = nodes[op[t][1]].followers
              /\ op[t][3] \in DOMAIN heap /\ heap[op[t][3]].next = Null
              /\ \A n \in DOMAIN nodes : op[t][3] \notin Cells(n)
              /\ \A j \in Thread \ {t} : pc[j] = "append" => op[j][3] # op[t][3]

ListInv ==
    /\ Falls(heap)
    /\ \A m, n \in DOMAIN nodes : m # n => Cells(m) \cap Cells(n) = {}

(***************************************************************************)
(* The users that save_savefile will still write are in later buckets, or  *)
(* before it in this one.  It has written others, each once, and those     *)
(* that were there when it began are written or still to come.             *)
(***************************************************************************)
Ahead(u) ==
    /\ saver.pc = "bucket"
    /\ Of[u] > saver.bucket \/ \E n \in Range(Walk(nodes, saver.at)) : nodes[n].key = u

\* The k users in the file.
Written(k) ==
    /\ Len(file) = 2 * k
    /\ \A i \in 1 .. k : \E u \in DOMAIN Map :
          /\ file[2 * i - 1] = <<u>> /\ ~Ahead(u)
          /\ IsPrefix(file[2 * i], Map[u])
          /\ u \in DOMAIN saver.map => IsPrefix(saver.map[u], file[2 * i])
    /\ \A i, j \in 1 .. k : file[2 * i - 1] = file[2 * j - 1] => i = j
    /\ \A u \in DOMAIN saver.map : Ahead(u) \/ \E i \in 1 .. k : file[2 * i - 1] = <<u>>

SaveInv ==
    /\ saver.pc = "idle" => file = <<>>
    /\ saver.pc # "idle" =>
          /\ DOMAIN saver.map \subseteq DOMAIN Map
          /\ \A u \in DOMAIN saver.map :
                saver.map[u] \in Seq(User) /\ IsPrefix(saver.map[u], Map[u])
          /\ Range(Walk(nodes, saver.at)) \subseteq Range(Chain(saver.bucket))
          /\ \E k \in 0 .. Len(file) : Written(k)

(***************************************************************************)
(* read_savefile has the first j users of the file, and only them, or the  *)
(* followers of the next one do not fit.                                   *)
(***************************************************************************)
Pair(i) == [user |-> file[2 * i - 1][1], followers |-> file[2 * i]]

Kept(j) ==
    /\ \A i \in 1 .. j : i <= Len(loader.table) /\ loader.table[i] = Pair(i)
    /\ \/ loader.at = [line |-> 2 * j + 1, names |-> 0] /\ Len(loader.table) = j
       \/ 2 * j < Len(file) /\ ~(Len(file[2 * (j + 1)]) <= ListRoom)

LoadInv ==
    /\ saver.pc # "done" => loader = [at |-> [line |-> 1, names |-> 0], table |-> <<>>]
    /\ \E j \in Nat : 2 * j <= Len(file) /\ Kept(j)

UserTableInv == InsertInv /\ ChainInv /\ FindInv /\ AppendInv /\ ListInv

-----------------------------------------------------------------------------
LEMMA LeastNatural ==
    ASSUME NEW T, T \subseteq Nat, T # {}
    PROVE  \E k \in T : \A i \in T : k <= i
<1> DEFINE R == OpToRel(<, Nat)
<1>1. IsWellFoundedOn(R, Nat)
    BY NatLessThanWellFounded
<1>2. \A i, k \in Nat : i < k => <<i, k>> \in R
    BY DEF OpToRel
<1> HIDE DEF R
<1>3. PICK k \in T : \A i \in T : <<i, k>> \notin R
    BY <1>1, WFMin
<1>4. ASSUME NEW i \in T PROVE k <= i
  <2>1. ~(i < k) /\ i \in Nat /\ k \in Nat
    BY <1>2, <1>3
  <2> QED BY <2>1
<1> QED BY <1>4

-----------------------------------------------------------------------------
(* Lists in a heap of cells.                                                *)

Chains(cells) ==
    /\ Null \notin DOMAIN cells
    /\ \A c \in DOMAIN cells : cells[c].next \in DOMAIN cells \cup {Null}
    /\ Falls(cells)

\* What holds of the empty list, and of a cell when it holds of its next one,
\* holds of every list.
LEMMA ChainInduction ==
    ASSUME NEW cells, Chains(cells), NEW P, Null \in P,
           \A c \in DOMAIN cells : cells[c].next \in P => c \in P
    PROVE  \A c \in DOMAIN cells \cup {Null} : c \in P
<1>1. SUFFICES ASSUME NEW c \in DOMAIN cells, c \notin P PROVE FALSE
    OBVIOUS
<1>0. PICK k \in Nat : \E rank \in [DOMAIN cells -> 0 .. k] :
          \A d \in DOMAIN cells : cells[d].next # Null => rank[cells[d].next] < rank[d]
    BY DEF Chains, Falls
<1>2. PICK rank \in [DOMAIN cells -> 0 .. k] :
          \A d \in DOMAIN cells : cells[d].next # Null => rank[cells[d].next] < rank[d]
    BY <1>0
<1> DEFINE T == {rank[d] : d \in {e \in DOMAIN cells : e \notin P}}
<1>3. T \subseteq Nat /\ T # {}
    BY <1>1
<1>4. PICK least \in T : \A i \in T : least <= i
  <2> HIDE DEF T
  <2> QED BY <1>3, LeastNatural
<1>5. PICK d \in DOMAIN cells : d \notin P /\ least = rank[d]
    BY <1>4
<1>6. cells[d].next \in DOMAIN cells /\ cells[d].next \notin P
    BY <1>5 DEF Chains
<1>7. rank[cells[d].next] \in T
    BY <1>6
<1>8. rank[cells[d].next] < rank[d]
    BY <1>2, <1>5, <1>6 DEF Chains
<1>9. rank[cells[d].next] \in Nat /\ rank[d] \in Nat
    BY <1>5, <1>6
<1>10. least <= rank[cells[d].next]
  <2> HIDE DEF T
  <2> QED BY <1>4, <1>7
<1> QED BY <1>5, <1>8, <1>9, <1>10

\* The cells from each one of S on.
Walks(f, cells, S) ==
    f = [c \in S |-> IF c = Null THEN <<>> ELSE <<c>> \o f[cells[c].next]]

Below(cells, rank, k) == {c \in DOMAIN cells : rank[c] < k} \cup {Null}

LEMMA CanBeWalked ==
    ASSUME NEW cells, Chains(cells)
    PROVE  \E f : Walks(f, cells, DOMAIN cells \cup {Null})
<1>0. PICK k \in Nat : \E rank \in [DOMAIN cells -> 0 .. k] :
          \A d \in DOMAIN cells : cells[d].next # Null => rank[cells[d].next] < rank[d]
    BY DEF Chains, Falls
<1>1. PICK rank \in [DOMAIN cells -> 0 .. k] :
          \A d \in DOMAIN cells : cells[d].next # Null => rank[cells[d].next] < rank[d]
    BY <1>0
<1> DEFINE S(i) == Below(cells, rank, i)
           T == {i \in Nat : ~\E f : Walks(f, cells, S(i))}
<1>2. CASE T = {}
  <2>1. k + 1 \in Nat /\ k + 1 \notin T
    BY <1>2
  <2>2. S(k + 1) = DOMAIN cells \cup {Null}
    BY <1>1 DEF Below
  <2> QED BY <2>1, <2>2
<1>3. CASE T # {}
  <2>1. PICK least \in T : \A i \in T : least <= i
    <3>1. T \subseteq Nat
      OBVIOUS
    <3> HIDE DEF T
    <3> QED BY <1>3, <3>1, LeastNatural
  <2>2. least # 0
    <3>1. S(0) = {Null}
      BY <1>1 DEF Below
    <3>2. Walks([c \in {Null} |-> <<>>], cells, S(0))
      BY <3>1 DEF Walks
    <3> QED BY <2>1, <3>2
  <2>3. least - 1 \in Nat /\ least - 1 \notin T /\ least \in Nat
    BY <2>1, <2>2
  <2>4. PICK g : Walks(g, cells, S(least - 1))
    BY <2>3
  <2>5. \A c \in S(least) : c # Null => cells[c].next \in S(least - 1) /\ cells[c].next \in S(least)
    BY <1>1, <2>3 DEF Below, Chains
  <2>6. S(least - 1) \subseteq S(least)
    BY <1>1, <2>3 DEF Below
  <2> HIDE DEF S
  <2> DEFINE f == [c \in S(least) |-> IF c = Null THEN <<>> ELSE <<c>> \o g[cells[c].next]]
  <2>7. \A c \in S(least - 1) : f[c] = g[c]
    BY <2>4, <2>6 DEF Walks
  <2>8. \A c \in S(least) : f[c] = IF c = Null THEN <<>> ELSE <<c>> \o f[cells[c].next]
    BY <2>5, <2>7
  <2>9. f = [c \in S(least) |-> f[c]]
    OBVIOUS
  <2> HIDE DEF f
  <2>10. Walks(f, cells, S(least))
    BY <2>8, <2>9 DEF Walks
  <2> QED BY <2>1, <2>10
<1> QED BY <1>2, <1>3

LEMMA WalkDoes ==
    ASSUME NEW cells, Chains(cells)
    PROVE  /\ Walk(cells, Null) = <<>>
           /\ \A c \in DOMAIN cells : Walk(cells, c) = <<c>> \o Walk(cells, cells[c].next)
           /\ \A c \in DOMAIN cells \cup {Null} : Walk(cells, c) \in Seq(DOMAIN cells)
<1> DEFINE S == DOMAIN cells \cup {Null}
           f == CHOOSE f : f = [c \in S |-> IF c = Null THEN <<>> ELSE <<c>> \o f[cells[c].next]]
<1>1. f = [c \in S |-> IF c = Null THEN <<>> ELSE <<c>> \o f[cells[c].next]]
  <2>1. PICK g : g = [c \in S |-> IF c = Null THEN <<>> ELSE <<c>> \o g[cells[c].next]]
    BY CanBeWalked DEF Walks
  <2> QED BY <2>1
<1>2. \A c \in S : Walk(cells, c) = f[c]
    BY DEF Walk
<1> HIDE DEF f
<1>3. Walk(cells, Null) = <<>>
    BY <1>1, <1>2
<1>4. \A c \in DOMAIN cells : Walk(cells, c) = <<c>> \o Walk(cells, cells[c].next)
  <2> TAKE c \in DOMAIN cells
  <2>1. cells[c].next \in S /\ c \in S /\ c # Null
    BY DEF Chains
  <2>2. f[c] = <<c>> \o f[cells[c].next]
    BY <1>1, <2>1
  <2> QED BY <1>2, <2>1, <2>2
<1>5. \A c \in S : Walk(cells, c) \in Seq(DOMAIN cells)
  <2> DEFINE P == {c \in S : Walk(cells, c) \in Seq(DOMAIN cells)}
  <2>1. Null \in P
    BY <1>3
  <2>2. ASSUME NEW c \in DOMAIN cells, cells[c].next \in P PROVE c \in P
    <3>1. <<c>> \in Seq(DOMAIN cells) /\ Walk(cells, cells[c].next) \in Seq(DOMAIN cells)
      BY <2>2
    <3>2. <<c>> \o Walk(cells, cells[c].next) \in Seq(DOMAIN cells)
      BY <3>1, ConcatProperties
    <3> QED BY <1>4, <3>2
  <2> HIDE DEF P
  <2>3. \A c \in S : c \in P
    BY <2>1, <2>2, ChainInduction
  <2> QED BY <2>3 DEF P
<1> QED BY <1>3, <1>4, <1>5

LEMMA WalkMeets ==
    ASSUME NEW cells, Chains(cells)
    PROVE  /\ Range(Walk(cells, Null)) = {}
           /\ \A c \in DOMAIN cells :
                 Range(Walk(cells, c)) = {c} \cup Range(Walk(cells, cells[c].next))
           /\ \A c \in DOMAIN cells \cup {Null} : Range(Walk(cells, c)) \subseteq DOMAIN cells
<1>1. Range(Walk(cells, Null)) = {}
  <2>1. DOMAIN Walk(cells, Null) = {}
    BY WalkDoes
  <2> QED BY <2>1 DEF Range
<1>2. ASSUME NEW c \in DOMAIN cells
      PROVE  Range(Walk(cells, c)) = {c} \cup Range(Walk(cells, cells[c].next))
  <2>1. <<c>> \in Seq(DOMAIN cells) /\ Walk(cells, cells[c].next) \in Seq(DOMAIN cells)
    BY WalkDoes DEF Chains
  <2>2. Range(<<c>>) = {c}
    BY DEF Range
  <2>3. Walk(cells, c) = <<c>> \o Walk(cells, cells[c].next)
    BY WalkDoes
  <2>4. Range(<<c>> \o Walk(cells, cells[c].next)) = Range(<<c>>) \cup Range(Walk(cells, cells[c].next))
    BY <2>1, RangeConcatenation
  <2> QED BY <2>2, <2>3, <2>4
<1>3. \A c \in DOMAIN cells \cup {Null} : Range(Walk(cells, c)) \subseteq DOMAIN cells
    BY WalkDoes, RangeOfSeq
<1> QED BY <1>1, <1>2, <1>3

\* Where a search ends from each cell of S on.
Searches(f, cells, wanted, S) ==
    f = [c \in S |-> IF c = Null \/ c \in wanted THEN c ELSE f[cells[c].next]]

LEMMA CanBeSearched ==
    ASSUME NEW cells, Chains(cells), NEW wanted
    PROVE  \E f : Searches(f, cells, wanted, DOMAIN cells \cup {Null})
<1>0. PICK k \in Nat : \E rank \in [DOMAIN cells -> 0 .. k] :
          \A d \in DOMAIN cells : cells[d].next # Null => rank[cells[d].next] < rank[d]
    BY DEF Chains, Falls
<1>1. PICK rank \in [DOMAIN cells -> 0 .. k] :
          \A d \in DOMAIN cells : cells[d].next # Null => rank[cells[d].next] < rank[d]
    BY <1>0
<1> DEFINE S(i) == Below(cells, rank, i)
           T == {i \in Nat : ~\E f : Searches(f, cells, wanted, S(i))}
<1>2. CASE T = {}
  <2>1. k + 1 \in Nat /\ k + 1 \notin T
    BY <1>2
  <2>2. S(k + 1) = DOMAIN cells \cup {Null}
    BY <1>1 DEF Below
  <2> QED BY <2>1, <2>2
<1>3. CASE T # {}
  <2>1. PICK least \in T : \A i \in T : least <= i
    <3>1. T \subseteq Nat
      OBVIOUS
    <3> HIDE DEF T
    <3> QED BY <1>3, <3>1, LeastNatural
  <2>2. least # 0
    <3>1. S(0) = {Null}
      BY <1>1 DEF Below
    <3>2. Searches([c \in {Null} |-> c], cells, wanted, S(0))
      BY <3>1 DEF Searches
    <3> QED BY <2>1, <3>2
  <2>3. least - 1 \in Nat /\ least - 1 \notin T /\ least \in Nat
    BY <2>1, <2>2
  <2>4. PICK g : Searches(g, cells, wanted, S(least - 1))
    BY <2>3
  <2>5. \A c \in S(least) : c # Null => cells[c].next \in S(least - 1) /\ cells[c].next \in S(least)
    BY <1>1, <2>3 DEF Below, Chains
  <2>6. S(least - 1) \subseteq S(least)
    BY <1>1, <2>3 DEF Below
  <2> HIDE DEF S
  <2> DEFINE f == [c \in S(least) |-> IF c = Null \/ c \in wanted THEN c ELSE g[cells[c].next]]
  <2>7. \A c \in S(least - 1) : f[c] = g[c]
    BY <2>4, <2>6 DEF Searches
  <2>8. \A c \in S(least) : f[c] = IF c = Null \/ c \in wanted THEN c ELSE f[cells[c].next]
    BY <2>5, <2>7
  <2>9. f = [c \in S(least) |-> f[c]]
    OBVIOUS
  <2> HIDE DEF f
  <2>10. Searches(f, cells, wanted, S(least))
    BY <2>8, <2>9 DEF Searches
  <2> QED BY <2>1, <2>10
<1> QED BY <1>2, <1>3

LEMMA FirstDoes ==
    ASSUME NEW cells, Chains(cells), NEW wanted
    PROVE  \A c \in DOMAIN cells \cup {Null} :
              /\ First(cells, c, wanted) = Null <=> Range(Walk(cells, c)) \cap wanted = {}
              /\ First(cells, c, wanted) # Null =>
                    First(cells, c, wanted) \in Range(Walk(cells, c)) \cap wanted
<1> DEFINE S == DOMAIN cells \cup {Null}
           f == CHOOSE f : f = [c \in S |-> IF c = Null \/ c \in wanted THEN c ELSE f[cells[c].next]]
           P == {c \in S : /\ f[c] = Null <=> Range(Walk(cells, c)) \cap wanted = {}
                           /\ f[c] # Null => f[c] \in Range(Walk(cells, c)) \cap wanted}
<1>1. f = [c \in S |-> IF c = Null \/ c \in wanted THEN c ELSE f[cells[c].next]]
  <2>1. PICK g : Searches(g, cells, wanted, DOMAIN cells \cup {Null})
    BY CanBeSearched
  <2>2. g = [c \in S |-> IF c = Null \/ c \in wanted THEN c ELSE g[cells[c].next]]
    BY <2>1 DEF Searches
  <2> QED BY <2>2
<1>2. \A c \in S : First(cells, c, wanted) = f[c]
    BY DEF First
<1> HIDE DEF f
<1>3. Null \in P
    BY <1>1, WalkMeets
<1>4. ASSUME NEW c \in DOMAIN cells, cells[c].next \in P PROVE c \in P
  <2>1. Range(Walk(cells, c)) = {c} \cup Range(Walk(cells, cells[c].next))
    BY WalkMeets
  <2>2. c # Null
    BY DEF Chains
  <2>3. CASE c \in wanted
    <3>1. f[c] = c
      BY <1>1, <2>3
    <3> QED BY <2>1, <2>2, <2>3, <3>1
  <2>4. CASE c \notin wanted
    <3>1. f[c] = f[cells[c].next]
      BY <1>1, <2>2, <2>4
    <3> QED BY <1>4, <2>1, <2>4, <3>1
  <2> QED BY <2>3, <2>4
<1> HIDE DEF P
<1>5. \A c \in S : c \in P
    BY <1>3, <1>4, ChainInduction
<1> QED BY <1>2, <1>5 DEF P

\* A list is as it was when no next pointer of its cells has changed.
LEMMA WalkStays ==
    ASSUME NEW cells, NEW more, Chains(cells), Chains(more), DOMAIN cells \subseteq DOMAIN more,
           \A c \in DOMAIN cells : more[c].next = cells[c].next
    PROVE  \A c \in DOMAIN cells \cup {Null} : Walk(more, c) = Walk(cells, c)
<1> DEFINE P == {c \in DOMAIN cells \cup {Null} : Walk(more, c) = Walk(cells, c)}
<1>1. Null \in P
    BY WalkDoes
<1>2. ASSUME NEW c \in DOMAIN cells, cells[c].next \in P PROVE c \in P
  <2>1. Walk(more, c) = <<c>> \o Walk(more, more[c].next)
    BY WalkDoes
  <2>2. Walk(cells, c) = <<c>> \o Walk(cells, cells[c].next)
    BY WalkDoes
  <2> QED BY <1>2, <2>1, <2>2
<1> HIDE DEF P
<1>3. \A c \in DOMAIN cells \cup {Null} : c \in P
    BY <1>1, <1>2, ChainInduction
<1> QED BY <1>3 DEF P

LEMMA ValuesType ==
    ASSUME NEW cells, Chains(cells), NEW V, \A c \in DOMAIN cells : cells[c].val \in V,
           NEW list \in DOMAIN cells \cup {Null}
    PROVE  Values(cells, list) \in Seq(V)
<1> DEFINE met == Walk(cells, list)
<1>1. met \in Seq(DOMAIN cells)
    BY WalkDoes
<1>2. Values(cells, list) = [i \in DOMAIN met |-> cells[met[i]].val]
    BY DEF Values
<1> HIDE DEF met
<1>3. Len(met) \in Nat /\ DOMAIN met = 1 .. Len(met) /\ \A i \in 1 .. Len(met) : met[i] \in DOMAIN cells
    BY <1>1, LenProperties, ElementOfSeq
<1>4. Values(cells, list) \in [1 .. Len(met) -> V]
    BY <1>2, <1>3
<1> QED BY <1>3, <1>4

\* The loop of chained_list_append_end stops at a cell of the list that has no next one.
LEMMA WalkEnds ==
    ASSUME NEW cells, Chains(cells)
    PROVE  \A c \in DOMAIN cells :
              /\ EndOf(cells, c) \in Range(Walk(cells, c))
              /\ cells[EndOf(cells, c)].next = Null
<1> DEFINE P == {c \in DOMAIN cells : EndOf(cells, c) \in Range(Walk(cells, c))
                                      /\ cells[EndOf(cells, c)].next = Null} \cup {Null}
<1>1. ASSUME NEW c \in DOMAIN cells, cells[c].next \in P PROVE c \in P
  <2> DEFINE next == cells[c].next  rest == Walk(cells, next)
  <2>1. Walk(cells, c) = <<c>> \o rest /\ rest \in Seq(DOMAIN cells) /\ next \in DOMAIN cells \cup {Null}
    BY WalkDoes DEF Chains
  <2>2. Range(Walk(cells, c)) = {c} \cup Range(rest)
    BY WalkMeets
  <2>3. CASE next = Null
    <3>0. rest = <<>>
      BY <2>3, WalkDoes
    <3> HIDE DEF rest
    <3>1. Walk(cells, c) = <<c>>
      BY <2>1, <3>0, <<c>> \o <<>> = <<c>>
    <3>2. EndOf(cells, c) = c
      BY <3>1 DEF EndOf, Last
    <3> QED BY <2>2, <2>3, <3>2
  <2>4. CASE next # Null
    <3>1. next \in DOMAIN cells /\ EndOf(cells, next) \in Range(rest) /\ cells[EndOf(cells, next)].next = Null
      BY <1>1, <2>1, <2>4
    <3> HIDE DEF rest, next
    <3>2. rest = Walk(cells, next)
      BY DEF rest
    <3>3. rest # <<>> /\ Len(rest) \in Nat
      BY <2>1, <3>1 DEF Range
    <3>4. Len(rest) > 0
      BY <2>1, <3>3, EmptySeq
    <3>5. <<c>> \in Seq(DOMAIN cells) /\ Len(<<c>>) = 1
      OBVIOUS
    <3>6. Len(Walk(cells, c)) = 1 + Len(rest)
      BY <2>1, <3>5, ConcatProperties
    <3>7. Walk(cells, c)[1 + Len(rest)] = rest[Len(rest)]
      BY <2>1, <3>3, <3>4, <3>5, ConcatProperties
    <3>8. EndOf(cells, c) = EndOf(cells, next)
      BY <3>2, <3>6, <3>7 DEF EndOf, Last
    <3> QED BY <2>2, <3>1, <3>8
  <2> QED BY <2>3, <2>4
<1> HIDE DEF P
<1>2. \A c \in DOMAIN cells \cup {Null} : c \in P
  <2>1. Null \in P
    BY DEF P
  <2> QED BY <1>1, <2>1, ChainInduction
<1> QED BY <1>2 DEF P, Chains

\* A new cell is put before the list, or has no next one.
LEMMA ChainsGrow ==
    ASSUME NEW cells, Chains(cells), NEW n, n \notin DOMAIN cells, n # Null,
           NEW more, DOMAIN more = DOMAIN cells \cup {n},
           \A c \in DOMAIN cells : more[c].next = cells[c].next,
           more[n].next \in DOMAIN cells \cup {Null}
    PROVE  Chains(more)
<1>1. PICK k \in Nat : \E rank \in [DOMAIN cells -> 0 .. k] :
          \A d \in DOMAIN cells : cells[d].next # Null => rank[cells[d].next] < rank[d]
    BY DEF Chains, Falls
<1>2. PICK rank \in [DOMAIN cells -> 0 .. k] :
          \A d \in DOMAIN cells : cells[d].next # Null => rank[cells[d].next] < rank[d]
    BY <1>1
<1> DEFINE new == [d \in DOMAIN more |-> IF d = n THEN k + 1 ELSE rank[d]]
<1>3. new \in [DOMAIN more -> 0 .. k + 1]
    BY <1>2
<1>4. ASSUME NEW d \in DOMAIN more, more[d].next # Null PROVE new[more[d].next] < new[d]
  <2>1. CASE d = n
    BY <1>2, <1>4, <2>1
  <2>2. CASE d # n
    <3>1. d \in DOMAIN cells /\ more[d].next = cells[d].next /\ cells[d].next \in DOMAIN cells
      BY <1>4, <2>2 DEF Chains
    <3> QED BY <1>2, <1>4, <2>2, <3>1
  <2> QED BY <2>1, <2>2
<1>5. Falls(more)
  <2>1. k + 1 \in Nat
    OBVIOUS
  <2> HIDE DEF new
  <2> QED BY <1>3, <1>4, <2>1 DEF Falls
<1>6. Null \notin DOMAIN more /\ \A c \in DOMAIN more : more[c].next \in DOMAIN more \cup {Null}
    BY DEF Chains
<1> QED BY <1>5, <1>6 DEF Chains

\* The same cells with the same next pointers.
LEMMA ChainsStay ==
    ASSUME NEW cells, Chains(cells), NEW other, DOMAIN other = DOMAIN cells,
           \A c \in DOMAIN cells : other[c].next = cells[c].next
    PROVE  Chains(other)
    BY DEF Chains, Falls

\* Linking c to the last cell z of a list makes it the last of the list, and of no other.
LEMMA WalkLink ==
    ASSUME NEW cells, Chains(cells), NEW z \in DOMAIN cells, NEW c \in DOMAIN cells, c # z,
           cells[z].next = Null, cells[c].next = Null,
           NEW other, DOMAIN other = DOMAIN cells, other[z].next = c,
           \A d \in DOMAIN cells : d # z => other[d].next = cells[d].next
    PROVE  /\ Chains(other)
           /\ \A d \in DOMAIN cells \cup {Null} :
                 Walk(other, d) = IF z \in Range(Walk(cells, d)) THEN Append(Walk(cells, d), c)
                                  ELSE Walk(cells, d)
<1>1. Chains(other)
  <2>1. PICK k \in Nat : \E rank \in [DOMAIN cells -> 0 .. k] :
            \A d \in DOMAIN cells : cells[d].next # Null => rank[cells[d].next] < rank[d]
      BY DEF Chains, Falls
  <2>2. PICK rank \in [DOMAIN cells -> 0 .. k] :
            \A d \in DOMAIN cells : cells[d].next # Null => rank[cells[d].next] < rank[d]
      BY <2>1
  <2> DEFINE new == [d \in DOMAIN cells |-> IF d = c THEN 0 ELSE rank[d] + 1]
  <2>3. new \in [DOMAIN other -> 0 .. k + 1]
    BY <2>2
  <2>4. ASSUME NEW d \in DOMAIN other, other[d].next # Null PROVE new[other[d].next] < new[d]
    <3>1. d # c /\ new[d] = rank[d] + 1 /\ rank[d] \in Nat
      BY <2>2, <2>4
    <3>2. other[d].next \in DOMAIN cells
      BY <2>4 DEF Chains
    <3>3. CASE other[d].next = c
      BY <3>1, <3>3
    <3>4. CASE other[d].next # c
      <4>1. rank[other[d].next] < rank[d]
        BY <2>2, <2>4, <3>4
      <4>2. new[other[d].next] = rank[other[d].next] + 1 /\ rank[other[d].next] \in Nat
        BY <2>2, <3>2, <3>4
      <4> QED BY <3>1, <4>1, <4>2
    <3> QED BY <3>3, <3>4
  <2>5. k + 1 \in Nat
    OBVIOUS
  <2>6. Falls(other)
    <3> HIDE DEF new
    <3> QED BY <2>3, <2>4, <2>5 DEF Falls
  <2> QED BY <2>6 DEF Chains
<1> DEFINE was(d) == Walk(cells, d)
           P == {d \in DOMAIN cells \cup {Null} :
                    Walk(other, d) = IF z \in Range(was(d)) THEN Append(was(d), c) ELSE was(d)}
<1>2. Null \in P
    BY <1>1, WalkDoes, WalkMeets
<1>3. Walk(other, c) = <<c>>
  <2>1. Walk(other, c) = <<c>> \o Walk(other, other[c].next)
    BY <1>1, WalkDoes
  <2>2. Walk(other, other[c].next) = <<>>
    BY <1>1, WalkDoes
  <2> QED BY <2>1, <2>2, <<c>> \o <<>> = <<c>>
<1>4. ASSUME NEW d \in DOMAIN cells, cells[d].next \in P PROVE d \in P
  <2>1. Walk(other, d) = <<d>> \o Walk(other, other[d].next)
    BY <1>1, WalkDoes
  <2>2. was(d) = <<d>> \o was(cells[d].next) /\ was(cells[d].next) \in Seq(DOMAIN cells)
    BY WalkDoes DEF Chains
  <2>3. Range(was(d)) = {d} \cup Range(was(cells[d].next))
    BY WalkMeets
  <2>4. CASE d = z
    <3>1. was(z) = <<z>>
      BY <2>2, <2>4, WalkDoes
    <3>2. Walk(other, z) = <<z>> \o <<c>>
      BY <1>3, <2>1, <2>4
    <3>3. <<z>> \o <<c>> = Append(<<z>>, c)
      OBVIOUS
    <3> QED BY <2>3, <2>4, <3>1, <3>2, <3>3
  <2>5. CASE d # z
    <3> DEFINE rest == was(cells[d].next)
    <3>1. Walk(other, d) = <<d>> \o (IF z \in Range(rest) THEN Append(rest, c) ELSE rest)
      BY <1>4, <2>1, <2>5
    <3>2. z \in Range(was(d)) <=> z \in Range(rest)
      BY <2>3, <2>5
    <3> HIDE DEF rest
    <3>3. rest \in Seq(DOMAIN cells) /\ was(d) = <<d>> \o rest
      BY <2>2 DEF rest
    <3>4. <<d>> \o Append(rest, c) = Append(<<d>> \o rest, c)
      <4>1. <<d>> \in Seq(DOMAIN cells) /\ <<c>> \in Seq(DOMAIN cells)
        OBVIOUS
      <4>2. <<d>> \o rest \in Seq(DOMAIN cells)
        BY <3>3, <4>1, ConcatProperties
      <4>3. Append(rest, c) = rest \o <<c>> /\ Append(<<d>> \o rest, c) = (<<d>> \o rest) \o <<c>>
        BY <3>3, <4>2, AppendIsConcat
      <4> QED BY <3>3, <4>1, <4>3, ConcatAssociative
    <3> QED BY <3>1, <3>2, <3>3, <3>4
  <2> QED BY <2>4, <2>5
<1> HIDE DEF P
<1>5. \A d \in DOMAIN cells \cup {Null} : d \in P
    BY <1>2, <1>4, ChainInduction
<1>6. \A d \in DOMAIN cells \cup {Null} :
         Walk(other, d) = IF z \in Range(was(d)) THEN Append(was(d), c) ELSE was(d)
    BY <1>5 DEF P
<1> QED BY <1>1, <1>6

-----------------------------------------------------------------------------
(* hash_address.                                                            *)

Hashes(after, key, n) ==
    after = [i \in 0 .. n |-> IF i = 0 THEN 1 ELSE Remainder(after[i - 1] * key[i], HASH_SIZE) + 1]

LEMMA RemainderInTable ==
    ASSUME NEW a \in Nat
    PROVE  Remainder(a, HASH_SIZE) \in 0 .. HASH_SIZE - 1
<1>1. HASH_SIZE \in Nat \ {0}
    BY UserTableAssumption
<1> QED BY <1>1 DEF Remainder

LEMMA RemainderOfAny ==
    ASSUME NEW a \in Int
    PROVE  Remainder(a, HASH_SIZE) \in 1 - HASH_SIZE .. HASH_SIZE - 1
<1>1. HASH_SIZE \in Nat \ {0}
    BY UserTableAssumption
<1>2. CASE a >= 0
  <2>1. a % HASH_SIZE \in 0 .. HASH_SIZE - 1
    BY <1>1, <1>2
  <2> QED BY <1>1, <1>2, <2>1 DEF Remainder
<1>3. CASE ~(a >= 0)
  <2>1. (-a) % HASH_SIZE \in 0 .. HASH_SIZE - 1
    BY <1>1, <1>3
  <2> QED BY <1>1, <1>3, <2>1 DEF Remainder
<1> QED BY <1>2, <1>3

LEMMA StepInTable ==
    ASSUME NEW a \in 1 .. HASH_SIZE, NEW k \in Nat
    PROVE  Remainder(a * k, HASH_SIZE) + 1 \in 1 .. HASH_SIZE
<1>1. HASH_SIZE \in Nat /\ a \in Nat /\ k \in Nat
    BY UserTableAssumption
<1>2. a * k \in Nat
    BY <1>1
<1>3. Remainder(a * k, HASH_SIZE) \in 0 .. HASH_SIZE - 1
    BY <1>2, RemainderInTable
<1> QED BY <1>1, <1>3

LEMMA CanBeHashed ==
    ASSUME NEW key, NEW n \in Nat
    PROVE  \E after : Hashes(after, key, n)
<1> DEFINE T == {k \in Nat : ~\E after : Hashes(after, key, k)}
<1>1. SUFFICES ASSUME T # {} PROVE FALSE
    OBVIOUS
<1>2. PICK k \in T : \A i \in T : k <= i
    BY <1>1, LeastNatural
<1>3. k # 0
  <2>1. Hashes([i \in 0 .. 0 |-> 1], key, 0)
    BY DEF Hashes
  <2> QED BY <1>2, <2>1
<1>4. k - 1 \in Nat /\ k - 1 \notin T
    BY <1>2, <1>3
<1>5. PICK g : Hashes(g, key, k - 1)
    BY <1>4
<1> DEFINE f == [i \in 0 .. k |-> IF i = 0 THEN 1
                                  ELSE Remainder(g[i - 1] * key[i], HASH_SIZE) + 1]
<1>6. \A i \in 0 .. k - 1 : f[i] = g[i]
    BY <1>5 DEF Hashes
<1>7. f = [i \in 0 .. k |-> IF i = 0 THEN 1
                            ELSE Remainder(f[i - 1] * key[i], HASH_SIZE) + 1]
  <2>1. \A i \in 0 .. k : i # 0 => i - 1 \in 0 .. k - 1
    OBVIOUS
  <2>2. \A i \in 0 .. k : i # 0 => f[i - 1] = g[i - 1]
    BY <1>6, <2>1
  <2>3. \A i \in 0 .. k : f[i] = IF i = 0 THEN 1
                                 ELSE Remainder(f[i - 1] * key[i], HASH_SIZE) + 1
    BY <2>2
  <2> HIDE DEF f
  <2>4. f = [i \in 0 .. k |-> f[i]]
    BY DEF f
  <2> QED BY <2>3, <2>4
<1> HIDE DEF f
<1>8. Hashes(f, key, k)
    BY <1>7 DEF Hashes
<1> QED BY <1>2, <1>8

(***************************************************************************)
(* Every name of characters without a sign, of any length, has a bucket in *)
(* the table; every other is less than HASH_SIZE from it.                  *)
(***************************************************************************)
LEMMA AddressOfAny ==
    ASSUME NEW key \in Seq(Int)
    PROVE  Address(key) \in 1 - HASH_SIZE .. HASH_SIZE - 1
<1> DEFINE n == Len(key)
           a == CHOOSE after : Hashes(after, key, n)
<1>1. n \in Nat /\ \A i \in 1 .. n : key[i] \in Int
  <2>1. \A i \in 1 .. Len(key) : key[i] \in Int
    BY ElementOfSeq
  <2> QED BY <2>1, LenProperties
<1>2. Hashes(a, key, n)
    BY <1>1, CanBeHashed
<1>3. Addresses(key) = a[n]
    BY DEF Addresses, Hashes
<1> HIDE DEF a, n
<1>4. HASH_SIZE \in Nat /\ HASH_SIZE >= 1
    BY UserTableAssumption
<1> DEFINE T == {i \in 0 .. n : a[i] \notin 2 - HASH_SIZE .. HASH_SIZE}
<1>5. T = {}
  <2>1. SUFFICES ASSUME T # {} PROVE FALSE
    OBVIOUS
  <2>2. PICK k \in T : \A i \in T : k <= i
    <3>1. T \subseteq Nat
      BY <1>1
    <3> HIDE DEF T
    <3> QED BY <2>1, <3>1, LeastNatural
  <2>3. k \in 0 .. n /\ a[k] \notin 2 - HASH_SIZE .. HASH_SIZE
    BY <2>2
  <2>4. k # 0
    BY <1>1, <1>2, <1>4, <2>3 DEF Hashes
  <2>5. k - 1 \in 0 .. n /\ k - 1 \notin T /\ k \in 1 .. n
    BY <1>1, <2>2, <2>3, <2>4
  <2>6. a[k - 1] \in 2 - HASH_SIZE .. HASH_SIZE
    BY <2>5
  <2>7. a[k] = Remainder(a[k - 1] * key[k], HASH_SIZE) + 1
    BY <1>2, <2>3, <2>4 DEF Hashes
  <2>8. a[k - 1] * key[k] \in Int
    BY <1>1, <1>4, <2>5, <2>6
  <2>9. Remainder(a[k - 1] * key[k], HASH_SIZE) \in 1 - HASH_SIZE .. HASH_SIZE - 1
    BY <2>8, RemainderOfAny
  <2> QED BY <1>4, <2>3, <2>7, <2>9
<1>6. n \in 0 .. n
    BY <1>1
<1>7. Addresses(key) \in 2 - HASH_SIZE .. HASH_SIZE
    BY <1>3, <1>5, <1>6
<1> QED BY <1>4, <1>7 DEF Address

LEMMA AddressOfName ==
    ASSUME NEW key \in Seq(Nat)
    PROVE  Address(key) \in Bucket
<1> DEFINE n == Len(key)
           a == CHOOSE after : Hashes(after, key, n)
<1>1. n \in Nat /\ \A i \in 1 .. n : key[i] \in Nat
  <2>1. \A i \in 1 .. Len(key) : key[i] \in Nat
    BY ElementOfSeq
  <2> QED BY <2>1, LenProperties
<1>2. Hashes(a, key, n)
    BY <1>1, CanBeHashed
<1>3. Addresses(key) = a[n]
    BY DEF Addresses, Hashes
<1> HIDE DEF a, n
<1>4. HASH_SIZE \in Nat /\ HASH_SIZE >= 1
    BY UserTableAssumption
<1> DEFINE T == {i \in 0 .. n : a[i] \notin 1 .. HASH_SIZE}
<1>5. T = {}
  <2>1. SUFFICES ASSUME T # {} PROVE FALSE
    OBVIOUS
  <2>2. PICK k \in T : \A i \in T : k <= i
    <3>1. T \subseteq Nat
      BY <1>1
    <3> HIDE DEF T
    <3> QED BY <2>1, <3>1, LeastNatural
  <2>3. k \in 0 .. n /\ a[k] \notin 1 .. HASH_SIZE
    BY <2>2
  <2>4. k # 0
    BY <1>1, <1>2, <1>4, <2>3 DEF Hashes
  <2>5. k - 1 \in 0 .. n /\ k - 1 \notin T /\ k \in 1 .. n
    BY <1>1, <2>2, <2>3, <2>4
  <2>6. a[k - 1] \in 1 .. HASH_SIZE
    BY <2>5
  <2>7. a[k] = Remainder(a[k - 1] * key[k], HASH_SIZE) + 1
    BY <1>2, <2>3, <2>4 DEF Hashes
  <2> QED BY <1>1, <2>3, <2>5, <2>6, <2>7, StepInTable
<1>6. n \in 0 .. n
    BY <1>1
<1>7. Addresses(key) \in 1 .. HASH_SIZE
    BY <1>3, <1>5, <1>6
<1> QED BY <1>4, <1>7 DEF Address, Bucket

LEMMA UsersInTable == Of \in [User -> Bucket]
<1> SUFFICES ASSUME NEW u \in User PROVE Address(Key[u]) \in Bucket
    BY DEF Of
<1>1. Key[u] \in Seq(1 .. 127)
    BY UserTableAssumption
<1>2. Key[u] \in Seq(Nat)
  <2>1. \A i \in 1 .. Len(Key[u]) : Key[u][i] \in 1 .. 127
    BY <1>1, ElementOfSeq
  <2>2. \A c \in 1 .. 127 : c \in Nat
    OBVIOUS
  <2>3. \A i \in 1 .. Len(Key[u]) : Key[u][i] \in Nat
    BY ONLY <2>1, <2>2
  <2>4. Key[u] = [i \in 1 .. Len(Key[u]) |-> Key[u][i]] /\ Len(Key[u]) \in Nat
    BY <1>1
  <2> QED BY <2>3, <2>4
<1> QED BY <1>2, AddressOfName

(***************************************************************************)
(* "So that we can access the table correctly": the address of every name  *)
(* of 7-bit characters is in the table, and that of every other name less  *)
(* than HASH_SIZE from it, in every state.                                 *)
(***************************************************************************)
THEOREM NamesAreInTable == Spec => []AddressInTable
<1>1. AddressInTable
  <2>1. SUFFICES ASSUME NEW l \in 0 .. MaxName, NEW key \in [1 .. l -> Char]
                 PROVE  /\ Address(key) \in 1 - HASH_SIZE .. HASH_SIZE - 1
                        /\ (\A i \in 1 .. l : key[i] >= 0) => Address(key) \in Bucket
    BY DEF AddressInTable
  <2>2. \A i \in 1 .. l : key[i] \in Int
    <3>1. \A i \in 1 .. l : key[i] \in Char
      OBVIOUS
    <3>2. Char \subseteq Int
      <4>1. \A c \in -128 .. 127 : c \in Int
        OBVIOUS
      <4> QED BY <4>1, UserTableAssumption
    <3> QED BY <3>1, <3>2
  <2>3. l \in Nat /\ key = [i \in 1 .. l |-> key[i]]
    BY UserTableAssumption
  <2>4. key \in Seq(Int)
    BY <2>2, <2>3
  <2>5. ASSUME \A i \in 1 .. l : key[i] >= 0 PROVE key \in Seq(Nat)
    <3>1. \A i \in 1 .. l : key[i] \in Nat
      BY <2>2, <2>5
    <3> QED BY <2>3, <3>1
  <2> QED BY <2>4, <2>5, AddressOfAny, AddressOfName
<1> QED BY <1>1, PTL

-----------------------------------------------------------------------------
(* The table and the lists in a state of the invariant.                     *)

IInv == TypeOK /\ UserTableInv

LEMMA TableChains ==
    ASSUME IInv
    PROVE  /\ Chains(nodes) /\ Chains(heap)
           /\ \A a \in Bucket : head[a] \in DOMAIN nodes \cup {Null}
           /\ \A n \in DOMAIN nodes : nodes[n].followers \in DOMAIN heap \cup {Null}
           /\ Linked \subseteq DOMAIN nodes
           /\ \A n \in DOMAIN nodes : Cells(n) \subseteq DOMAIN heap
<1>1. Chains(nodes)
    BY UserTableAssumption DEF IInv, TypeOK, UserTableInv, ChainInv, Chains
<1>2. Chains(heap)
    BY ChainedListAssumption DEF IInv, TypeOK, UserTableInv, ListInv, Chains
<1>3. \A a \in Bucket : head[a] \in DOMAIN nodes \cup {Null}
    BY DEF IInv, TypeOK
<1>4. \A n \in DOMAIN nodes : nodes[n].followers \in DOMAIN heap \cup {Null}
    BY DEF IInv, TypeOK
<1>5. Linked \subseteq DOMAIN nodes
    BY <1>1, <1>3, WalkMeets DEF Linked, Chain
<1>6. \A n \in DOMAIN nodes : Cells(n) \subseteq DOMAIN heap
    BY <1>2, <1>4, WalkMeets DEF Cells
<1> QED BY <1>1, <1>2, <1>3, <1>4, <1>5, <1>6

\* A node is in the chain of the bucket of its key.
LEMMA LinkedInBucket ==
    ASSUME IInv
    PROVE  \A n : n \in Linked <=> n \in DOMAIN nodes /\ n \in Range(Chain(Of[nodes[n].key]))
<1>1. ASSUME NEW n \in Linked PROVE n \in Range(Chain(Of[nodes[n].key]))
    BY <1>1 DEF Linked, IInv, UserTableInv, ChainInv
<1>2. ASSUME NEW n \in DOMAIN nodes, n \in Range(Chain(Of[nodes[n].key])) PROVE n \in Linked
  <2>1. nodes[n].key \in User
    BY DEF IInv, TypeOK
  <2>2. Of[nodes[n].key] \in Bucket
    BY <2>1, UsersInTable
  <2> QED BY <1>2, <2>2 DEF Linked
<1> QED BY <1>1, <1>2, TableChains

\* hash_find finds the node of the user, if there is one.
LEMMA FindsNode ==
    ASSUME IInv, NEW u \in User
    PROVE  /\ FindNode(u) = Null <=> \A n \in Linked : nodes[n].key # u
           /\ FindNode(u) # Null => FindNode(u) \in Linked /\ nodes[FindNode(u)].key = u
           /\ \A n \in Linked : nodes[n].key = u => FindNode(u) = n
<1> DEFINE met == Range(Chain(Of[u]))  wanted == {n \in DOMAIN nodes : nodes[n].key = u}
<1>1. Of[u] \in Bucket /\ head[Of[u]] \in DOMAIN nodes \cup {Null}
    BY UsersInTable, TableChains
<1>2. \A n : n \in Linked /\ nodes[n].key = u <=> n \in met \cap wanted
    BY LinkedInBucket, TableChains
<1>3. /\ FindNode(u) = Null <=> met \cap wanted = {}
      /\ FindNode(u) # Null => FindNode(u) \in met \cap wanted
    BY <1>1, TableChains, FirstDoes DEF FindNode, Chain
<1> HIDE DEF met, wanted
<1>4. /\ FindNode(u) = Null <=> \A n \in Linked : nodes[n].key # u
      /\ FindNode(u) # Null => FindNode(u) \in Linked /\ nodes[FindNode(u)].key = u
    BY <1>2, <1>3
<1>5. \A n \in Linked : nodes[n].key = u => FindNode(u) = n
    BY <1>4 DEF IInv, UserTableInv, ChainInv
<1> QED BY <1>4, <1>5

LEMMA FreshIsNew ==
    ASSUME IInv, Room(heap)
    PROVE  Fresh(heap) \in Cell /\ Fresh(heap) \notin DOMAIN heap /\ Fresh(heap) # Null
    BY ChainedListAssumption DEF Fresh, Room, IInv, TypeOK

-----------------------------------------------------------------------------
(* What the steps of hash_insert and chained_list_append_end do to chains   *)
(* and lists.                                                               *)

\* Nothing but followers changes in the nodes that are there, and nothing in the table.
LEMMA TableStays ==
    ASSUME IInv, Chains(nodes'), DOMAIN nodes \subseteq DOMAIN nodes', UNCHANGED head,
           \A m \in DOMAIN nodes : nodes'[m].next = nodes[m].next
    PROVE  /\ \A x \in DOMAIN nodes \cup {Null} : Walk(nodes', x) = Walk(nodes, x)
           /\ \A a \in Bucket : Chain(a)' = Chain(a)
           /\ Linked' = Linked
<1>1. \A x \in DOMAIN nodes \cup {Null} : Walk(nodes', x) = Walk(nodes, x)
    BY TableChains, WalkStays
<1>2. \A a \in Bucket : Chain(a)' = Chain(a)
    BY <1>1, TableChains DEF Chain
<1>3. Linked' = Linked
    BY <1>2 DEF Linked, Bucket
<1> QED BY <1>1, <1>2, <1>3

LEMMA InsertNodeDoes ==
    ASSUME IInv, NEW t \in Thread, InsertNode(t)
    PROVE  \E n \in Node \ DOMAIN nodes :
              /\ DOMAIN nodes' = DOMAIN nodes \cup {n}
              /\ nodes'[n] = [key |-> op[t][1], next |-> head[Of[op[t][1]]], followers |-> Null]
              /\ \A m \in DOMAIN nodes : nodes'[m] = nodes[m]
              /\ pc' = [pc EXCEPT ![t] = "link"] /\ op' = [op EXCEPT ![t] = <<op[t][1], n>>]
              /\ op[t][1] \in User /\ Of[op[t][1]] \in Bucket
              /\ Chains(nodes')
<1>1. PICK n \in Node \ DOMAIN nodes :
        /\ nodes' = [m \in DOMAIN nodes \cup {n} |->
              IF m = n THEN [key |-> op[t][1], next |-> head[Of[op[t][1]]], followers |-> Null]
              ELSE nodes[m]]
        /\ Goto(t, "link", <<op[t][1], n>>)
    BY DEF InsertNode
<1>2. op[t][1] \in User /\ Of[op[t][1]] \in Bucket
    BY UsersInTable DEF InsertNode, IInv, UserTableInv, InsertInv
<1>3. /\ DOMAIN nodes' = DOMAIN nodes \cup {n}
      /\ nodes'[n] = [key |-> op[t][1], next |-> head[Of[op[t][1]]], followers |-> Null]
      /\ \A m \in DOMAIN nodes : nodes'[m] = nodes[m]
    BY <1>1
<1>4. n # Null
    BY UserTableAssumption
<1>5. head[Of[op[t][1]]] \in DOMAIN nodes \cup {Null}
    BY <1>2, TableChains
<1>6. Chains(nodes')
  <2>1. \A m \in DOMAIN nodes : nodes'[m].next = nodes[m].next
    BY <1>3
  <2>2. nodes'[n].next \in DOMAIN nodes \cup {Null}
    BY <1>3, <1>5
  <2> QED BY <1>3, <1>4, <2>1, <2>2, TableChains, ChainsGrow
<1> QED BY <1>1, <1>2, <1>3, <1>6 DEF Goto

LEMMA InsertHeadDoes ==
    ASSUME IInv, NEW t \in Thread, InsertHead(t)
    PROVE  \E u \in User, n \in DOMAIN nodes \ Linked :
              /\ op[t][1] = u /\ op[t][2] = n
              /\ Of[u] \in Bucket
              /\ nodes[n] = [key |-> u, next |-> head[Of[u]], followers |-> Null]
              /\ \A m \in Linked : nodes[m].key # u
              /\ Range(Chain(Of[u])') = Range(Chain(Of[u])) \cup {n}
              /\ \A a \in Bucket \ {Of[u]} : Chain(a)' = Chain(a)
              /\ Linked' = Linked \cup {n}
              /\ head'[Of[u]] = n /\ nodes' = nodes
<1>1. PICK u \in User, n \in DOMAIN nodes \ Linked :
      /\ op[t][1] = u /\ op[t][2] = n
      /\ nodes[n] = [key |-> u, next |-> head[Of[u]], followers |-> Null]
      /\ \A m \in Linked : nodes[m].key # u
    BY DEF InsertHead, IInv, UserTableInv, InsertInv
<1>2. Of[u] \in Bucket
    BY <1>1, UsersInTable
<1>3. /\ head'[Of[u]] = n /\ \A a \in Bucket \ {Of[u]} : head'[a] = head[a]
      /\ nodes' = nodes
    BY <1>1, <1>2 DEF InsertHead, IInv, TypeOK
<1>4. Range(Chain(Of[u])') = Range(Chain(Of[u])) \cup {n}
  <2>1. Range(Walk(nodes, n)) = {n} \cup Range(Walk(nodes, nodes[n].next))
    BY <1>1, TableChains, WalkMeets
  <2>2. nodes[n].next = head[Of[u]]
    BY <1>1
  <2>3. Chain(Of[u])' = Walk(nodes, n)
    BY <1>3 DEF Chain
  <2> QED BY <2>1, <2>2, <2>3 DEF Chain
<1>5. \A a \in Bucket \ {Of[u]} : Chain(a)' = Chain(a)
    BY <1>3 DEF Chain
<1>6. Linked' = Linked \cup {n}
  <2>1. \A x : x \in Linked' <=> \E a \in Bucket : x \in Range(Chain(a)')
    BY DEF Linked, Bucket
  <2>2. \A x : x \in Linked <=> \E a \in Bucket : x \in Range(Chain(a))
    BY DEF Linked
  <2>3. \A x : x \in Linked' <=> x \in Linked \/ x = n
    BY <1>2, <1>4, <1>5, <2>1, <2>2
  <2> QED BY <2>3
<1> QED BY <1>1, <1>2, <1>3, <1>4, <1>5, <1>6

LEMMA AppendCreateDoes ==
    ASSUME IInv, NEW t \in Thread, AppendCreate(t)
    PROVE  LET c == Fresh(heap) IN
           /\ c \in Cell /\ c \notin DOMAIN heap /\ c # Null
           /\ DOMAIN heap' = DOMAIN heap \cup {c}
           /\ heap'[c] = [val |-> op[t][2], next |-> Null]
           /\ \A d \in DOMAIN heap : heap'[d] = heap[d]
           /\ Chains(heap')
           /\ \A x \in DOMAIN heap \cup {Null} : Walk(heap', x) = Walk(heap, x)
<1> DEFINE c == Fresh(heap)
<1>1. c \in Cell /\ c \notin DOMAIN heap /\ c # Null
    BY FreshIsNew DEF AppendCreate
<1>2. /\ DOMAIN heap' = DOMAIN heap \cup {c}
      /\ heap'[c] = [val |-> op[t][2], next |-> Null]
      /\ \A d \in DOMAIN heap : heap'[d] = heap[d]
    BY <1>1 DEF AppendCreate, Create
<1> HIDE DEF c
<1>3. Chains(heap')
  <2>1. \A m \in DOMAIN heap : heap'[m].next = heap[m].next
    BY <1>2
  <2>2. heap'[c].next \in DOMAIN heap \cup {Null}
    BY <1>2
  <2> QED BY <1>1, <1>2, <2>1, <2>2, TableChains, ChainsGrow
<1>4. \A x \in DOMAIN heap \cup {Null} : Walk(heap', x) = Walk(heap, x)
    BY <1>2, <1>3, TableChains, WalkStays
<1> QED BY <1>1, <1>2, <1>3, <1>4 DEF c

\* What AppendLink(t) does to node n and cell c.
Appends(t, n, c) ==
    /\ op[t][1] = n /\ op[t][3] = c
    /\ userLock[n] = t /\ userLock' = [userLock EXCEPT ![n] = Null]
    /\ heap[c].next = Null /\ \A m \in DOMAIN nodes : c \notin Cells(m)
    /\ DOMAIN nodes' = DOMAIN nodes /\ \A m \in DOMAIN nodes \ {n} : nodes'[m] = nodes[m]
    /\ nodes'[n] = [key |-> nodes[n].key, next |-> nodes[n].next, followers |-> nodes'[n].followers]
    /\ nodes'[n].followers \in DOMAIN heap
    /\ DOMAIN heap' = DOMAIN heap
    /\ \A d \in DOMAIN heap : d \notin Cells(n) => heap'[d] = heap[d]
    /\ \A d \in DOMAIN heap : heap'[d] \in [val : {heap[d].val}, next : {heap[d].next, c}]
    /\ Chains(nodes') /\ Chains(heap')
    /\ \A m \in DOMAIN nodes \ {n} : Walk(heap', nodes'[m].followers) = Walk(heap, nodes[m].followers)
    /\ Walk(heap', nodes'[n].followers) = Append(Walk(heap, nodes[n].followers), c)

LEMMA AppendLinkDoes ==
    ASSUME IInv, NEW t \in Thread, AppendLink(t)
    PROVE  \E n \in Linked, c \in DOMAIN heap : Appends(t, n, c)
<1>1. PICK n \in Linked, c \in DOMAIN heap :
          /\ op[t][1] = n /\ op[t][2] = nodes[n].followers /\ op[t][3] = c
          /\ userLock[n] = t
          /\ heap[c].next = Null /\ \A m \in DOMAIN nodes : c \notin Cells(m)
    BY DEF AppendLink, IInv, UserTableInv, AppendInv
<1>2. PICK list : list = nodes[n].followers
    OBVIOUS
<1>3. n \in DOMAIN nodes /\ list \in DOMAIN heap \cup {Null} /\ c # Null
    BY <1>2, TableChains DEF Chains
<1>4. /\ heap' = Link(heap, list, c)
      /\ nodes' = [nodes EXCEPT ![n].followers = Start(list, c)]
      /\ userLock' = [userLock EXCEPT ![n] = Null]
    BY <1>1, <1>2 DEF AppendLink
<1>5. Start(list, c) \in DOMAIN heap
    BY <1>3 DEF Start
<1>6. nodes[n] \in [key : User, next : DOMAIN nodes \cup {Null}, followers : DOMAIN heap \cup {Null}]
    BY <1>3 DEF IInv, TypeOK
<1>7. /\ DOMAIN nodes' = DOMAIN nodes /\ \A m \in DOMAIN nodes \ {n} : nodes'[m] = nodes[m]
      /\ nodes'[n] = [key |-> nodes[n].key, next |-> nodes[n].next, followers |-> Start(list, c)]
    BY <1>3, <1>4, <1>6
<1>8. Chains(nodes')
  <2>1. \A m \in DOMAIN nodes : nodes'[m].next = nodes[m].next
    BY <1>7
  <2> QED BY <1>7, <2>1, TableChains, ChainsStay
<1>9. \A d \in DOMAIN heap : heap[d] = [val |-> heap[d].val, next |-> heap[d].next]
    BY DEF IInv, TypeOK
<1>10. CASE list = Null
  <2>1. heap' = heap /\ nodes'[n].followers = c
    BY <1>4, <1>7, <1>10 DEF Link, Start
  <2>2. Walk(heap, list) = <<>>
    BY <1>10, TableChains, WalkDoes
  <2>3. Walk(heap, c) = <<c>> \o <<>>
    <3>1. Walk(heap, c) = <<c>> \o Walk(heap, heap[c].next)
      BY TableChains, WalkDoes
    <3>2. Walk(heap, heap[c].next) = <<>>
      BY <1>1, TableChains, WalkDoes
    <3> QED BY <3>1, <3>2
  <2>4. Walk(heap', nodes'[n].followers) = Append(Walk(heap, nodes[n].followers), c)
    BY <1>2, <2>1, <2>2, <2>3
  <2>5. Chains(heap')
    BY <2>1, TableChains
  <2>6. \A d \in DOMAIN heap : heap'[d] \in [val : {heap[d].val}, next : {heap[d].next, c}]
    BY <1>9, <2>1
  <2>7. \A m \in DOMAIN nodes \ {n} :
            Walk(heap', nodes'[m].followers) = Walk(heap, nodes[m].followers)
    BY <1>7, <2>1
  <2>8. DOMAIN heap' = DOMAIN heap /\ \A d \in DOMAIN heap : heap'[d] = heap[d]
    BY <2>1
  <2>9. nodes'[n] = [key |-> nodes[n].key, next |-> nodes[n].next, followers |-> nodes'[n].followers]
        /\ nodes'[n].followers \in DOMAIN heap
    BY <1>7, <1>5
  <2>10. Appends(t, n, c)
    BY <1>1, <1>3, <1>4, <1>7, <1>8, <2>4, <2>5, <2>6, <2>7, <2>8, <2>9 DEF Appends
  <2> QED BY <2>10
<1>11. CASE list # Null
  <2> DEFINE z == EndOf(heap, list)
  <2>1. list \in DOMAIN heap
    BY <1>3, <1>11
  <2>2. z \in Cells(n) /\ heap[z].next = Null
    BY <1>2, <2>1, TableChains, WalkEnds DEF Cells
  <2>3. z \in DOMAIN heap /\ z # c
    BY <1>1, <1>3, <2>2, TableChains
  <2>4. heap' = [heap EXCEPT ![z].next = c] /\ nodes'[n].followers = list
    BY <1>4, <1>7, <1>11 DEF Link, Start
  <2> HIDE DEF z
  <2>5. /\ DOMAIN heap' = DOMAIN heap
        /\ \A d \in DOMAIN heap : d # z => heap'[d] = heap[d]
        /\ heap'[z] = [val |-> heap[z].val, next |-> c]
    BY <1>9, <2>3, <2>4
  <2>6. /\ Chains(heap')
        /\ \A d \in DOMAIN heap \cup {Null} :
              Walk(heap', d) = IF z \in Range(Walk(heap, d)) THEN Append(Walk(heap, d), c)
                               ELSE Walk(heap, d)
    <3>1. heap'[z].next = c /\ \A d \in DOMAIN heap : d # z => heap'[d].next = heap[d].next
      BY <2>5
    <3> QED BY <1>1, <2>2, <2>3, <2>5, <3>1, TableChains, WalkLink
  <2>7. Walk(heap', nodes'[n].followers) = Append(Walk(heap, nodes[n].followers), c)
    BY <1>2, <2>1, <2>2, <2>4, <2>6 DEF Cells
  <2>8. \A m \in DOMAIN nodes \ {n} :
            Walk(heap', nodes'[m].followers) = Walk(heap, nodes[m].followers)
    <3> TAKE m \in DOMAIN nodes \ {n}
    <3>1. z \notin Cells(m)
      BY <1>3, <2>2 DEF IInv, UserTableInv, ListInv
    <3>2. nodes[m].followers \in DOMAIN heap \cup {Null}
      BY TableChains
    <3> QED BY <1>7, <2>6, <3>1, <3>2 DEF Cells
  <2>9. \A d \in DOMAIN heap : heap'[d] \in [val : {heap[d].val}, next : {heap[d].next, c}]
    <3> TAKE d \in DOMAIN heap
    <3>1. CASE d = z
      BY <2>5, <3>1
    <3>2. CASE d # z
      BY <1>9, <2>5, <3>2
    <3> QED BY <3>1, <3>2
  <2>10. \A d \in DOMAIN heap : d \notin Cells(n) => heap'[d] = heap[d]
    BY <2>2, <2>5
  <2>11. nodes'[n] = [key |-> nodes[n].key, next |-> nodes[n].next, followers |-> nodes'[n].followers]
        /\ nodes'[n].followers \in DOMAIN heap
    BY <1>7, <1>5
  <2>12. Appends(t, n, c)
    BY <1>1, <1>3, <1>4, <1>7, <1>8, <2>5, <2>6, <2>7, <2>8, <2>9, <2>10, <2>11 DEF Appends
  <2> QED BY <2>12
<1> QED BY <1>10, <1>11

-----------------------------------------------------------------------------
(* The invariant is kept by every step.                                     *)

LEMMA InitInv == Init => IInv
<1> SUFFICES ASSUME Init PROVE IInv
    OBVIOUS
<1>1. /\ DOMAIN nodes = {} /\ DOMAIN heap = {}
      /\ head = [a \in Bucket |-> Null] /\ pc = [t \in Thread |-> "idle"]
      /\ finder.of = Null
    BY DEF Init
<1>2. TypeOK
  <2>1. HASH_SIZE \in Nat \ {0}
    BY UserTableAssumption
  <2>2. 0 \in Bucket
    BY <2>1 DEF Bucket
  <2>3. op \in [Thread -> Seq(User \cup Node \cup Cell \cup {Null})]
    BY DEF Init
  <2> QED BY <1>1, <2>2, <2>3 DEF Init, TypeOK
<1>3. Falls(nodes) /\ Falls(heap)
  <2>1. <<>> \in [{} -> 0 .. 0] /\ 0 \in Nat
    OBVIOUS
  <2> QED BY <1>1, <2>1 DEF Falls
<1>4. Linked = {}
  <2>1. Chains(nodes)
    BY <1>1, <1>3 DEF Chains
  <2> QED BY <1>1, <2>1, WalkMeets DEF Linked, Chain
<1>5. \A a \in Bucket : Range(Chain(a)) = {}
    BY <1>4 DEF Linked
<1>6. InsertInv /\ AppendInv /\ FindInv /\ ListInv
    BY <1>1, <1>3 DEF InsertInv, AppendInv, FindInv, ListInv
<1>7. ChainInv
    BY <1>1, <1>3, <1>4, <1>5 DEF ChainInv
<1> QED BY <1>2, <1>6, <1>7 DEF IInv, UserTableInv

\* Steps that write neither the table nor the nodes, and neither nodes nor cells.
LEMMA SameTable ==
    ASSUME UNCHANGED <<head, nodes>>
    PROVE  Linked' = Linked /\ \A a \in Bucket : Chain(a)' = Chain(a)
    BY DEF Linked, Chain, Bucket

LEMMA SameLists ==
    ASSUME UNCHANGED <<nodes, heap>>
    PROVE  (\A n : Cells(n)' = Cells(n)) /\ (ListInv => ListInv')
    BY DEF Cells, ListInv

LEMMA LoginFindKeeps ==
    ASSUME IInv, NEW t \in Thread, NEW u \in User, LoginFind(t, u)
    PROVE  IInv'
<1>1. /\ pc[t] = "idle" /\ loginLock = Null /\ FindNode(u) = Null /\ loginLock' = t
      /\ pc' = [pc EXCEPT ![t] = "insert"] /\ op' = [op EXCEPT ![t] = <<u>>]
      /\ UNCHANGED <<head, nodes, heap, userLock, asked, finder, saver, file, loader>>
    BY DEF LoginFind, Goto, readVars
<1>2. pc'[t] = "insert" /\ op'[t] = <<u>> /\ \A j \in Thread \ {t} : pc'[j] = pc[j] /\ op'[j] = op[j]
    BY <1>1 DEF IInv, TypeOK
<1>3. Linked' = Linked /\ \A a \in Bucket : Chain(a)' = Chain(a)
    BY <1>1, SameTable
<1>4. TypeOK'
  <2>1. <<u>> \in Seq(User \cup Node \cup Cell \cup {Null})
    OBVIOUS
  <2> QED BY <1>1, <2>1 DEF IInv, TypeOK, Bucket
<1>5. InsertInv'
  <2>1. \A j \in Thread : pc[j] \notin {"insert", "link"}
    BY <1>1, UserTableAssumption DEF IInv, UserTableInv, InsertInv
  <2>2. \A n \in Linked : nodes[n].key # u
    BY <1>1, FindsNode
  <2> QED BY <1>1, <1>2, <1>3, <2>1, <2>2 DEF InsertInv
<1>6. ChainInv'
    BY <1>1, <1>2, <1>3 DEF IInv, UserTableInv, ChainInv, Bucket
<1>7. FindInv'
    BY <1>1 DEF IInv, UserTableInv, FindInv
<1>8. AppendInv'
    BY <1>1, <1>2, <1>3, SameLists DEF IInv, UserTableInv, AppendInv
<1>9. ListInv'
    BY <1>1, SameLists DEF IInv, UserTableInv
<1> QED BY <1>4, <1>5, <1>6, <1>7, <1>8, <1>9 DEF IInv, UserTableInv

LEMMA InsertNodeKeeps ==
    ASSUME IInv, NEW t \in Thread, InsertNode(t)
    PROVE  IInv'
<1>1. PICK n \in Node \ DOMAIN nodes :
          /\ DOMAIN nodes' = DOMAIN nodes \cup {n}
          /\ nodes'[n] = [key |-> op[t][1], next |-> head[Of[op[t][1]]], followers |-> Null]
          /\ \A m \in DOMAIN nodes : nodes'[m] = nodes[m]
          /\ pc' = [pc EXCEPT ![t] = "link"] /\ op' = [op EXCEPT ![t] = <<op[t][1], n>>]
          /\ op[t][1] \in User /\ Of[op[t][1]] \in Bucket
          /\ Chains(nodes')
    BY InsertNodeDoes
<1>2. pc[t] = "insert" /\ UNCHANGED <<head, heap, loginLock, userLock, asked, finder, saver, file, loader>>
    BY DEF InsertNode, readVars
<1>3. PICK u \in User : u = op[t][1] /\ Of[u] \in Bucket
    BY <1>1
<1>4. /\ pc'[t] = "link" /\ op'[t] = <<u, n>>
      /\ \A j \in Thread \ {t} : pc'[j] = pc[j] /\ op'[j] = op[j]
    BY <1>1, <1>3 DEF IInv, TypeOK
<1>5. /\ \A x \in DOMAIN nodes \cup {Null} : Walk(nodes', x) = Walk(nodes, x)
      /\ \A a \in Bucket : Chain(a)' = Chain(a)
      /\ Linked' = Linked
  <2>1. \A m \in DOMAIN nodes : nodes'[m].next = nodes[m].next
    BY <1>1
  <2>2. DOMAIN nodes \subseteq DOMAIN nodes' /\ UNCHANGED head
    BY <1>1, <1>2
  <2> QED BY <1>1, <2>1, <2>2, TableStays
<1>6. \A m \in Linked : m \in DOMAIN nodes /\ nodes'[m] = nodes[m]
    BY <1>1, TableChains
<1>7. nodes'[n] = [key |-> u, next |-> head[Of[u]], followers |-> Null]
    BY <1>1, <1>3
<1>8. head[Of[u]] \in DOMAIN nodes \cup {Null}
    BY <1>3, TableChains
<1>9. TypeOK'
  <2>1. <<u, n>> \in Seq(User \cup Node \cup Cell \cup {Null})
    OBVIOUS
  <2>2. op' \in [Thread -> Seq(User \cup Node \cup Cell \cup {Null})]
    BY <1>1, <1>3, <2>1 DEF IInv, TypeOK
  <2>3. \A m \in DOMAIN nodes' : nodes'[m] \in
            [key : User, next : DOMAIN nodes' \cup {Null}, followers : DOMAIN heap' \cup {Null}]
    <3> TAKE m \in DOMAIN nodes'
    <3>1. CASE m = n
      BY <1>1, <1>2, <1>7, <1>8, <3>1
    <3>2. CASE m # n
      BY <1>1, <1>2, <3>2 DEF IInv, TypeOK
    <3> QED BY <3>1, <3>2
  <2>4. pc' \in [Thread -> {"idle", "insert", "link", "create", "append"}]
    BY <1>1 DEF IInv, TypeOK
  <2>5. head' \in [Bucket -> DOMAIN nodes' \cup {Null}]
    <3>1. head \in [Bucket -> DOMAIN nodes \cup {Null}]
      BY DEF IInv, TypeOK
    <3> QED BY <1>1, <1>2, <3>1
  <2> QED BY <1>1, <1>2, <2>2, <2>3, <2>4, <2>5 DEF IInv, TypeOK, Bucket
<1>10. InsertInv'
  <2>1. \A j \in Thread : pc[j] \in {"insert", "link"} => j = t
    BY <1>2 DEF IInv, UserTableInv, InsertInv
  <2>2. loginLock = t /\ \A m \in Linked : nodes[m].key # u
    BY <1>2, <1>3 DEF IInv, UserTableInv, InsertInv
  <2>3. n \in DOMAIN nodes' \ Linked'
    BY <1>1, <1>5, <1>6
  <2> QED BY <1>2, <1>4, <1>5, <1>6, <1>7, <2>1, <2>2, <2>3 DEF InsertInv
<1>11. ChainInv'
  <2>1. Falls(nodes')
    BY <1>1 DEF Chains
  <2>2. \A a \in Bucket : \A m \in Range(Chain(a)') : Of[nodes'[m].key] = a
    <3> TAKE a \in Bucket
    <3> TAKE m \in Range(Chain(a)')
    <3>1. m \in Range(Chain(a)) /\ m \in Linked
      BY <1>5 DEF Linked
    <3> QED BY <1>6, <3>1 DEF IInv, UserTableInv, ChainInv
  <2>3. \A m, k \in Linked' : nodes'[m].key = nodes'[k].key => m = k
    BY <1>5, <1>6 DEF IInv, UserTableInv, ChainInv
  <2>4. \A m \in DOMAIN nodes' : m \in Linked' \/ \E j \in Thread : pc'[j] = "link" /\ op'[j][2] = m
    <3> TAKE m \in DOMAIN nodes'
    <3>1. CASE m = n
      BY <1>4, <3>1
    <3>2. CASE m # n /\ m \notin Linked
      <4>1. PICK j \in Thread : pc[j] = "link" /\ op[j][2] = m
        BY <1>1, <3>2 DEF IInv, UserTableInv, ChainInv
      <4>2. j # t
        BY <1>2, <4>1
      <4> QED BY <1>4, <4>1, <4>2
    <3> QED BY <1>5, <3>1, <3>2
  <2> QED BY <2>1, <2>2, <2>3, <2>4 DEF ChainInv, Bucket
<1>12. FindInv'
  <2>1. finder.at \in DOMAIN nodes \cup {Null}
    BY DEF IInv, TypeOK
  <2>2. Range(Walk(nodes', finder.at)) = Range(Walk(nodes, finder.at))
        /\ Range(Walk(nodes, finder.at)) \subseteq DOMAIN nodes
    BY <1>5, <2>1, TableChains, WalkMeets
  <2> QED BY <1>1, <1>2, <2>1, <2>2 DEF IInv, UserTableInv, FindInv
<1>13. (\A m \in DOMAIN nodes : Cells(m)' = Cells(m)) /\ Cells(n)' = {}
  <2>1. \A m \in DOMAIN nodes : Range(Walk(heap', nodes'[m].followers)) = Range(Walk(heap, nodes[m].followers))
    BY <1>1, <1>2
  <2>2. Range(Walk(heap', nodes'[n].followers)) = {}
    BY <1>2, <1>7, TableChains, WalkMeets
  <2> QED BY <2>1, <2>2 DEF Cells
<1>14. AppendInv'
  <2> SUFFICES ASSUME NEW j \in Thread, pc'[j] \in {"create", "append"}
               PROVE  /\ op'[j][1] \in Linked' /\ userLock'[op'[j][1]] = j
                      /\ pc'[j] = "create" => op'[j][2] \in User
                      /\ pc'[j] = "append" =>
                            /\ op'[j][2] = nodes'[op'[j][1]].followers
                            /\ op'[j][3] \in DOMAIN heap' /\ heap'[op'[j][3]].next = Null
                            /\ \A m \in DOMAIN nodes' : op'[j][3] \notin Cells(m)'
                            /\ \A i \in Thread \ {j} : pc'[i] = "append" => op'[i][3] # op'[j][3]
    BY DEF AppendInv, Cells
  <2>1. j # t /\ pc'[j] = pc[j] /\ op'[j] = op[j]
    BY <1>4
  <2>2. /\ op[j][1] \in Linked /\ userLock[op[j][1]] = j
        /\ pc[j] = "create" => op[j][2] \in User
        /\ pc[j] = "append" =>
              /\ op[j][2] = nodes[op[j][1]].followers
              /\ op[j][3] \in DOMAIN heap /\ heap[op[j][3]].next = Null
              /\ \A m \in DOMAIN nodes : op[j][3] \notin Cells(m)
              /\ \A i \in Thread \ {j} : pc[i] = "append" => op[i][3] # op[j][3]
    BY <2>1 DEF IInv, UserTableInv, AppendInv
  <2> QED BY <1>1, <1>2, <1>4, <1>5, <1>6, <1>13, <2>1, <2>2
<1>15. ListInv'
  <2>1. \A m, k \in DOMAIN nodes' : m # k => Cells(m)' \cap Cells(k)' = {}
    BY <1>1, <1>13 DEF IInv, UserTableInv, ListInv
  <2>2. Falls(heap')
    BY <1>2 DEF IInv, UserTableInv, ListInv
  <2> QED BY <2>1, <2>2 DEF ListInv, Cells
<1> QED BY <1>9, <1>10, <1>11, <1>12, <1>14, <1>15 DEF IInv, UserTableInv

LEMMA InsertHeadKeeps ==
    ASSUME IInv, NEW t \in Thread, InsertHead(t)
    PROVE  IInv'
<1>1. PICK u \in User, n \in DOMAIN nodes \ Linked :
              /\ op[t][1] = u /\ op[t][2] = n
              /\ Of[u] \in Bucket
              /\ nodes[n] = [key |-> u, next |-> head[Of[u]], followers |-> Null]
              /\ \A m \in Linked : nodes[m].key # u
              /\ Range(Chain(Of[u])') = Range(Chain(Of[u])) \cup {n}
              /\ \A a \in Bucket \ {Of[u]} : Chain(a)' = Chain(a)
              /\ Linked' = Linked \cup {n}
              /\ head'[Of[u]] = n /\ nodes' = nodes
    BY InsertHeadDoes
<1>2. /\ pc[t] = "link" /\ head' = [head EXCEPT ![Of[u]] = n] /\ loginLock' = Null
      /\ pc' = [pc EXCEPT ![t] = "idle"] /\ op' = [op EXCEPT ![t] = <<>>]
      /\ UNCHANGED <<nodes, heap, userLock, asked, finder, saver, file, loader>>
    BY <1>1 DEF InsertHead, Rest, Goto, readVars
<1>3. /\ pc'[t] = "idle" /\ \A j \in Thread \ {t} : pc'[j] = pc[j] /\ op'[j] = op[j]
    BY <1>2 DEF IInv, TypeOK
<1>4. TypeOK'
  <2>1. <<>> \in Seq(User \cup Node \cup Cell \cup {Null})
    OBVIOUS
  <2>2. head' \in [Bucket -> DOMAIN nodes \cup {Null}]
    BY <1>1, <1>2 DEF IInv, TypeOK
  <2> QED BY <1>2, <2>1, <2>2 DEF IInv, TypeOK, Bucket
<1>5. \A j \in Thread : pc[j] \in {"insert", "link"} => j = t
    BY <1>2 DEF IInv, UserTableInv, InsertInv
<1>6. InsertInv'
    BY <1>3, <1>5 DEF InsertInv
<1>7. ChainInv'
  <2>1. \A a \in Bucket : \A m \in Range(Chain(a)') : Of[nodes'[m].key] = a
    <3> TAKE a \in Bucket
    <3> TAKE m \in Range(Chain(a)')
    <3>1. CASE a = Of[u] /\ m = n
      BY <1>1, <3>1
    <3>2. CASE ~(a = Of[u] /\ m = n)
      <4>1. m \in Range(Chain(a))
        BY <1>1, <3>2
      <4> QED BY <1>1, <4>1 DEF IInv, UserTableInv, ChainInv
    <3> QED BY <3>1, <3>2
  <2>2. \A m, k \in Linked' : nodes'[m].key = nodes'[k].key => m = k
    BY <1>1 DEF IInv, UserTableInv, ChainInv
  <2>3. \A m \in DOMAIN nodes' : m \in Linked' \/ \E j \in Thread : pc'[j] = "link" /\ op'[j][2] = m
    <3> TAKE m \in DOMAIN nodes'
    <3>1. CASE m \in Linked'
      BY <3>1
    <3>2. CASE m \notin Linked'
      <4>1. PICK j \in Thread : pc[j] = "link" /\ op[j][2] = m
        BY <1>1, <3>2 DEF IInv, UserTableInv, ChainInv
      <4>2. j # t
        BY <1>1, <3>2, <4>1
      <4> QED BY <1>3, <4>1, <4>2
    <3> QED BY <3>1, <3>2
  <2>4. Falls(nodes')
    BY <1>1 DEF IInv, UserTableInv, ChainInv
  <2> QED BY <2>1, <2>2, <2>3, <2>4 DEF ChainInv, Bucket
<1>8. FindInv'
    BY <1>2 DEF IInv, UserTableInv, FindInv
<1>9. AppendInv'
    BY <1>1, <1>2, <1>3, SameLists DEF IInv, UserTableInv, AppendInv
<1>10. ListInv'
    BY <1>2, SameLists DEF IInv, UserTableInv
<1> QED BY <1>4, <1>6, <1>7, <1>8, <1>9, <1>10 DEF IInv, UserTableInv

LEMMA AppendLockKeeps ==
    ASSUME IInv, NEW t \in Thread, NEW u \in User, NEW f \in User \ {u}, AppendLock(t, u, f)
    PROVE  IInv'
<1>1. PICK n : n = FindNode(u)
    OBVIOUS
<1>2. n \in Linked /\ n \in DOMAIN nodes /\ nodes[n].key = u /\ n \in Node
  <2>1. n \in Linked /\ nodes[n].key = u
    BY <1>1, FindsNode DEF AppendLock
  <2> QED BY <2>1, TableChains DEF IInv, TypeOK
<1>3. /\ pc[t] = "idle" /\ userLock[n] = Null /\ userLock' = [userLock EXCEPT ![n] = t]
      /\ asked' = asked \cup {<<u, f>>}
      /\ pc' = [pc EXCEPT ![t] = "create"] /\ op' = [op EXCEPT ![t] = <<n, f>>]
      /\ UNCHANGED <<head, nodes, heap, loginLock, finder, saver, file, loader>>
    BY <1>1 DEF AppendLock, Goto, readVars
<1>4. /\ pc'[t] = "create" /\ op'[t] = <<n, f>>
      /\ \A j \in Thread \ {t} : pc'[j] = pc[j] /\ op'[j] = op[j]
      /\ userLock'[n] = t /\ \A m \in Node \ {n} : userLock'[m] = userLock[m]
    BY <1>2, <1>3 DEF IInv, TypeOK
<1>5. Linked' = Linked /\ \A a \in Bucket : Chain(a)' = Chain(a)
    BY <1>3, SameTable
<1>6. TypeOK'
  <2>1. <<n, f>> \in Seq(User \cup Node \cup Cell \cup {Null})
    BY <1>2
  <2> QED BY <1>2, <1>3, <2>1 DEF IInv, TypeOK, Bucket
<1>7. InsertInv'
    BY <1>3, <1>4, <1>5 DEF IInv, UserTableInv, InsertInv
<1>8. ChainInv'
    BY <1>3, <1>4, <1>5 DEF IInv, UserTableInv, ChainInv, Bucket
<1>9. FindInv'
    BY <1>3 DEF IInv, UserTableInv, FindInv
<1>10. AppendInv'
  <2> SUFFICES ASSUME NEW j \in Thread, pc'[j] \in {"create", "append"}
               PROVE  /\ op'[j][1] \in Linked' /\ userLock'[op'[j][1]] = j
                      /\ pc'[j] = "create" => op'[j][2] \in User
                      /\ pc'[j] = "append" =>
                            /\ op'[j][2] = nodes'[op'[j][1]].followers
                            /\ op'[j][3] \in DOMAIN heap' /\ heap'[op'[j][3]].next = Null
                            /\ \A m \in DOMAIN nodes' : op'[j][3] \notin Cells(m)'
                            /\ \A i \in Thread \ {j} : pc'[i] = "append" => op'[i][3] # op'[j][3]
    BY DEF AppendInv, Cells
  <2>1. CASE j = t
    BY <1>2, <1>4, <1>5, <2>1
  <2>2. CASE j # t
    <3>1. /\ op[j][1] \in Linked /\ userLock[op[j][1]] = j
          /\ pc[j] = "create" => op[j][2] \in User
          /\ pc[j] = "append" =>
                /\ op[j][2] = nodes[op[j][1]].followers
                /\ op[j][3] \in DOMAIN heap /\ heap[op[j][3]].next = Null
                /\ \A m \in DOMAIN nodes : op[j][3] \notin Cells(m)
                /\ \A i \in Thread \ {j} : pc[i] = "append" => op[i][3] # op[j][3]
      BY <1>4, <2>2 DEF IInv, UserTableInv, AppendInv
    <3>2. op[j][1] # n /\ op[j][1] \in Node
      BY <1>3, <3>1, UserTableAssumption, TableChains DEF IInv, TypeOK
    <3> QED BY <1>3, <1>4, <1>5, <2>2, <3>1, <3>2, SameLists
  <2> QED BY <2>1, <2>2
<1>11. ListInv'
    BY <1>3, SameLists DEF IInv, UserTableInv
<1> QED BY <1>6, <1>7, <1>8, <1>9, <1>10, <1>11 DEF IInv, UserTableInv

LEMMA AppendCreateKeeps ==
    ASSUME IInv, NEW t \in Thread, AppendCreate(t)
    PROVE  IInv'
<1>1. PICK c : c = Fresh(heap)
    OBVIOUS
<1>2. /\ c \in Cell /\ c \notin DOMAIN heap /\ c # Null
      /\ DOMAIN heap' = DOMAIN heap \cup {c}
      /\ heap'[c] = [val |-> op[t][2], next |-> Null]
      /\ \A d \in DOMAIN heap : heap'[d] = heap[d]
      /\ Chains(heap')
      /\ \A x \in DOMAIN heap \cup {Null} : Walk(heap', x) = Walk(heap, x)
    BY <1>1, AppendCreateDoes
<1>3. PICK n : n = op[t][1]
    OBVIOUS
<1>4. pc[t] = "create" /\ n \in Linked /\ n \in DOMAIN nodes /\ userLock[n] = t /\ op[t][2] \in User
    BY <1>3, TableChains DEF AppendCreate, IInv, UserTableInv, AppendInv
<1>5. /\ pc' = [pc EXCEPT ![t] = "append"] /\ op' = [op EXCEPT ![t] = <<n, nodes[n].followers, c>>]
      /\ UNCHANGED <<head, nodes, loginLock, userLock, asked, finder, saver, file, loader>>
    BY <1>1, <1>3 DEF AppendCreate, Goto, readVars
<1>6. /\ pc'[t] = "append" /\ op'[t] = <<n, nodes[n].followers, c>>
      /\ \A j \in Thread \ {t} : pc'[j] = pc[j] /\ op'[j] = op[j]
    BY <1>5 DEF IInv, TypeOK
<1>7. Linked' = Linked /\ \A a \in Bucket : Chain(a)' = Chain(a)
    BY <1>5, SameTable
<1>8. \A m \in DOMAIN nodes : Cells(m)' = Cells(m) /\ Cells(m) \subseteq DOMAIN heap
    BY <1>2, <1>5, TableChains DEF Cells
<1>9. TypeOK'
  <2>1. nodes[n].followers \in Cell \cup {Null}
    BY <1>4, TableChains DEF IInv, TypeOK
  <2>2. n \in Node
    BY <1>4 DEF IInv, TypeOK
  <2>3. <<n, nodes[n].followers, c>> \in Seq(User \cup Node \cup Cell \cup {Null})
    BY <1>2, <2>1, <2>2
  <2>4. op' \in [Thread -> Seq(User \cup Node \cup Cell \cup {Null})]
    BY <1>5, <2>3 DEF IInv, TypeOK
  <2>5. DOMAIN heap' \subseteq Cell
    BY <1>2 DEF IInv, TypeOK
  <2>6. \A d \in DOMAIN heap' : heap'[d] \in [val : User, next : DOMAIN heap' \cup {Null}]
    <3> TAKE d \in DOMAIN heap'
    <3>1. CASE d = c
      BY <1>2, <1>4, <3>1
    <3>2. CASE d # c
      BY <1>2, <3>2 DEF IInv, TypeOK
    <3> QED BY <3>1, <3>2
  <2>7. \A m \in DOMAIN nodes' : nodes'[m] \in
            [key : User, next : DOMAIN nodes' \cup {Null}, followers : DOMAIN heap' \cup {Null}]
    BY <1>2, <1>5 DEF IInv, TypeOK
  <2>8. pc' \in [Thread -> {"idle", "insert", "link", "create", "append"}]
    BY <1>5 DEF IInv, TypeOK
  <2> QED BY <1>5, <2>4, <2>5, <2>6, <2>7, <2>8 DEF IInv, TypeOK, Bucket
<1>10. InsertInv'
    BY <1>4, <1>5, <1>6, <1>7 DEF IInv, UserTableInv, InsertInv
<1>11. ChainInv'
    BY <1>4, <1>5, <1>6, <1>7 DEF IInv, UserTableInv, ChainInv, Bucket
<1>12. FindInv'
    BY <1>5 DEF IInv, UserTableInv, FindInv
<1>13. AppendInv'
  <2> SUFFICES ASSUME NEW j \in Thread, pc'[j] \in {"create", "append"}
               PROVE  /\ op'[j][1] \in Linked' /\ userLock'[op'[j][1]] = j
                      /\ pc'[j] = "create" => op'[j][2] \in User
                      /\ pc'[j] = "append" =>
                            /\ op'[j][2] = nodes'[op'[j][1]].followers
                            /\ op'[j][3] \in DOMAIN heap' /\ heap'[op'[j][3]].next = Null
                            /\ \A m \in DOMAIN nodes' : op'[j][3] \notin Cells(m)'
                            /\ \A i \in Thread \ {j} : pc'[i] = "append" => op'[i][3] # op'[j][3]
    BY DEF AppendInv, Cells
  <2>0. \A i \in Thread : pc[i] = "append" => op[i][3] \in DOMAIN heap
    BY DEF IInv, UserTableInv, AppendInv
  <2>1. CASE j = t
    <3>1. \A m \in DOMAIN nodes' : c \notin Cells(m)'
      BY <1>2, <1>5, <1>8
    <3>2. \A i \in Thread \ {t} : pc'[i] = "append" => op'[i][3] # c
      BY <1>2, <1>6, <2>0
    <3> QED BY <1>2, <1>4, <1>5, <1>6, <1>7, <2>1, <3>1, <3>2
  <2>2. CASE j # t
    <3>1. /\ op[j][1] \in Linked /\ userLock[op[j][1]] = j
          /\ pc[j] = "create" => op[j][2] \in User
          /\ pc[j] = "append" =>
                /\ op[j][2] = nodes[op[j][1]].followers
                /\ op[j][3] \in DOMAIN heap /\ heap[op[j][3]].next = Null
                /\ \A m \in DOMAIN nodes : op[j][3] \notin Cells(m)
                /\ \A i \in Thread \ {j} : pc[i] = "append" => op[i][3] # op[j][3]
      BY <1>6, <2>2 DEF IInv, UserTableInv, AppendInv
    <3>2. pc'[j] = "append" => op[j][3] # c
      BY <1>2, <1>6, <2>0, <2>2
    <3>3. pc'[j] = "append" => \A i \in Thread \ {j} : pc'[i] = "append" => op'[i][3] # op'[j][3]
      BY <1>6, <2>2, <3>1, <3>2
    <3> QED BY <1>2, <1>5, <1>6, <1>7, <1>8, <2>2, <3>1, <3>3
  <2> QED BY <2>1, <2>2
<1>14. ListInv'
  <2>1. \A m, k \in DOMAIN nodes' : m # k => Cells(m)' \cap Cells(k)' = {}
    BY <1>5, <1>8 DEF IInv, UserTableInv, ListInv
  <2>2. Falls(heap')
    BY <1>2 DEF Chains
  <2> QED BY <2>1, <2>2 DEF ListInv, Cells
<1> QED BY <1>9, <1>10, <1>11, <1>12, <1>13, <1>14 DEF IInv, UserTableInv

LEMMA AppendLinkKeeps ==
    ASSUME IInv, NEW t \in Thread, AppendLink(t)
    PROVE  IInv'
<1>1. PICK n \in Linked, c \in DOMAIN heap : Appends(t, n, c)
    BY AppendLinkDoes
<1>2. /\ pc[t] = "append" /\ pc' = [pc EXCEPT ![t] = "idle"] /\ op' = [op EXCEPT ![t] = <<>>]
      /\ UNCHANGED <<head, loginLock, asked, finder, saver, file, loader>>
    BY DEF AppendLink, Rest, Goto, readVars
<1>3. /\ pc'[t] = "idle" /\ \A j \in Thread \ {t} : pc'[j] = pc[j] /\ op'[j] = op[j]
    BY <1>2 DEF IInv, TypeOK
<1>4. n \in DOMAIN nodes /\ n \in Node
    BY TableChains DEF IInv, TypeOK
<1>5. \A m \in DOMAIN nodes : nodes'[m].key = nodes[m].key /\ nodes'[m].next = nodes[m].next
    BY <1>1 DEF Appends
<1>6. /\ \A x \in DOMAIN nodes \cup {Null} : Walk(nodes', x) = Walk(nodes, x)
      /\ \A a \in Bucket : Chain(a)' = Chain(a)
      /\ Linked' = Linked
    BY <1>1, <1>2, <1>5, TableStays DEF Appends
<1>7. /\ \A m \in DOMAIN nodes \ {n} : Cells(m)' = Cells(m)
      /\ Cells(n)' = Cells(n) \cup {c}
  <2>1. \A m \in DOMAIN nodes \ {n} : Cells(m)' = Cells(m)
    BY <1>1 DEF Appends, Cells
  <2>2. Cells(n)' = Cells(n) \cup {c}
    <3> DEFINE walk == Walk(heap, nodes[n].followers)
    <3>1. walk \in Seq(DOMAIN heap)
      BY <1>4, TableChains, WalkDoes
    <3>2. Range(Walk(heap', nodes'[n].followers)) = Range(Append(walk, c))
      BY <1>1 DEF Appends
    <3> HIDE DEF walk
    <3>3. <<c>> \in Seq(DOMAIN heap) /\ Range(<<c>>) = {c} /\ Append(walk, c) = walk \o <<c>>
      BY <3>1, AppendIsConcat DEF Range
    <3>4. Range(walk \o <<c>>) = Range(walk) \cup Range(<<c>>)
      BY <3>1, <3>3, RangeConcatenation
    <3> QED BY <3>2, <3>3, <3>4 DEF Cells, walk
  <2> QED BY <2>1, <2>2
<1>8. \A j \in Thread : pc[j] \in {"insert", "link"} => j # t
    BY <1>2
<1>9. TypeOK'
  <2>1. <<>> \in Seq(User \cup Node \cup Cell \cup {Null})
    OBVIOUS
  <2>2. \A m \in DOMAIN nodes' : nodes'[m] \in
            [key : User, next : DOMAIN nodes' \cup {Null}, followers : DOMAIN heap' \cup {Null}]
    <3> TAKE m \in DOMAIN nodes'
    <3>1. m \in DOMAIN nodes /\ DOMAIN nodes' = DOMAIN nodes /\ DOMAIN heap' = DOMAIN heap
      BY <1>1 DEF Appends
    <3>2. nodes[m] \in [key : User, next : DOMAIN nodes \cup {Null}, followers : DOMAIN heap \cup {Null}]
      BY <3>1 DEF IInv, TypeOK
    <3>3. CASE m = n
      BY <1>1, <3>1, <3>2, <3>3 DEF Appends
    <3>4. CASE m # n
      <4>1. nodes'[m] = nodes[m]
        BY <1>1, <3>1, <3>4 DEF Appends
      <4> QED BY <3>1, <3>2, <4>1
    <3> QED BY <3>3, <3>4
  <2>3. \A d \in DOMAIN heap' : heap'[d] \in [val : User, next : DOMAIN heap' \cup {Null}]
    <3> TAKE d \in DOMAIN heap'
    <3>1. d \in DOMAIN heap /\ DOMAIN heap' = DOMAIN heap
      BY <1>1 DEF Appends
    <3>2. heap'[d] \in [val : {heap[d].val}, next : {heap[d].next, c}]
      BY <1>1, <3>1 DEF Appends
    <3>3. heap[d].val \in User /\ heap[d].next \in DOMAIN heap \cup {Null}
      BY <3>1 DEF IInv, TypeOK
    <3> QED BY <3>1, <3>2, <3>3
  <2>4. userLock' \in [Node -> Thread \cup {Null}]
    BY <1>1 DEF IInv, TypeOK, Appends
  <2>5. op' \in [Thread -> Seq(User \cup Node \cup Cell \cup {Null})]
        /\ pc' \in [Thread -> {"idle", "insert", "link", "create", "append"}]
    BY <1>2, <2>1 DEF IInv, TypeOK
  <2>6. DOMAIN nodes' = DOMAIN nodes /\ DOMAIN heap' = DOMAIN heap
    BY <1>1 DEF Appends
  <2> QED BY <1>2, <2>2, <2>3, <2>4, <2>5, <2>6 DEF IInv, TypeOK, Bucket
<1>10. InsertInv'
  <2> SUFFICES ASSUME NEW j \in Thread, pc'[j] \in {"insert", "link"}
               PROVE  /\ loginLock' = j
                      /\ op'[j][1] \in User /\ \A m \in Linked' : nodes'[m].key # op'[j][1]
                      /\ pc'[j] = "link" =>
                            /\ op'[j][2] \in DOMAIN nodes' \ Linked'
                            /\ nodes'[op'[j][2]] = [key |-> op'[j][1], next |-> head'[Of[op'[j][1]]],
                                                    followers |-> Null]
    BY DEF InsertInv
  <2>1. pc'[j] = pc[j] /\ op'[j] = op[j]
    BY <1>3
  <2>2. /\ loginLock = j
        /\ op[j][1] \in User /\ \A m \in Linked : nodes[m].key # op[j][1]
        /\ pc[j] = "link" =>
              /\ op[j][2] \in DOMAIN nodes \ Linked
              /\ nodes[op[j][2]] = [key |-> op[j][1], next |-> head[Of[op[j][1]]], followers |-> Null]
    BY <2>1 DEF IInv, UserTableInv, InsertInv
  <2>3. \A m \in Linked : m \in DOMAIN nodes
    BY TableChains
  <2>4. pc[j] = "link" => nodes'[op[j][2]] = nodes[op[j][2]] /\ op[j][2] \in DOMAIN nodes'
    BY <1>1, <2>2 DEF Appends
  <2> QED BY <1>2, <1>5, <1>6, <2>1, <2>2, <2>3, <2>4
<1>11. ChainInv'
  <2>1. Falls(nodes')
    BY <1>1 DEF Appends, Chains
  <2>2. \A a \in Bucket : \A m \in Range(Chain(a)') : Of[nodes'[m].key] = a
    <3> TAKE a \in Bucket
    <3> TAKE m \in Range(Chain(a)')
    <3>1. m \in Range(Chain(a)) /\ m \in Linked
      BY <1>6 DEF Linked
    <3> QED BY <1>5, <3>1, TableChains DEF IInv, UserTableInv, ChainInv
  <2>3. \A m, k \in Linked' : nodes'[m].key = nodes'[k].key => m = k
    BY <1>5, <1>6, TableChains DEF IInv, UserTableInv, ChainInv
  <2>4. \A m \in DOMAIN nodes' : m \in Linked' \/ \E j \in Thread : pc'[j] = "link" /\ op'[j][2] = m
    <3>1. DOMAIN nodes' = DOMAIN nodes
      BY <1>1 DEF Appends
    <3> QED BY <1>2, <1>3, <1>6, <3>1 DEF IInv, UserTableInv, ChainInv
  <2> QED BY <2>1, <2>2, <2>3, <2>4 DEF ChainInv, Bucket
<1>12. FindInv'
  <2>1. finder.at \in DOMAIN nodes \cup {Null}
    BY DEF IInv, TypeOK
  <2>2. Range(Walk(nodes', finder.at)) = Range(Walk(nodes, finder.at))
        /\ Range(Walk(nodes, finder.at)) \subseteq DOMAIN nodes
    BY <1>6, <2>1, TableChains, WalkMeets
  <2> QED BY <1>2, <1>5, <2>1, <2>2 DEF IInv, UserTableInv, FindInv
<1>13. AppendInv'
  <2> SUFFICES ASSUME NEW j \in Thread, pc'[j] \in {"create", "append"}
               PROVE  /\ op'[j][1] \in Linked' /\ userLock'[op'[j][1]] = j
                      /\ pc'[j] = "create" => op'[j][2] \in User
                      /\ pc'[j] = "append" =>
                            /\ op'[j][2] = nodes'[op'[j][1]].followers
                            /\ op'[j][3] \in DOMAIN heap' /\ heap'[op'[j][3]].next = Null
                            /\ \A m \in DOMAIN nodes' : op'[j][3] \notin Cells(m)'
                            /\ \A i \in Thread \ {j} : pc'[i] = "append" => op'[i][3] # op'[j][3]
    BY DEF AppendInv, Cells
  <2>1. j # t /\ pc'[j] = pc[j] /\ op'[j] = op[j]
    BY <1>3
  <2>2. /\ op[j][1] \in Linked /\ userLock[op[j][1]] = j
        /\ pc[j] = "create" => op[j][2] \in User
        /\ pc[j] = "append" =>
              /\ op[j][2] = nodes[op[j][1]].followers
              /\ op[j][3] \in DOMAIN heap /\ heap[op[j][3]].next = Null
              /\ \A m \in DOMAIN nodes : op[j][3] \notin Cells(m)
              /\ \A i \in Thread \ {j} : pc[i] = "append" => op[i][3] # op[j][3]
    BY <2>1 DEF IInv, UserTableInv, AppendInv
  <2>3. op[j][1] # n /\ op[j][1] \in DOMAIN nodes /\ op[j][1] \in Node
    BY <1>1, <2>1, <2>2, TableChains DEF Appends, IInv, TypeOK
  <2>4. nodes'[op[j][1]] = nodes[op[j][1]] /\ userLock'[op[j][1]] = j
    BY <1>1, <2>2, <2>3 DEF Appends, IInv, TypeOK
  <2>5. pc[j] = "append" => op[j][3] # c /\ heap'[op[j][3]] = heap[op[j][3]]
    <3>1. op[t][3] = c
      BY <1>1 DEF Appends
    <3> QED BY <1>1, <1>2, <1>4, <2>1, <2>2, <3>1 DEF Appends
  <2>6. pc[j] = "append" => \A m \in DOMAIN nodes' : op[j][3] \notin Cells(m)'
    <3>1. DOMAIN nodes' = DOMAIN nodes
      BY <1>1 DEF Appends
    <3> QED BY <1>7, <2>2, <2>5, <3>1
  <2>7. DOMAIN heap' = DOMAIN heap
    BY <1>1 DEF Appends
  <2>8. pc[j] = "append" => \A i \in Thread \ {j} : pc'[i] = "append" => op'[i][3] # op[j][3]
    BY <1>3, <2>2
  <2> QED BY <1>6, <2>1, <2>2, <2>4, <2>5, <2>6, <2>7, <2>8
<1>14. ListInv'
  <2>1. \A m, k \in DOMAIN nodes' : m # k => Cells(m)' \cap Cells(k)' = {}
    <3>1. DOMAIN nodes' = DOMAIN nodes /\ \A m \in DOMAIN nodes : c \notin Cells(m)
      BY <1>1 DEF Appends
    <3>2. \A m, k \in DOMAIN nodes : m # k => Cells(m) \cap Cells(k) = {}
      BY DEF IInv, UserTableInv, ListInv
    <3> QED BY <1>7, <3>1, <3>2
  <2>2. Falls(heap')
    BY <1>1 DEF Appends, Chains
  <2> QED BY <2>1, <2>2 DEF ListInv, Cells
<1> QED BY <1>9, <1>10, <1>11, <1>12, <1>13, <1>14 DEF IInv, UserTableInv

\* Who reads changes nothing that the writers go by.
LEMMA ReadersKeep ==
    ASSUME IInv, UNCHANGED <<head, nodes, heap, loginLock, userLock, threadVars, asked>>,
           TypeOK', FindInv'
    PROVE  IInv'
<1>1. InsertInv' /\ ChainInv' /\ AppendInv' /\ ListInv'
    BY SameTable, SameLists DEF IInv, UserTableInv, InsertInv, ChainInv, AppendInv, ListInv, threadVars, Bucket
<1> QED BY <1>1 DEF IInv, UserTableInv

LEMMA HashFindKeeps ==
    ASSUME IInv, HashFind
    PROVE  IInv'
<1>1. UNCHANGED <<head, nodes, heap, loginLock, userLock, threadVars, asked, saver, file, loader>>
    BY DEF HashFind, FindStart, FindOn
<1>2. ASSUME NEW u \in User, FindStart(u) PROVE FindInv' /\ TypeOK'
  <2>1. finder' = [at |-> head[Of[u]], of |-> u, there |-> Inserted(u), done |-> FALSE]
    BY <1>2 DEF FindStart
  <2>2. Of[u] \in Bucket /\ head[Of[u]] \in DOMAIN nodes \cup {Null}
    BY UsersInTable, TableChains
  <2>3. Inserted(u) \in BOOLEAN
    BY DEF Inserted
  <2>4. ASSUME Inserted(u) PROVE \E n \in Range(Walk(nodes, head[Of[u]])) : nodes[n].key = u
    <3>1. PICK n \in DOMAIN nodes : nodes[n].key = u /\ n \in Linked
      BY <2>4 DEF Inserted, IInv, UserTableInv, ChainInv
    <3> QED BY <3>1, LinkedInBucket DEF Chain
  <2>5. FindInv'
    BY <1>1, <2>1, <2>4 DEF FindInv
  <2>6. TypeOK'
    BY <1>1, <2>1, <2>2, <2>3 DEF IInv, TypeOK, threadVars, Bucket
  <2> QED BY <2>5, <2>6
<1>3. ASSUME FindOn PROVE FindInv' /\ TypeOK'
  <2>1. /\ ~finder.done
        /\ finder' = IF finder.at = Null \/ nodes[finder.at].key = finder.of
                     THEN [finder EXCEPT !.done = TRUE]
                     ELSE [finder EXCEPT !.at = nodes[finder.at].next]
    BY <1>3 DEF FindOn
  <2>2. finder \in [at : DOMAIN nodes \cup {Null}, of : User \cup {Null}, there : BOOLEAN, done : BOOLEAN]
    BY DEF IInv, TypeOK
  <2>3. CASE finder.at = Null \/ nodes[finder.at].key = finder.of
    <3>1. /\ finder'.at = finder.at /\ finder'.of = finder.of /\ finder'.there = finder.there
          /\ finder' \in [at : DOMAIN nodes \cup {Null}, of : User \cup {Null},
                          there : BOOLEAN, done : BOOLEAN]
      BY <2>1, <2>2, <2>3
    <3>2. FindInv'
      BY <1>1, <2>3, <3>1 DEF IInv, UserTableInv, FindInv
    <3>3. TypeOK'
      BY <1>1, <3>1 DEF IInv, TypeOK, threadVars, Bucket
    <3> QED BY <3>2, <3>3
  <2>4. CASE finder.at # Null /\ nodes[finder.at].key # finder.of
    <3>1. finder.at \in DOMAIN nodes /\ nodes[finder.at].next \in DOMAIN nodes \cup {Null}
      BY <2>2, <2>4 DEF IInv, TypeOK
    <3>2. /\ finder'.at = nodes[finder.at].next /\ finder'.of = finder.of
          /\ finder'.there = finder.there /\ finder'.done = FALSE
          /\ finder' \in [at : DOMAIN nodes \cup {Null}, of : User \cup {Null},
                          there : BOOLEAN, done : BOOLEAN]
      BY <2>1, <2>2, <2>4, <3>1
    <3>3. Range(Walk(nodes, finder.at)) = {finder.at} \cup Range(Walk(nodes, nodes[finder.at].next))
      BY <3>1, TableChains, WalkMeets
    <3>4. FindInv'
      BY <1>1, <2>4, <3>2, <3>3 DEF IInv, UserTableInv, FindInv
    <3>5. TypeOK'
      BY <1>1, <3>2 DEF IInv, TypeOK, threadVars, Bucket
    <3> QED BY <3>4, <3>5
  <2> QED BY <2>3, <2>4
<1>4. FindInv' /\ TypeOK'
    BY <1>2, <1>3 DEF HashFind
<1> QED BY <1>1, <1>4, ReadersKeep

LEMMA SaveKeeps ==
    ASSUME IInv, Save
    PROVE  IInv'
<1>1. UNCHANGED <<head, nodes, heap, loginLock, userLock, threadVars, asked, finder, loader>>
    BY DEF Save, SaveStart, SaveBucket, SaveUser
<1>2. saver \in [pc : {"idle", "bucket", "done"}, bucket : Bucket,
                 at : DOMAIN nodes \cup {Null}, map : {saver.map}]
    BY DEF IInv, TypeOK
<1>3. saver' \in [pc : {"idle", "bucket", "done"}, bucket : Bucket,
                  at : DOMAIN nodes \cup {Null}, map : {saver'.map}]
  <2>0. HASH_SIZE \in Nat \ {0} /\ 0 \in Bucket
    BY UserTableAssumption DEF Bucket
  <2>1. CASE SaveStart
    BY <2>0, <2>1, TableChains DEF SaveStart
  <2>2. CASE SaveBucket
    <3>1. CASE saver.bucket = HASH_SIZE - 1
      BY <1>2, <2>2, <3>1 DEF SaveBucket
    <3>2. CASE saver.bucket # HASH_SIZE - 1
      <4>1. saver.bucket + 1 \in Bucket
        BY <1>2, <2>0, <3>2 DEF Bucket
      <4>2. head[saver.bucket + 1] \in DOMAIN nodes \cup {Null}
        BY <4>1, TableChains
      <4> QED BY <1>2, <2>2, <3>2, <4>1, <4>2 DEF SaveBucket
    <3> QED BY <3>1, <3>2
  <2>3. CASE SaveUser
    <3>1. saver.at \in DOMAIN nodes
      BY <1>2, <2>3 DEF SaveUser
    <3>2. nodes[saver.at].next \in DOMAIN nodes \cup {Null}
      BY <3>1 DEF IInv, TypeOK
    <3> QED BY <1>2, <2>3, <3>2 DEF SaveUser
  <2> QED BY <2>1, <2>2, <2>3 DEF Save
<1>4. file' \in Seq(Seq(User))
  <2>1. file \in Seq(Seq(User))
    BY DEF IInv, TypeOK
  <2>2. CASE SaveUser
    <3>1. PICK u, list : u = nodes[saver.at].key /\ list = nodes[saver.at].followers
      OBVIOUS
    <3>2. u \in User /\ list \in DOMAIN heap \cup {Null}
      BY <1>2, <2>2, <3>1 DEF SaveUser, IInv, TypeOK
    <3>3. \A c \in DOMAIN heap : heap[c].val \in User
      BY DEF IInv, TypeOK
    <3>4. Values(heap, list) \in Seq(User)
      BY <3>2, <3>3, TableChains, ValuesType
    <3>5. SavedUser(u, Values(heap, list)) \in Seq(Seq(User))
      <4>1. <<u>> \in Seq(User)
        BY <3>2
      <4> QED BY <3>4, <4>1 DEF SavedUser
    <3>6. file' = file \o SavedUser(u, Values(heap, list))
      BY <2>2, <3>1 DEF SaveUser
    <3> QED BY <2>1, <3>5, <3>6, ConcatProperties
  <2> QED BY <2>1, <2>2 DEF Save, SaveStart, SaveBucket
<1>5. TypeOK'
    BY <1>1, <1>3, <1>4 DEF IInv, TypeOK, threadVars, Bucket
<1>6. FindInv'
    BY <1>1 DEF IInv, UserTableInv, FindInv
<1> QED BY <1>1, <1>5, <1>6, ReadersKeep

\* What a turn of read_savefile's loop inserts, and where it leaves the file.
LEMMA ReadType ==
    ASSUME NEW lines \in Seq(Seq(User)), NEW at \in [line : Nat \ {0}, names : Nat],
           NEW before \in Seq(User), ~NoMore(lines, at)
    PROVE  /\ Read(lines, at, before) \in [user : User \cup Seq(User), followers : Seq(User)]
           /\ ReadTo(lines, at) \in [line : Nat \ {0}, names : Nat]
<1> DEFINE name == Piece(lines, at, NameRoom)
           list == Past(lines, at, NameRoom)
<1>1. NameRoom \in Nat /\ ListRoom \in Nat
    BY SavefileAssumption
<1>2. at.line \in 1 .. Len(lines) /\ name # <<>>
    BY DEF NoMore
<1>3. ASSUME NEW x \in [line : Nat \ {0}, names : Nat], x.line \in 1 .. Len(lines), NEW room \in Nat
      PROVE  /\ Piece(lines, x, room) \in Seq(User)
             /\ Past(lines, x, room) \in [line : Nat \ {0}, names : Nat]
  <2>1. lines[x.line] \in Seq(User)
    BY <1>3, ElementOfSeq
  <2>2. PICK line \in Seq(User) : line = lines[x.line]
    BY <2>1
  <2> DEFINE rest == SubSeq(line, x.names + 1, Len(line))
  <2>3. rest \in Seq(User)
    <3>1. Len(line) \in Nat /\ x.names \in Nat
      OBVIOUS
    <3>2. \A i \in x.names + 1 .. Len(line) : i \in 1 .. Len(line)
      BY <3>1
    <3>3. \A i \in x.names + 1 .. Len(line) : line[i] \in User
      BY <3>2, ElementOfSeq
    <3> QED BY <3>1, <3>3, SubSeqProperties
  <2>4. Piece(lines, x, room) = IF Len(rest) <= room THEN rest ELSE SubSeq(rest, 1, room)
    BY <2>2 DEF Piece
  <2>5. ASSUME ~(Len(rest) <= room) PROVE SubSeq(rest, 1, room) \in Seq(User)
    <3> HIDE DEF rest
    <3>1. Len(rest) \in Nat
      BY <2>3
    <3>2. \A i \in 1 .. room : i \in 1 .. Len(rest)
      BY <2>5, <3>1
    <3>3. \A i \in 1 .. room : rest[i] \in User
      BY <2>3, <3>2, ElementOfSeq
    <3> QED BY <2>3, <3>3, SubSeqProperties
  <2>6. Past(lines, x, room) = IF x.names + room < Len(line)
                               THEN [x EXCEPT !.names = x.names + room]
                               ELSE [line |-> x.line + 1, names |-> 0]
    BY <2>2 DEF Past
  <2> HIDE DEF rest
  <2>7. Past(lines, x, room) \in [line : Nat \ {0}, names : Nat]
    <3>1. x.line + 1 \in Nat \ {0} /\ x.names + room \in Nat
      OBVIOUS
    <3>2. [x EXCEPT !.names = x.names + room] \in [line : Nat \ {0}, names : Nat]
      BY <3>1
    <3> QED BY <2>6, <3>1, <3>2
  <2> QED BY <2>3, <2>4, <2>5, <2>7
<1>4. name \in Seq(User) /\ list \in [line : Nat \ {0}, names : Nat]
    BY <1>1, <1>2, <1>3
<1>5. ASSUME list.line <= Len(lines)
      PROVE  /\ Piece(lines, list, ListRoom) \in Seq(User)
             /\ Past(lines, list, ListRoom) \in [line : Nat \ {0}, names : Nat]
  <2>1. list.line \in 1 .. Len(lines)
    BY <1>4, <1>5
  <2> HIDE DEF list
  <2> QED BY <1>1, <1>3, <1>4, <2>1
<1>6. name[1] \in User
  <2> HIDE DEF name
  <2>1. Len(name) >= 1
    BY <1>2, <1>4
  <2> QED BY <1>4, <2>1, ElementOfSeq
<1>7. before # <<>> => <<before[1]>> \in Seq(User)
  <2>1. before # <<>> => before[1] \in User
    BY ElementOfSeq
  <2> QED BY <2>1
<1>8. /\ Read(lines, at, before) =
          [user      |-> IF at.line % 2 = 1 THEN name[1] ELSE name,
           followers |-> IF list.line <= Len(lines) THEN Piece(lines, list, ListRoom)
                         ELSE IF before # <<>> THEN <<before[1]>> ELSE <<>>]
      /\ ReadTo(lines, at) = IF list.line <= Len(lines) THEN Past(lines, list, ListRoom) ELSE list
    BY DEF Read, ReadTo
<1> HIDE DEF name, list
<1> QED BY <1>4, <1>5, <1>6, <1>7, <1>8

LEMMA LoadKeeps ==
    ASSUME IInv, Load
    PROVE  IInv'
<1>1. UNCHANGED <<head, nodes, heap, loginLock, userLock, threadVars, asked, finder, saver, file>>
    BY DEF Load
<1>2. /\ loader \in [at : [line : Nat \ {0}, names : Nat],
                      table : Seq([user : User \cup Seq(User), followers : Seq(User)])]
      /\ file \in Seq(Seq(User))
    BY DEF IInv, TypeOK
<1>3. PICK at, read : at = loader.at /\ read = loader.table
    OBVIOUS
<1> DEFINE V == [user : User \cup Seq(User), followers : Seq(User)]
<1>4. at \in [line : Nat \ {0}, names : Nat] /\ read \in Seq(V)
    BY <1>2, <1>3
<1>5. PICK before \in Seq(User) :
          loader' = [at |-> ReadTo(file, at), table |-> Append(read, Read(file, at, before))]
  <2> DEFINE left == IF read = <<>> THEN <<>> ELSE Last(read).followers
  <2>1. left \in Seq(User)
    <3>1. read # <<>> => read[Len(read)] \in V
      <4> HIDE DEF V
      <4>1. read # <<>> => Len(read) \in 1 .. Len(read)
        BY <1>4
      <4> QED BY <1>4, <4>1, ElementOfSeq
    <3>2. read # <<>> => Last(read).followers \in Seq(User)
      BY <3>1 DEF Last
    <3> QED BY <3>2
  <2>2. loader' = [at |-> ReadTo(file, at), table |-> Append(read, Read(file, at, left))]
    BY <1>3 DEF Load
  <2> HIDE DEF left
  <2> QED BY <2>1, <2>2
<1>6. ~NoMore(file, at)
    BY <1>3 DEF Load
<1>7. Read(file, at, before) \in V /\ ReadTo(file, at) \in [line : Nat \ {0}, names : Nat]
    BY <1>2, <1>4, <1>6, ReadType
<1>8. PICK r \in V : r = Read(file, at, before)
    BY <1>7
<1>9. Append(read, r) \in Seq(V)
  <2> HIDE DEF V
  <2> QED BY <1>4
<1>10. /\ loader' \in [at : [line : Nat \ {0}, names : Nat], table : Seq(V)]
    BY <1>5, <1>7, <1>8, <1>9
<1>11. TypeOK'
    BY <1>1, <1>10 DEF IInv, TypeOK, threadVars, Bucket
<1>12. FindInv'
    BY <1>1 DEF IInv, UserTableInv, FindInv
<1> QED BY <1>1, <1>11, <1>12, ReadersKeep

LEMMA StutterKeeps ==
    ASSUME IInv, UNCHANGED vars
    PROVE  IInv'
<1>1. TypeOK' /\ FindInv'
    BY DEF IInv, UserTableInv, TypeOK, FindInv, vars, threadVars, readVars, Bucket
<1> QED BY <1>1, ReadersKeep DEF vars

LEMMA InvStep == IInv /\ [Next]_vars => IInv'
<1> SUFFICES ASSUME IInv, [Next]_vars PROVE IInv'
    OBVIOUS
<1>1. ASSUME NEW t \in Thread, NEW u \in User, LoginFind(t, u) PROVE IInv'
    BY <1>1, LoginFindKeeps
<1>2. ASSUME NEW t \in Thread, NEW u \in User, NEW f \in User \ {u}, AppendLock(t, u, f) PROVE IInv'
    BY <1>2, AppendLockKeeps
<1>3. ASSUME NEW t \in Thread, HashInsert(t) PROVE IInv'
    BY <1>3, InsertNodeKeeps, InsertHeadKeeps DEF HashInsert
<1>4. ASSUME NEW t \in Thread, AppendFollower(t) PROVE IInv'
    BY <1>4, AppendCreateKeeps, AppendLinkKeeps DEF AppendFollower
<1> QED BY <1>1, <1>2, <1>3, <1>4, HashFindKeeps, SaveKeeps, LoadKeeps, StutterKeeps DEF Next

LEMMA Invariant == Spec => []IInv
    BY InitInv, InvStep, PTL DEF Spec

(***************************************************************************)
(* Every address kept in the table, in a node, in a cell or by a thread is *)
(* the address of one that is there (hash_insert, hash_find,               *)
(* chained_list_append_end).                                               *)
(***************************************************************************)
THEOREM Types == Spec => []TypeOK
<1>1. IInv => TypeOK
    BY DEF IInv
<1> QED BY <1>1, Invariant, PTL

(***************************************************************************)
(* A search that runs while others insert finds every user that was there  *)
(* when it started, and never another user's node (hash_find).             *)
(***************************************************************************)
THEOREM FindsWhoIsThere == Spec => []FindsWhatIsThere
<1>1. IInv => FindsWhatIsThere
  <2> SUFFICES ASSUME IInv, finder.of # Null, finder.done
               PROVE  IF finder.at = Null THEN ~finder.there ELSE nodes[finder.at].key = finder.of
    BY DEF FindsWhatIsThere
  <2>1. finder.at = Null => Range(Walk(nodes, finder.at)) = {}
    BY TableChains, WalkMeets
  <2> QED BY <2>1 DEF IInv, UserTableInv, FindInv
<1> QED BY <1>1, Invariant, PTL

-----------------------------------------------------------------------------
(* The table implements a map.                                              *)

LEMMA ValuesStay ==
    ASSUME NEW cells, NEW list, NEW other, NEW start, Walk(other, start) = Walk(cells, list),
           \A c \in Range(Walk(cells, list)) : other[c].val = cells[c].val
    PROVE  Values(other, start) = Values(cells, list)
    BY DEF Values, Range

LEMMA ValuesAppend ==
    ASSUME NEW cells, NEW list, Walk(cells, list) \in Seq(DOMAIN cells),
           NEW c \in DOMAIN cells, NEW other, NEW start,
           Walk(other, start) = Append(Walk(cells, list), c),
           \A d \in DOMAIN cells : other[d].val = cells[d].val
    PROVE  Values(other, start) = Append(Values(cells, list), cells[c].val)
<1> DEFINE S == DOMAIN cells  V == {cells[d].val : d \in S}
           met == Walk(cells, list)  n == Len(met)  all == Append(met, c)
           before == Values(cells, list)
<1>1. n \in Nat /\ DOMAIN met = 1 .. n /\ \A i \in 1 .. n : met[i] \in S
    BY LenProperties, ElementOfSeq
<1>2. before = [i \in 1 .. n |-> cells[met[i]].val]
    BY <1>1 DEF Values
<1>3. before \in Seq(V) /\ Len(before) = n
  <2> HIDE DEF met, n, before
  <2>1. \A i \in 1 .. n : cells[met[i]].val \in V
    BY <1>1
  <2>2. before \in [1 .. n -> V]
    BY <1>2, <2>1
  <2> QED BY <1>1, <2>2
<1>4. /\ all \in Seq(S) /\ Len(all) = n + 1 /\ \A i \in 1 .. n : all[i] = met[i]
      /\ all[n + 1] = c /\ DOMAIN all = 1 .. n + 1
  <2>1. /\ all \in Seq(S) /\ Len(all) = n + 1
        /\ \A i \in 1 .. n : all[i] = met[i]
        /\ all[n + 1] = c
    BY AppendProperties
  <2> HIDE DEF all, met, n
  <2> QED BY <2>1, LenProperties
<1>5. Values(other, start) = [i \in 1 .. n + 1 |-> other[all[i]].val]
    BY <1>4 DEF Values
<1> HIDE DEF met, n, all, before
<1>6. \A i \in 1 .. n + 1 : other[all[i]].val = IF i = n + 1 THEN cells[c].val ELSE before[i]
    BY <1>1, <1>2, <1>4
<1>7. cells[c].val \in V
    OBVIOUS
<1>8. Append(before, cells[c].val) = [i \in 1 .. n + 1 |-> IF i = n + 1 THEN cells[c].val ELSE before[i]]
    BY <1>1, <1>3
<1>9. Values(other, start) = [i \in 1 .. n + 1 |-> IF i = n + 1 THEN cells[c].val ELSE before[i]]
    BY <1>5, <1>6
<1> QED BY <1>8, <1>9 DEF before

MapInv ==
    /\ Map = [u \in DOMAIN Map |-> Map[u]]
    /\ DOMAIN Map = {nodes[n].key : n \in Linked}
    /\ \A n \in Linked : Map[nodes[n].key] = Values(heap, nodes[n].followers)

LEMMA MapIs == IInv => MapInv
<1> SUFFICES ASSUME IInv PROVE MapInv
    OBVIOUS
<1>1. \A n \in Linked : nodes[n].key \in User
    BY TableChains DEF IInv, TypeOK
<1>2. DOMAIN Map = {nodes[n].key : n \in Linked}
    BY DEF Map
<1>3. ASSUME NEW n \in Linked PROVE Map[nodes[n].key] = Values(heap, nodes[n].followers)
  <2>1. FindNode(nodes[n].key) = n
    BY <1>1, FindsNode
  <2>2. Map[nodes[n].key] = Values(heap, nodes[FindNode(nodes[n].key)].followers)
    BY <1>2 DEF Map
  <2> QED BY <2>1, <2>2
<1>4. Map = [u \in DOMAIN Map |-> Map[u]]
    BY DEF Map
<1> QED BY <1>2, <1>3, <1>4 DEF MapInv

LEMMA MapIsNext == IInv' => MapInv'
    BY MapIs, PTL

LEMMA MapStays ==
    ASSUME IInv, IInv', Linked' = Linked,
           \A n \in Linked : /\ nodes'[n].key = nodes[n].key
                             /\ Values(heap', nodes'[n].followers) = Values(heap, nodes[n].followers)
    PROVE  Map' = Map
<1>1. /\ Map' = [u \in DOMAIN Map' |-> Map'[u]]
      /\ DOMAIN Map' = {nodes'[n].key : n \in Linked'}
      /\ \A n \in Linked' : Map'[nodes'[n].key] = Values(heap', nodes'[n].followers)
    BY MapIsNext DEF MapInv
<1>2. /\ Map = [u \in DOMAIN Map |-> Map[u]]
      /\ DOMAIN Map = {nodes[n].key : n \in Linked}
      /\ \A n \in Linked : Map[nodes[n].key] = Values(heap, nodes[n].followers)
    BY MapIs DEF MapInv
<1>3. DOMAIN Map' = DOMAIN Map
    BY <1>1, <1>2
<1>4. \A u \in DOMAIN Map : Map'[u] = Map[u]
    BY <1>1, <1>2
<1> QED BY <1>1, <1>2, <1>3, <1>4

LEMMA InsertHeadInserts ==
    ASSUME IInv, IInv', NEW t \in Thread, InsertHead(t)
    PROVE  \E u \in User : Abstract!Insert(u)
<1>1. PICK u \in User, n \in DOMAIN nodes \ Linked :
              /\ op[t][1] = u /\ op[t][2] = n
              /\ Of[u] \in Bucket
              /\ nodes[n] = [key |-> u, next |-> head[Of[u]], followers |-> Null]
              /\ \A m \in Linked : nodes[m].key # u
              /\ Range(Chain(Of[u])') = Range(Chain(Of[u])) \cup {n}
              /\ \A a \in Bucket \ {Of[u]} : Chain(a)' = Chain(a)
              /\ Linked' = Linked \cup {n}
              /\ head'[Of[u]] = n /\ nodes' = nodes
    BY InsertHeadDoes
<1>2. heap' = heap
    BY DEF InsertHead
<1>3. /\ Map' = [v \in DOMAIN Map' |-> Map'[v]]
      /\ DOMAIN Map' = {nodes'[m].key : m \in Linked'}
      /\ \A m \in Linked' : Map'[nodes'[m].key] = Values(heap', nodes'[m].followers)
    BY MapIsNext DEF MapInv
<1>4. /\ DOMAIN Map = {nodes[m].key : m \in Linked}
      /\ \A m \in Linked : Map[nodes[m].key] = Values(heap, nodes[m].followers)
    BY MapIs DEF MapInv
<1>5. u \notin DOMAIN Map /\ DOMAIN Map' = DOMAIN Map \cup {u}
    BY <1>1, <1>3, <1>4
<1>6. Map'[u] = <<>>
  <2>1. Map'[u] = Values(heap, Null)
    BY <1>1, <1>2, <1>3
  <2>2. Walk(heap, Null) = <<>>
    BY TableChains, WalkDoes
  <2>3. Values(heap, Null) = <<>>
    BY <2>2 DEF Values
  <2> QED BY <2>1, <2>3
<1>7. \A v \in DOMAIN Map : Map'[v] = Map[v]
    BY <1>1, <1>2, <1>3, <1>4
<1>8. Map' = [v \in DOMAIN Map \cup {u} |-> IF v = u THEN <<>> ELSE Map[v]]
    BY <1>3, <1>5, <1>6, <1>7
<1> QED BY <1>5, <1>8 DEF Abstract!Insert

LEMMA AppendLinkAdds ==
    ASSUME IInv, IInv', NEW t \in Thread, AppendLink(t)
    PROVE  \E u \in User : \E f \in User : Abstract!AddFollower(u, f)
<1>1. PICK n \in Linked, c \in DOMAIN heap : Appends(t, n, c)
    BY AppendLinkDoes
<1>2. n \in DOMAIN nodes
    BY TableChains
<1>3. PICK u \in User, f \in User : u = nodes[n].key /\ f = heap[c].val
    BY <1>2 DEF IInv, TypeOK
<1>4. \A m \in DOMAIN nodes : nodes'[m].key = nodes[m].key /\ nodes'[m].next = nodes[m].next
    BY <1>1 DEF Appends
<1>5. Linked' = Linked
  <2>1. UNCHANGED head
    BY DEF AppendLink
  <2> QED BY <1>1, <1>4, <2>1, TableStays DEF Appends
<1>6. \A d \in DOMAIN heap : heap'[d].val = heap[d].val /\ heap[d].val \in User
    BY <1>1 DEF Appends, IInv, TypeOK
<1>7. Values(heap', nodes'[n].followers) = Append(Values(heap, nodes[n].followers), f)
  <2>1. Walk(heap, nodes[n].followers) \in Seq(DOMAIN heap)
    BY <1>2, TableChains, WalkDoes
  <2>2. Walk(heap', nodes'[n].followers) = Append(Walk(heap, nodes[n].followers), c)
    BY <1>1 DEF Appends
  <2>3. /\ \A d \in DOMAIN heap : heap[d].val \in User
        /\ \A d \in DOMAIN heap : heap'[d].val = heap[d].val
    BY <1>6
  <2>4. PICK list, start, before, after :
            list = nodes[n].followers /\ start = nodes'[n].followers /\ before = heap /\ after = heap'
    OBVIOUS
  <2>5. /\ Walk(before, list) \in Seq(DOMAIN before) /\ c \in DOMAIN before
        /\ Walk(after, start) = Append(Walk(before, list), c)
        /\ \A d \in DOMAIN before : after[d].val = before[d].val
    BY <2>1, <2>2, <2>3, <2>4
  <2>6. Values(after, start) = Append(Values(before, list), before[c].val)
    BY <2>5, ValuesAppend
  <2> QED BY <1>3, <2>4, <2>6
<1>8. \A m \in Linked \ {n} : Values(heap', nodes'[m].followers) = Values(heap, nodes[m].followers)
  <2> TAKE m \in Linked \ {n}
  <2>1. m \in DOMAIN nodes \ {n} /\ Cells(m) \subseteq DOMAIN heap
    BY TableChains
  <2>2. Walk(heap', nodes'[m].followers) = Walk(heap, nodes[m].followers)
    BY <1>1, <2>1 DEF Appends
  <2>3. \A d \in Range(Walk(heap, nodes[m].followers)) : heap'[d].val = heap[d].val
    BY <1>6, <2>1 DEF Cells
  <2> QED BY <2>2, <2>3, ValuesStay
<1>9. /\ Map' = [v \in DOMAIN Map' |-> Map'[v]]
      /\ DOMAIN Map' = {nodes'[m].key : m \in Linked'}
      /\ \A m \in Linked' : Map'[nodes'[m].key] = Values(heap', nodes'[m].followers)
    BY MapIsNext DEF MapInv
<1>10. /\ Map = [v \in DOMAIN Map |-> Map[v]]
       /\ DOMAIN Map = {nodes[m].key : m \in Linked}
       /\ \A m \in Linked : Map[nodes[m].key] = Values(heap, nodes[m].followers)
    BY MapIs DEF MapInv
<1>11. \A m \in Linked : nodes'[m].key = nodes[m].key
    BY <1>4, TableChains
<1>12. u \in DOMAIN Map /\ DOMAIN Map' = DOMAIN Map
    BY <1>3, <1>5, <1>9, <1>10, <1>11
<1>13. Map'[u] = Append(Map[u], f)
    BY <1>3, <1>5, <1>7, <1>9, <1>10, <1>11
<1>14. ASSUME NEW v \in DOMAIN Map, v # u PROVE Map'[v] = Map[v]
  <2>1. PICK m \in Linked : v = nodes[m].key
    BY <1>10
  <2>2. m # n
    BY <1>3, <1>14, <2>1
  <2> QED BY <1>5, <1>8, <1>9, <1>10, <1>11, <2>1, <2>2
<1>15. Map' = [Map EXCEPT ![u] = Append(@, f)]
    BY <1>9, <1>10, <1>12, <1>13, <1>14
<1> QED BY <1>12, <1>15 DEF Abstract!AddFollower

LEMMA MapStep ==
    ASSUME IInv, IInv', [Next]_vars
    PROVE  [Abstract!Next]_Map
<1>1. CASE \E t \in Thread : InsertHead(t)
  BY <1>1, InsertHeadInserts DEF Abstract!Next
<1>2. CASE \E t \in Thread : AppendLink(t)
  BY <1>2, AppendLinkAdds DEF Abstract!Next
<1>3. ASSUME UNCHANGED <<head, nodes, heap>> PROVE Map' = Map
  <2>1. Linked' = Linked
    BY <1>3, SameTable
  <2> QED BY <1>3, <2>1, MapStays
<1>4. ASSUME NEW t \in Thread, InsertNode(t) PROVE Map' = Map
  <2>1. UNCHANGED <<head, heap>>
    BY <1>4 DEF InsertNode
  <2>2. DOMAIN nodes \subseteq DOMAIN nodes' /\ Chains(nodes')
        /\ \A m \in DOMAIN nodes : nodes'[m] = nodes[m]
    BY <1>4, InsertNodeDoes
  <2>3. Linked' = Linked
    BY <2>1, <2>2, TableStays
  <2>4. \A m \in Linked : nodes'[m] = nodes[m]
    BY <2>2, TableChains
  <2> QED BY <2>1, <2>3, <2>4, MapStays
<1>5. ASSUME NEW t \in Thread, AppendCreate(t) PROVE Map' = Map
  <2>1. UNCHANGED <<head, nodes>>
    BY <1>5 DEF AppendCreate
  <2>2. Linked' = Linked
    BY <2>1, SameTable
  <2>3. /\ \A d \in DOMAIN heap : heap'[d] = heap[d]
        /\ \A x \in DOMAIN heap \cup {Null} : Walk(heap', x) = Walk(heap, x)
    BY <1>5, AppendCreateDoes
  <2>4. ASSUME NEW m \in Linked
        PROVE  Values(heap', nodes'[m].followers) = Values(heap, nodes[m].followers)
    <3>1. nodes[m].followers \in DOMAIN heap \cup {Null} /\ Cells(m) \subseteq DOMAIN heap
      BY TableChains
    <3>2. Walk(heap', nodes'[m].followers) = Walk(heap, nodes[m].followers)
      BY <2>1, <2>3, <3>1
    <3>3. \A d \in Range(Walk(heap, nodes[m].followers)) : heap'[d].val = heap[d].val
      BY <2>3, <3>1 DEF Cells
    <3> QED BY <3>2, <3>3, ValuesStay
  <2> QED BY <2>1, <2>2, <2>4, MapStays
<1>6. CASE \E t \in Thread, u \in User : LoginFind(t, u) \/ \E f \in User \ {u} : AppendLock(t, u, f)
  BY <1>3, <1>6 DEF LoginFind, AppendLock
<1>7. CASE HashFind \/ Save \/ Load
  BY <1>3, <1>7 DEF HashFind, FindStart, FindOn, Save, SaveStart, SaveBucket, SaveUser, Load
<1>8. CASE UNCHANGED vars
  BY <1>3, <1>8 DEF vars
<1> QED BY <1>1, <1>2, <1>4, <1>5, <1>6, <1>7, <1>8 DEF Next, HashInsert, AppendFollower

(***************************************************************************)
(* The table is a map: whatever threads log in and follow at the same      *)
(* time, InsertHead inserts one user, AppendLink adds one follower at the  *)
(* end, and no other step of hash_insert and chained_list_append_end can   *)
(* be seen.                                                                *)
(***************************************************************************)
THEOREM TableIsAMap == Spec => ImplementsUserMap
<1>1. Init => Abstract!Init
  <2> SUFFICES ASSUME Init PROVE Map = <<>>
    BY DEF Abstract!Init
  <2>1. IInv
    BY InitInv
  <2>2. Linked = {}
    BY <2>1, TableChains DEF Init
  <2> QED BY <2>2 DEF Map
<1>2. IInv /\ IInv' /\ [Next]_vars => [Abstract!Next]_Map
    BY MapStep
<1> QED BY <1>1, <1>2, Invariant, PTL DEF Spec, ImplementsUserMap, Abstract!Spec

-----------------------------------------------------------------------------
(* What save_savefile has written.                                          *)

LEMMA WalkOnce ==
    ASSUME NEW cells, Chains(cells), NEW c \in DOMAIN cells
    PROVE  c \notin Range(Walk(cells, cells[c].next))
<1>1. PICK k \in Nat : \E rank \in [DOMAIN cells -> 0 .. k] :
          \A d \in DOMAIN cells : cells[d].next # Null => rank[cells[d].next] < rank[d]
    BY DEF Chains, Falls
<1>2. PICK rank \in [DOMAIN cells -> 0 .. k] :
          \A d \in DOMAIN cells : cells[d].next # Null => rank[cells[d].next] < rank[d]
    BY <1>1
<1> DEFINE P == {d \in DOMAIN cells : \A e \in Range(Walk(cells, d)) : rank[e] <= rank[d]} \cup {Null}
<1>3. ASSUME NEW d \in DOMAIN cells, cells[d].next \in P PROVE d \in P
  <2>1. Range(Walk(cells, d)) = {d} \cup Range(Walk(cells, cells[d].next))
    BY WalkMeets
  <2>2. rank[d] \in Nat /\ \A e \in DOMAIN cells : rank[e] \in Nat
    BY <1>2
  <2>3. ASSUME NEW e \in Range(Walk(cells, cells[d].next)) PROVE rank[e] <= rank[d]
    <3>1. cells[d].next # Null /\ cells[d].next \in DOMAIN cells
      BY <2>3, WalkMeets DEF Chains
    <3>2. e \in DOMAIN cells
      BY <2>3, <3>1, WalkMeets
    <3>3. rank[e] <= rank[cells[d].next]
      BY <1>3, <2>3, <3>1
    <3>4. rank[cells[d].next] < rank[d]
      BY <1>2, <3>1
    <3> QED BY <2>2, <3>1, <3>2, <3>3, <3>4
  <2> QED BY <2>1, <2>2, <2>3
<1> HIDE DEF P
<1>4. \A d \in DOMAIN cells \cup {Null} : d \in P
  <2>1. Null \in P
    BY DEF P
  <2> QED BY <1>3, <2>1, ChainInduction
<1>5. CASE cells[c].next = Null
    BY <1>5, WalkMeets
<1>6. CASE cells[c].next # Null
  <2>1. cells[c].next \in DOMAIN cells
    BY <1>6 DEF Chains
  <2>2. \A e \in Range(Walk(cells, cells[c].next)) : rank[e] <= rank[cells[c].next]
    BY <1>4, <1>6, <2>1 DEF P
  <2>3. rank[cells[c].next] < rank[c] /\ rank[c] \in Nat /\ rank[cells[c].next] \in Nat
    BY <1>2, <1>6, <2>1
  <2> QED BY <2>2, <2>3
<1> QED BY <1>5, <1>6

LEMMA PrefixIs ==
    ASSUME NEW S, NEW s \in Seq(S), NEW t \in Seq(S)
    PROVE  IsPrefix(s, t) <=> Len(s) <= Len(t) /\ \A i \in 1 .. Len(s) : s[i] = t[i]
<1>1. Len(s) \in Nat /\ Len(t) \in Nat
    OBVIOUS
<1>2. SubSeq(s, 1, Len(s)) = [i \in 1 .. Len(s) |-> s[i]]
    OBVIOUS
<1>3. SubSeq(t, 1, Len(s)) = [i \in 1 .. Len(s) |-> t[i]]
    OBVIOUS
<1> QED BY <1>1, <1>2, <1>3 DEF IsPrefix

LEMMA PrefixTransitive ==
    ASSUME NEW S, NEW s \in Seq(S), NEW t \in Seq(S), NEW u \in Seq(S),
           IsPrefix(s, t), IsPrefix(t, u)
    PROVE  IsPrefix(s, u)
<1>1. Len(s) \in Nat /\ Len(t) \in Nat /\ Len(u) \in Nat
    OBVIOUS
<1>2. Len(s) <= Len(t) /\ \A i \in 1 .. Len(s) : s[i] = t[i]
    BY PrefixIs
<1>3. Len(t) <= Len(u) /\ \A i \in 1 .. Len(t) : t[i] = u[i]
    BY PrefixIs
<1>4. Len(s) <= Len(u) /\ \A i \in 1 .. Len(s) : s[i] = u[i]
    BY <1>1, <1>2, <1>3
<1> QED BY <1>4, PrefixIs

LEMMA PrefixAppend ==
    ASSUME NEW S, NEW s \in Seq(S), NEW e \in S
    PROVE  IsPrefix(s, s) /\ IsPrefix(s, Append(s, e))
<1>1. Len(s) \in Nat
    OBVIOUS
<1>2. Append(s, e) \in Seq(S) /\ Len(Append(s, e)) = Len(s) + 1
    BY AppendProperties
<1>3. \A i \in 1 .. Len(s) : Append(s, e)[i] = s[i]
    BY AppendProperties
<1>4. Len(s) <= Len(Append(s, e)) /\ \A i \in 1 .. Len(s) : s[i] = Append(s, e)[i]
    BY <1>1, <1>2, <1>3
<1>5. IsPrefix(s, Append(s, e))
    BY <1>2, <1>4, PrefixIs
<1>6. IsPrefix(s, s)
    BY <1>1, PrefixIs
<1> QED BY <1>5, <1>6

LEMMA MapType ==
    ASSUME IInv
    PROVE  \A u \in DOMAIN Map : u \in User /\ Map[u] \in Seq(User)
<1> TAKE u \in DOMAIN Map
<1>1. PICK n \in Linked : u = nodes[n].key /\ Map[u] = Values(heap, nodes[n].followers)
    BY MapIs DEF MapInv
<1>2. n \in DOMAIN nodes /\ nodes[n].followers \in DOMAIN heap \cup {Null}
    BY TableChains
<1>3. \A c \in DOMAIN heap : heap[c].val \in User
    BY DEF IInv, TypeOK
<1>4. PICK list : list = nodes[n].followers
    OBVIOUS
<1>5. Values(heap, list) \in Seq(User)
    BY <1>2, <1>3, <1>4, TableChains, ValuesType
<1>6. u \in User
    BY <1>1, <1>2 DEF IInv, TypeOK
<1> QED BY <1>1, <1>4, <1>5, <1>6

LEMMA MapTypeNext == IInv' => (\A u \in DOMAIN Map : u \in User /\ Map[u] \in Seq(User))'
<1>1. IInv => (\A u \in DOMAIN Map : u \in User /\ Map[u] \in Seq(User))
    BY MapType
<1> QED BY <1>1, PTL

\* Nothing is taken from the table.
LEMMA MapGrows ==
    ASSUME IInv, IInv', [Next]_vars
    PROVE  /\ DOMAIN Map \subseteq DOMAIN Map'
           /\ \A u \in DOMAIN Map : IsPrefix(Map[u], Map'[u])
<1>1. \A u \in DOMAIN Map : Map[u] \in Seq(User)
    BY MapType
<1>2. CASE \E u \in User : Abstract!Insert(u)
  <2>1. PICK u \in User : Abstract!Insert(u)
    BY <1>2
  <2>2. u \notin DOMAIN Map /\ Map' = [v \in DOMAIN Map \cup {u} |-> IF v = u THEN <<>> ELSE Map[v]]
    BY <2>1 DEF Abstract!Insert
  <2>3. DOMAIN Map \subseteq DOMAIN Map' /\ \A v \in DOMAIN Map : Map'[v] = Map[v]
    BY <2>2
  <2> QED BY <1>1, <2>1, <2>3, PrefixAppend
<1>3. CASE \E u \in User : \E f \in User : Abstract!AddFollower(u, f)
  <2>1. PICK u \in User, f \in User : Abstract!AddFollower(u, f)
    BY <1>3
  <2>2. u \in DOMAIN Map /\ Map' = [Map EXCEPT ![u] = Append(@, f)]
    BY <2>1 DEF Abstract!AddFollower
  <2>3. DOMAIN Map' = DOMAIN Map
    BY <2>2
  <2>4. ASSUME NEW v \in DOMAIN Map PROVE IsPrefix(Map[v], Map'[v])
    <3>1. CASE v = u
      <4>1. Map'[v] = Append(Map[v], f)
        BY <2>2, <3>1
      <4>2. IsPrefix(Map[v], Append(Map[v], f))
        BY <1>1, PrefixAppend
      <4> QED BY <4>1, <4>2
    <3>2. CASE v # u
      <4>1. Map'[v] = Map[v]
        BY <2>2, <3>2
      <4>2. IsPrefix(Map[v], Map[v])
        BY <1>1, <2>1, PrefixAppend
      <4> QED BY <4>1, <4>2
    <3> QED BY <3>1, <3>2
  <2> QED BY <2>3, <2>4
<1>4. CASE Map' = Map
  <2>1. ASSUME NEW v \in DOMAIN Map PROVE IsPrefix(Map[v], Map[v])
    <3>1. v \in User /\ Map[v] \in Seq(User)
      BY MapType
    <3> QED BY <3>1, PrefixAppend
  <2> QED BY <1>4, <2>1
<1>5. \/ \E u \in User : Abstract!Insert(u)
      \/ \E u \in User : \E f \in User : Abstract!AddFollower(u, f)
      \/ Map' = Map
    BY MapStep DEF Abstract!Next
<1> QED BY <1>2, <1>3, <1>4, <1>5

\* Who is on the way through the table sees the nodes that it would have seen.
LEMMA ReaderSeesSame ==
    ASSUME IInv, [Next]_vars
    PROVE  /\ \A x \in DOMAIN nodes \cup {Null} : Walk(nodes', x) = Walk(nodes, x)
           /\ \A m \in DOMAIN nodes : nodes'[m].key = nodes[m].key
           /\ \A a \in Bucket : Range(Chain(a)) \subseteq Range(Chain(a)')
<1>1. ASSUME NEW t \in Thread, InsertNode(t)
      PROVE  /\ \A x \in DOMAIN nodes \cup {Null} : Walk(nodes', x) = Walk(nodes, x)
             /\ \A m \in DOMAIN nodes : nodes'[m].key = nodes[m].key
             /\ \A a \in Bucket : Range(Chain(a)) \subseteq Range(Chain(a)')
  <2>1. UNCHANGED head
    BY <1>1 DEF InsertNode
  <2>2. DOMAIN nodes \subseteq DOMAIN nodes' /\ Chains(nodes')
        /\ \A m \in DOMAIN nodes : nodes'[m] = nodes[m]
    BY <1>1, InsertNodeDoes
  <2>3. \A m \in DOMAIN nodes : nodes'[m].next = nodes[m].next /\ nodes'[m].key = nodes[m].key
    BY <2>2
  <2>4. /\ \A x \in DOMAIN nodes \cup {Null} : Walk(nodes', x) = Walk(nodes, x)
        /\ \A a \in Bucket : Chain(a)' = Chain(a)
    BY <2>1, <2>2, <2>3, TableStays
  <2>5. \A a \in Bucket : Range(Chain(a)) = Range(Chain(a)')
    BY <2>4
  <2> QED BY <2>3, <2>4, <2>5
<1>2. ASSUME NEW t \in Thread, InsertHead(t)
      PROVE  /\ nodes' = nodes
             /\ \A a \in Bucket : Range(Chain(a)) \subseteq Range(Chain(a)')
  <2>1. PICK u \in User, n \in DOMAIN nodes \ Linked :
            /\ Range(Chain(Of[u])') = Range(Chain(Of[u])) \cup {n}
            /\ \A a \in Bucket \ {Of[u]} : Chain(a)' = Chain(a)
            /\ nodes' = nodes
    BY <1>2, InsertHeadDoes
  <2>2. ASSUME NEW a \in Bucket PROVE Range(Chain(a)) \subseteq Range(Chain(a)')
    <3>1. CASE a = Of[u]
      BY <2>1, <3>1
    <3>2. CASE a # Of[u]
      <4>1. Chain(a)' = Chain(a)
        BY <2>1, <3>2
      <4> QED BY <4>1
    <3> QED BY <3>1, <3>2
  <2> QED BY <2>1, <2>2
<1>3. ASSUME NEW t \in Thread, AppendLink(t)
      PROVE  /\ \A x \in DOMAIN nodes \cup {Null} : Walk(nodes', x) = Walk(nodes, x)
             /\ \A m \in DOMAIN nodes : nodes'[m].key = nodes[m].key
             /\ \A a \in Bucket : Range(Chain(a)) \subseteq Range(Chain(a)')
  <2>1. PICK n \in Linked, c \in DOMAIN heap : Appends(t, n, c)
    BY <1>3, AppendLinkDoes
  <2>2. \A m \in DOMAIN nodes : nodes'[m].key = nodes[m].key /\ nodes'[m].next = nodes[m].next
    BY <2>1 DEF Appends
  <2>3. UNCHANGED head
    BY <1>3 DEF AppendLink
  <2>4. /\ \A x \in DOMAIN nodes \cup {Null} : Walk(nodes', x) = Walk(nodes, x)
        /\ \A a \in Bucket : Chain(a)' = Chain(a)
    BY <2>1, <2>2, <2>3, TableStays DEF Appends
  <2>5. \A a \in Bucket : Range(Chain(a)) = Range(Chain(a)')
    BY <2>4
  <2> QED BY <2>2, <2>4, <2>5
<1>4. ASSUME UNCHANGED <<head, nodes>>
      PROVE  nodes' = nodes /\ \A a \in Bucket : Range(Chain(a)) \subseteq Range(Chain(a)')
  <2>1. \A a \in Bucket : Chain(a)' = Chain(a)
    BY <1>4, SameTable
  <2> QED BY <1>4, <2>1
<1>5. \/ \E t \in Thread : InsertNode(t) \/ InsertHead(t) \/ AppendLink(t)
      \/ UNCHANGED <<head, nodes>>
    BY DEF Next, LoginFind, AppendLock, HashInsert, AppendFollower, AppendCreate, vars,
           HashFind, FindStart, FindOn, Save, SaveStart, SaveBucket, SaveUser, Load
<1> QED BY <1>1, <1>2, <1>3, <1>4, <1>5

LEMMA SaveInvInit == Init => SaveInv
    BY DEF Init, SaveInv

\* Whatever others do to the table, what is written stays right.
LEMMA OthersKeepSave ==
    ASSUME IInv, IInv', SaveInv, [Next]_vars, UNCHANGED <<saver, file>>
    PROVE  SaveInv'
<1>1. SUFFICES ASSUME saver.pc # "idle"
               PROVE  /\ DOMAIN saver.map \subseteq DOMAIN Map'
                      /\ \A u \in DOMAIN saver.map :
                            saver.map[u] \in Seq(User) /\ IsPrefix(saver.map[u], Map'[u])
                      /\ Range(Walk(nodes', saver.at)) \subseteq Range(Chain(saver.bucket)')
                      /\ \E k \in 0 .. Len(file) : Written(k)'
    BY DEF SaveInv, Chain
<1>2. /\ saver.at \in DOMAIN nodes \cup {Null} /\ saver.bucket \in Bucket
      /\ file \in Seq(Seq(User))
    BY DEF IInv, TypeOK
<1>3. PICK k \in 0 .. Len(file) : Written(k)
    BY <1>1 DEF SaveInv
<1>4. /\ DOMAIN saver.map \subseteq DOMAIN Map
      /\ \A u \in DOMAIN saver.map : saver.map[u] \in Seq(User) /\ IsPrefix(saver.map[u], Map[u])
      /\ Range(Walk(nodes, saver.at)) \subseteq Range(Chain(saver.bucket))
    BY <1>1 DEF SaveInv
<1>5. /\ DOMAIN Map \subseteq DOMAIN Map'
      /\ \A u \in DOMAIN Map : IsPrefix(Map[u], Map'[u])
    BY MapGrows
<1>6. /\ \A u \in DOMAIN Map : Map[u] \in Seq(User)
      /\ \A u \in DOMAIN Map : Map'[u] \in Seq(User)
  <2>1. \A u \in DOMAIN Map' : Map'[u] \in Seq(User)
    BY MapTypeNext
  <2> QED BY <1>5, <2>1, MapType
<1>7. ASSUME NEW s \in Seq(User), NEW u \in DOMAIN Map, IsPrefix(s, Map[u])
      PROVE  IsPrefix(s, Map'[u])
  <2>1. Map[u] \in Seq(User) /\ Map'[u] \in Seq(User) /\ IsPrefix(Map[u], Map'[u])
    BY <1>5, <1>6
  <2> QED BY <1>7, <2>1, PrefixTransitive
<1>8. /\ Walk(nodes', saver.at) = Walk(nodes, saver.at)
      /\ Range(Walk(nodes, saver.at)) \subseteq DOMAIN nodes
      /\ \A m \in DOMAIN nodes : nodes'[m].key = nodes[m].key
      /\ Range(Chain(saver.bucket)) \subseteq Range(Walk(nodes', head'[saver.bucket]))
  <2>1. PICK b \in Bucket : b = saver.bucket
    BY <1>2
  <2>2. Range(Chain(b)) \subseteq Range(Chain(b)')
    BY ReaderSeesSame
  <2>3. Range(Chain(saver.bucket)) \subseteq Range(Walk(nodes', head'[saver.bucket]))
    BY <2>1, <2>2 DEF Chain
  <2> QED BY <1>2, <2>3, ReaderSeesSame, TableChains, WalkMeets
<1>9. \A u : Ahead(u)' <=> Ahead(u)
    BY <1>8 DEF Ahead
<1>10. Written(k)'
  <2>1. Len(file) = 2 * k /\ k \in Nat
    BY <1>2, <1>3 DEF Written
  <2>2. ASSUME NEW i \in 1 .. k
        PROVE  \E u \in DOMAIN Map' :
                  /\ file[2 * i - 1] = <<u>> /\ ~Ahead(u)'
                  /\ IsPrefix(file[2 * i], Map'[u])
                  /\ u \in DOMAIN saver.map => IsPrefix(saver.map[u], file[2 * i])
    <3>1. PICK u \in DOMAIN Map :
              /\ file[2 * i - 1] = <<u>> /\ ~Ahead(u)
              /\ IsPrefix(file[2 * i], Map[u])
              /\ u \in DOMAIN saver.map => IsPrefix(saver.map[u], file[2 * i])
      BY <1>3 DEF Written
    <3>2. file[2 * i] \in Seq(User)
      <4>1. 2 * i \in 1 .. Len(file)
        BY <2>1
      <4> QED BY <1>2, <4>1, ElementOfSeq
    <3>3. IsPrefix(file[2 * i], Map'[u])
      BY <1>7, <3>1, <3>2
    <3> QED BY <1>5, <1>9, <3>1, <3>3
  <2>3. \A i, j \in 1 .. k : file[2 * i - 1] = file[2 * j - 1] => i = j
    BY <1>3 DEF Written
  <2>4. \A u \in DOMAIN saver.map : Ahead(u)' \/ \E i \in 1 .. k : file[2 * i - 1] = <<u>>
    BY <1>3, <1>9 DEF Written
  <2> QED BY <2>1, <2>2, <2>3, <2>4 DEF Written
<1>11. \A u \in DOMAIN saver.map : saver.map[u] \in Seq(User) /\ IsPrefix(saver.map[u], Map'[u])
    BY <1>4, <1>7
<1> QED BY <1>3, <1>4, <1>5, <1>8, <1>10, <1>11 DEF Chain

LEMMA SaveStartKeepsSave ==
    ASSUME IInv, SaveInv, SaveStart
    PROVE  SaveInv'
<1>1. /\ saver' = [pc |-> "bucket", bucket |-> 0, at |-> head[0], map |-> Map]
      /\ UNCHANGED <<head, nodes, heap, file>> /\ file = <<>>
    BY DEF SaveStart, SaveInv, NoReader
<1>2. 0 \in Bucket
    BY UserTableAssumption DEF Bucket
<1>3. Map' = Map
    BY <1>1 DEF Map, Linked, FindNode, Chain, Bucket
<1>4. ASSUME NEW u \in DOMAIN Map PROVE saver'.map[u] \in Seq(User) /\ IsPrefix(saver'.map[u], Map'[u])
  <2>1. Map[u] \in Seq(User) /\ u \in User
    BY MapType
  <2> QED BY <1>1, <1>3, <2>1, PrefixAppend
<1>5. ASSUME NEW u \in DOMAIN Map PROVE Ahead(u)'
  <2>1. PICK n \in Linked : u = nodes[n].key
    BY MapIs DEF MapInv
  <2>2. u \in User /\ Of[u] \in Bucket /\ n \in Range(Chain(Of[u]))
    BY <2>1, MapType, UsersInTable, LinkedInBucket
  <2>3. HASH_SIZE \in Nat
    BY UserTableAssumption
  <2>4. Of[u] > 0 \/ Of[u] = 0
    BY <2>2, <2>3 DEF Bucket
  <2> QED BY <1>1, <2>1, <2>2, <2>4 DEF Ahead, Chain
<1>6. Written(0)'
  <2>1. Len(file') = 2 * 0 /\ DOMAIN saver'.map = DOMAIN Map
    BY <1>1
  <2> QED BY <1>5, <2>1 DEF Written
<1>7. Range(Walk(nodes', saver'.at)) \subseteq Range(Walk(nodes', head'[saver'.bucket]))
    BY <1>1
<1>8. \E k \in 0 .. Len(file') : Written(k)'
  <2>1. 0 \in 0 .. Len(file')
    BY <1>1
  <2> QED BY <1>6, <2>1
<1> QED BY <1>1, <1>3, <1>4, <1>7, <1>8 DEF SaveInv, Chain

LEMMA SaveBucketKeepsSave ==
    ASSUME IInv, SaveInv, SaveBucket
    PROVE  SaveInv'
<1>1. /\ saver.pc = "bucket" /\ saver.at = Null
      /\ saver' = IF saver.bucket = HASH_SIZE - 1 THEN [saver EXCEPT !.pc = "done"]
                  ELSE [saver EXCEPT !.bucket = @ + 1, !.at = head[saver.bucket + 1]]
      /\ UNCHANGED <<head, nodes, heap, file>>
    BY DEF SaveBucket
<1>2. /\ saver \in [pc : {"idle", "bucket", "done"}, bucket : Bucket,
                    at : DOMAIN nodes \cup {Null}, map : {saver.map}]
      /\ file \in Seq(Seq(User)) /\ HASH_SIZE \in Nat \ {0}
    BY UserTableAssumption DEF IInv, TypeOK
<1>3. PICK k \in 0 .. Len(file) : Written(k)
    BY <1>1 DEF SaveInv
<1>4. /\ DOMAIN saver.map \subseteq DOMAIN Map
      /\ \A u \in DOMAIN saver.map : saver.map[u] \in Seq(User) /\ IsPrefix(saver.map[u], Map[u])
    BY <1>1 DEF SaveInv
<1>5. Map' = Map
    BY <1>1 DEF Map, Linked, FindNode, Chain, Bucket
<1>6. Range(Walk(nodes, saver.at)) = {}
    BY <1>1, TableChains, WalkMeets
<1>7. \A u : Ahead(u) <=> Of[u] > saver.bucket
    BY <1>1, <1>6 DEF Ahead
<1>8. \A u \in DOMAIN Map : Of[u] \in 0 .. HASH_SIZE - 1
    BY MapType, UsersInTable DEF Bucket
<1>9. saver'.map = saver.map /\ saver'.pc # "idle"
    BY <1>1, <1>2
<1>10. /\ \A u \in DOMAIN Map : Ahead(u)' <=> Ahead(u)
       /\ Range(Walk(nodes', saver'.at)) \subseteq Range(Walk(nodes', head'[saver'.bucket]))
  <2>1. CASE saver.bucket = HASH_SIZE - 1
    <3>1. saver'.pc = "done" /\ saver'.at = Null
      BY <1>1, <1>2, <2>1
    <3>2. \A u \in DOMAIN Map : ~Ahead(u)' /\ ~Ahead(u)
      BY <1>2, <1>7, <1>8, <2>1, <3>1 DEF Ahead
    <3>3. Range(Walk(nodes', saver'.at)) = {}
      BY <1>1, <1>6, <3>1
    <3> QED BY <3>2, <3>3
  <2>2. CASE saver.bucket # HASH_SIZE - 1
    <3>1. /\ saver'.pc = "bucket" /\ saver'.bucket = saver.bucket + 1
          /\ saver'.at = head[saver.bucket + 1] /\ saver.bucket \in 0 .. HASH_SIZE - 1
          /\ saver.bucket + 1 \in Bucket
      BY <1>1, <1>2, <2>2 DEF Bucket
    <3>2. ASSUME NEW u \in DOMAIN Map PROVE Ahead(u)' <=> Ahead(u)
      <4>1. PICK n \in Linked : u = nodes[n].key
        BY MapIs DEF MapInv
      <4>2. n \in Range(Chain(Of[u]))
        BY <4>1, LinkedInBucket
      <4>3. Ahead(u)' <=> \/ Of[u] > saver.bucket + 1
                          \/ \E m \in Range(Chain(saver.bucket + 1)) : nodes[m].key = u
        BY <1>1, <3>1 DEF Ahead, Chain
      <4>4. \A m \in Range(Chain(saver.bucket + 1)) : Of[nodes[m].key] = saver.bucket + 1
        BY <3>1 DEF IInv, UserTableInv, ChainInv
      <4>5. (\E m \in Range(Chain(saver.bucket + 1)) : nodes[m].key = u) <=> Of[u] = saver.bucket + 1
        BY <4>1, <4>2, <4>4
      <4> QED BY <1>7, <1>8, <3>1, <4>3, <4>5
    <3>3. Range(Walk(nodes', saver'.at)) \subseteq Range(Walk(nodes', head'[saver'.bucket]))
      BY <1>1, <3>1
    <3> QED BY <3>2, <3>3
  <2> QED BY <2>1, <2>2
<1>11. Written(k)'
  <2>1. \A i \in 1 .. k : \E u \in DOMAIN Map :
                  /\ file[2 * i - 1] = <<u>> /\ ~Ahead(u)
                  /\ IsPrefix(file[2 * i], Map[u])
                  /\ u \in DOMAIN saver.map => IsPrefix(saver.map[u], file[2 * i])
    BY <1>3 DEF Written
  <2>2. \A u \in DOMAIN saver.map : Ahead(u)' \/ \E i \in 1 .. k : file[2 * i - 1] = <<u>>
    BY <1>3, <1>4, <1>10 DEF Written
  <2> QED BY <1>1, <1>3, <1>5, <1>9, <1>10, <2>1, <2>2 DEF Written
<1> QED BY <1>1, <1>3, <1>4, <1>5, <1>9, <1>10, <1>11 DEF SaveInv, Chain

LEMMA SaveUserKeepsSave ==
    ASSUME IInv, SaveInv, SaveUser
    PROVE  SaveInv'
<1>1. /\ saver.pc = "bucket" /\ saver.at # Null
      /\ saver' = [saver EXCEPT !.at = nodes[saver.at].next]
      /\ file' = file \o SavedUser(nodes[saver.at].key, Values(heap, nodes[saver.at].followers))
      /\ UNCHANGED <<head, nodes, heap>>
    BY DEF SaveUser
<1>2. /\ saver \in [pc : {"idle", "bucket", "done"}, bucket : Bucket,
                    at : DOMAIN nodes \cup {Null}, map : {saver.map}]
      /\ file \in Seq(Seq(User))
    BY DEF IInv, TypeOK
<1>3. PICK k \in 0 .. Len(file) : Written(k)
    BY <1>1 DEF SaveInv
<1>4. /\ DOMAIN saver.map \subseteq DOMAIN Map
      /\ \A u \in DOMAIN saver.map : saver.map[u] \in Seq(User) /\ IsPrefix(saver.map[u], Map[u])
      /\ Range(Walk(nodes, saver.at)) \subseteq Range(Chain(saver.bucket))
    BY <1>1 DEF SaveInv
<1>5. Map' = Map
    BY <1>1 DEF Map, Linked, FindNode, Chain, Bucket
<1>6. /\ saver'.map = saver.map /\ saver'.pc = "bucket" /\ saver'.bucket = saver.bucket
      /\ saver'.at = nodes[saver.at].next /\ saver.bucket \in Bucket
    BY <1>1, <1>2
<1>7. PICK n \in DOMAIN nodes : n = saver.at
    BY <1>1, <1>2
<1>8. Range(Walk(nodes, n)) = {n} \cup Range(Walk(nodes, nodes[n].next))
      /\ n \notin Range(Walk(nodes, nodes[n].next))
    BY TableChains, WalkMeets, WalkOnce
<1>9. n \in Range(Chain(saver.bucket)) /\ n \in Linked
    BY <1>4, <1>6, <1>7, <1>8 DEF Linked
<1>10. PICK u \in DOMAIN Map, v \in Seq(User) :
           /\ u = nodes[n].key /\ v = Values(heap, nodes[n].followers)
           /\ v = Map[u]
  <2>1. nodes[n].key \in DOMAIN Map /\ Map[nodes[n].key] = Values(heap, nodes[n].followers)
    BY <1>9, MapIs DEF MapInv
  <2> QED BY <2>1, MapType
<1>11. u \in User /\ Of[u] = saver.bucket
    BY <1>6, <1>9, <1>10, MapType DEF IInv, UserTableInv, ChainInv
<1>12. Ahead(u) /\ ~Ahead(u)' /\ \A w : w # u => (Ahead(w)' <=> Ahead(w))
  <2>1. Ahead(u)
    BY <1>1, <1>7, <1>8, <1>10 DEF Ahead
  <2>2. ~(\E m \in Range(Walk(nodes, nodes[n].next)) : nodes[m].key = u)
    <3> SUFFICES ASSUME NEW m \in Range(Walk(nodes, nodes[n].next)), nodes[m].key = u PROVE FALSE
      OBVIOUS
    <3>1. m \in Linked
      BY <1>4, <1>6, <1>7, <1>8 DEF Linked
    <3>2. m = n
      BY <1>9, <1>10, <3>1 DEF IInv, UserTableInv, ChainInv
    <3> QED BY <1>8, <3>2
  <2>3. ~(Of[u] > saver.bucket)
    <3>1. saver.bucket \in Int
      BY <1>6 DEF Bucket
    <3> QED BY <1>11, <3>1
  <2>4. ~Ahead(u)'
    BY <1>1, <1>6, <1>7, <2>2, <2>3 DEF Ahead
  <2>5. ASSUME NEW w, w # u PROVE Ahead(w)' <=> Ahead(w)
    BY <1>1, <1>6, <1>7, <1>8, <1>10, <2>5 DEF Ahead
  <2> QED BY <2>1, <2>4, <2>5
<1>13. Len(file) = 2 * k /\ k \in Nat
    BY <1>2, <1>3 DEF Written
<1>14. /\ file' \in Seq(Seq(User)) /\ Len(file') = 2 * (k + 1)
       /\ \A i \in 1 .. 2 * k : file'[i] = file[i]
       /\ file'[2 * (k + 1) - 1] = <<u>> /\ file'[2 * (k + 1)] = v
  <2>1. <<<<u>>, v>> \in Seq(Seq(User)) /\ Len(<<<<u>>, v>>) = 2
        /\ <<<<u>>, v>>[1] = <<u>> /\ <<<<u>>, v>>[2] = v
    BY <1>10, <1>11
  <2>2. file' = file \o <<<<u>>, v>>
    BY <1>1, <1>7, <1>10 DEF SavedUser
  <2>3. /\ file' \in Seq(Seq(User)) /\ Len(file') = Len(file) + 2
        /\ \A i \in 1 .. Len(file) + 2 :
              file'[i] = IF i <= Len(file) THEN file[i] ELSE <<<<u>>, v>>[i - Len(file)]
    BY <1>2, <2>1, <2>2, ConcatProperties
  <2>4. 2 * (k + 1) = 2 * k + 2 /\ 2 * (k + 1) - 1 = 2 * k + 1
    BY <1>13
  <2>5. file'[2 * k + 1] = <<u>> /\ file'[2 * k + 2] = v
    <3>1. /\ 2 * k + 1 \in 1 .. Len(file) + 2 /\ 2 * k + 2 \in 1 .. Len(file) + 2
          /\ ~(2 * k + 1 <= Len(file)) /\ ~(2 * k + 2 <= Len(file))
          /\ 2 * k + 1 - Len(file) = 1 /\ 2 * k + 2 - Len(file) = 2
      BY <1>13
    <3>2. \A i \in 1 .. Len(file) + 2 :
              file'[i] = IF i <= Len(file) THEN file[i] ELSE <<<<u>>, v>>[i - Len(file)]
      BY <2>3
    <3> QED BY <2>1, <3>1, <3>2
  <2>6. \A i \in 1 .. 2 * k : file'[i] = file[i]
    BY <1>13, <2>3
  <2>7. Len(file') = 2 * k + 2
    BY <1>13, <2>3
  <2> QED BY <2>3, <2>4, <2>5, <2>6, <2>7
<1>15. \A i \in 1 .. k : file'[2 * i - 1] = file[2 * i - 1] /\ file'[2 * i] = file[2 * i]
  <2>1. \A i \in 1 .. k : 2 * i - 1 \in 1 .. 2 * k /\ 2 * i \in 1 .. 2 * k
    BY <1>13
  <2> QED BY <1>14, <2>1
<1>16. \A i \in 1 .. k : \E w \in DOMAIN Map :
                  /\ file[2 * i - 1] = <<w>> /\ ~Ahead(w)
                  /\ IsPrefix(file[2 * i], Map[w])
                  /\ w \in DOMAIN saver.map => IsPrefix(saver.map[w], file[2 * i])
    BY <1>3 DEF Written
<1>17. Written(k + 1)'
  <2>1. ASSUME NEW i \in 1 .. k + 1
        PROVE  \E w \in DOMAIN Map :
                  /\ file'[2 * i - 1] = <<w>> /\ ~Ahead(w)'
                  /\ IsPrefix(file'[2 * i], Map[w])
                  /\ w \in DOMAIN saver.map => IsPrefix(saver.map[w], file'[2 * i])
    <3>1. CASE i = k + 1
      <4>1. file'[2 * i - 1] = <<u>> /\ file'[2 * i] = v
        BY <1>14, <3>1
      <4>2. IsPrefix(v, v)
        BY <1>11, PrefixAppend
      <4>3. u \in DOMAIN saver.map => IsPrefix(saver.map[u], v)
        BY <1>4, <1>10
      <4> QED BY <1>10, <1>12, <4>1, <4>2, <4>3
    <3>2. CASE i # k + 1
      <4>1. i \in 1 .. k
        BY <1>13, <3>2
      <4>2. PICK w \in DOMAIN Map :
                  /\ file[2 * i - 1] = <<w>> /\ ~Ahead(w)
                  /\ IsPrefix(file[2 * i], Map[w])
                  /\ w \in DOMAIN saver.map => IsPrefix(saver.map[w], file[2 * i])
        BY <1>16, <4>1
      <4>3. ~Ahead(w)'
        BY <1>12, <4>2
      <4> QED BY <1>15, <4>1, <4>2, <4>3
    <3> QED BY <3>1, <3>2
  <2>2. ASSUME NEW i \in 1 .. k + 1, NEW j \in 1 .. k + 1, file'[2 * i - 1] = file'[2 * j - 1]
        PROVE  i = j
    <3>1. ASSUME NEW x \in 1 .. k PROVE file'[2 * x - 1] # <<u>>
      <4>1. PICK w \in DOMAIN Map : file[2 * x - 1] = <<w>> /\ ~Ahead(w)
        BY <1>16
      <4>2. w # u
        BY <1>12, <4>1
      <4> QED BY <1>15, <4>1, <4>2
    <3>2. CASE i \in 1 .. k /\ j \in 1 .. k
      BY <1>3, <1>15, <2>2, <3>2 DEF Written
    <3>3. CASE i = k + 1 /\ j \in 1 .. k
      BY <1>14, <2>2, <3>1, <3>3
    <3>4. CASE i \in 1 .. k /\ j = k + 1
      BY <1>14, <2>2, <3>1, <3>4
    <3>5. CASE i = k + 1 /\ j = k + 1
      BY <3>5
    <3>6. \A x \in 1 .. k + 1 : x \in 1 .. k \/ x = k + 1
      BY <1>13
    <3> QED BY <3>2, <3>3, <3>4, <3>5, <3>6
  <2>3. ASSUME NEW w \in DOMAIN saver.map
        PROVE  Ahead(w)' \/ \E i \in 1 .. k + 1 : file'[2 * i - 1] = <<w>>
    <3>1. CASE w = u
      <4>1. k + 1 \in 1 .. k + 1
        BY <1>13
      <4> QED BY <1>14, <3>1, <4>1
    <3>2. CASE w # u
      <4>1. Ahead(w) \/ \E i \in 1 .. k : file[2 * i - 1] = <<w>>
        BY <1>3 DEF Written
      <4>2. 1 .. k \subseteq 1 .. k + 1
        BY <1>13
      <4> QED BY <1>12, <1>15, <3>2, <4>1, <4>2
    <3> QED BY <3>1, <3>2
  <2>4. Len(file') = 2 * (k + 1)
    BY <1>14
  <2> QED BY <1>5, <1>6, <2>1, <2>2, <2>3, <2>4 DEF Written
<1>18. k + 1 \in 0 .. Len(file')
    BY <1>13, <1>14
<1>19. Range(Walk(nodes', saver'.at)) \subseteq Range(Walk(nodes', head'[saver'.bucket]))
    BY <1>1, <1>4, <1>6, <1>7, <1>8 DEF Chain
<1> QED BY <1>4, <1>5, <1>6, <1>17, <1>18, <1>19 DEF SaveInv, Chain

LEMMA SaveInvStep == IInv /\ IInv' /\ SaveInv /\ [Next]_vars => SaveInv'
<1> SUFFICES ASSUME IInv, IInv', SaveInv, [Next]_vars PROVE SaveInv'
    OBVIOUS
<1>1. Save \/ UNCHANGED <<saver, file>>
    BY DEF Next, LoginFind, AppendLock, HashInsert, InsertNode, InsertHead, AppendFollower, AppendCreate,
           AppendLink, HashFind, FindStart, FindOn, Load, vars, readVars
<1> QED BY <1>1, OthersKeepSave, SaveStartKeepsSave, SaveBucketKeepsSave, SaveUserKeepsSave DEF Save

-----------------------------------------------------------------------------
(* What read_savefile reads.                                                *)

LEMMA LoadInvInit == Init => LoadInv
<1> SUFFICES ASSUME Init PROVE LoadInv
    OBVIOUS
<1>1. /\ loader = [at |-> [line |-> 1, names |-> 0], table |-> <<>>]
      /\ file = <<>> /\ 0 \in Nat /\ 2 * 0 + 1 = 1 /\ Len(file) = 0
    BY DEF Init
<1>2. Kept(0)
    BY <1>1 DEF Kept
<1> QED BY <1>1, <1>2 DEF LoadInv

\* A turn that reads a whole pair.
LEMMA PairRead ==
    ASSUME NEW lines \in Seq(Seq(User)), NEW j \in Nat, 2 * j + 2 <= Len(lines), NEW before,
           NEW u \in User, lines[2 * j + 1] = <<u>>
    PROVE  LET at == [line |-> 2 * j + 1, names |-> 0] IN
           /\ ~NoMore(lines, at)
           /\ Len(lines[2 * j + 2]) <= ListRoom =>
                 /\ Read(lines, at, before) = [user |-> u, followers |-> lines[2 * j + 2]]
                 /\ ReadTo(lines, at) = [line |-> 2 * j + 3, names |-> 0]
<1> DEFINE at   == [line |-> 2 * j + 1, names |-> 0]
           next == [line |-> 2 * j + 2, names |-> 0]
<1>1. NameRoom \in Nat \ {0} /\ ListRoom \in Nat \ {0}
    BY SavefileAssumption
<1>2. /\ at.line = 2 * j + 1 /\ at.names = 0 /\ next.line = 2 * j + 2 /\ next.names = 0
      /\ Len(lines) \in Nat /\ 2 * j + 1 + 1 = 2 * j + 2
      /\ 2 * j + 2 + 1 = 2 * j + 3
    OBVIOUS
<1>3. PICK list \in Seq(User) : list = lines[2 * j + 2]
  <2>1. 2 * j + 2 \in 1 .. Len(lines) /\ 2 * j + 1 <= Len(lines)
    BY <1>2
  <2>2. lines[2 * j + 2] \in Seq(User)
    BY <2>1, ElementOfSeq
  <2> QED BY <2>2
<1>4. \A s \in Seq(User) : SubSeq(s, 0 + 1, Len(s)) = s
  <2> SUFFICES ASSUME NEW s \in Seq(User) PROVE SubSeq(s, 1, Len(s)) = s
    OBVIOUS
  <2>1. Len(s) \in Nat /\ \A i \in 1 .. Len(s) : s[i] \in User
    BY ElementOfSeq
  <2>2. SubSeq(s, 1, Len(s)) = [i \in 1 .. Len(s) |-> s[i]]
    BY <2>1
  <2> QED BY <2>1, <2>2
<1>5. <<u>> \in Seq(User) /\ Len(<<u>>) = 1 /\ <<u>>[1] = u /\ <<u>> # <<>>
    OBVIOUS
<1>6. Piece(lines, at, NameRoom) = <<u>>
  <2>1. SubSeq(<<u>>, 0 + 1, Len(<<u>>)) = <<u>>
    BY ONLY <1>4, <1>5
  <2>3. Len(<<u>>) <= NameRoom
    BY <1>1, <1>5
  <2>2. Piece(lines, at, NameRoom) =
            LET rest == SubSeq(<<u>>, 0 + 1, Len(<<u>>))
            IN  IF Len(rest) <= NameRoom THEN rest ELSE SubSeq(rest, 1, NameRoom)
    BY <1>2 DEF Piece
  <2> QED BY <2>1, <2>2, <2>3
<1>7. Past(lines, at, NameRoom) = next
  <2>1. ~(0 + NameRoom < Len(<<u>>))
    BY <1>1, <1>5
  <2> QED BY <1>2, <2>1 DEF Past
<1>8. ASSUME Len(list) <= ListRoom
      PROVE  /\ Piece(lines, next, ListRoom) = list
             /\ Past(lines, next, ListRoom) = [line |-> 2 * j + 3, names |-> 0]
  <2>1. Piece(lines, next, ListRoom) =
            LET rest == SubSeq(list, 0 + 1, Len(list))
            IN  IF Len(rest) <= ListRoom THEN rest ELSE SubSeq(rest, 1, ListRoom)
    BY <1>2, <1>3 DEF Piece
  <2>2. SubSeq(list, 0 + 1, Len(list)) = list
    BY <1>4
  <2>3. ~(0 + ListRoom < Len(list))
    BY <1>1, <1>8
  <2> QED BY <1>2, <1>3, <1>8, <2>1, <2>2, <2>3 DEF Past
<1>9. ~NoMore(lines, at)
  <2>1. ~(at.line > Len(lines))
    BY <1>2
  <2> HIDE DEF at
  <2> QED BY <1>5, <1>6, <2>1 DEF NoMore
<1>11. (2 * j + 1) % 2 = 1
    OBVIOUS
<1> HIDE DEF at, next
<1>10. ASSUME Len(list) <= ListRoom
       PROVE  /\ Read(lines, at, before) = [user |-> u, followers |-> list]
              /\ ReadTo(lines, at) = [line |-> 2 * j + 3, names |-> 0]
  <2>1. next.line <= Len(lines)
    BY <1>2
  <2> QED BY <1>2, <1>5, <1>6, <1>7, <1>8, <1>10, <1>11, <2>1 DEF Read, ReadTo
<1> QED BY <1>3, <1>9, <1>10 DEF at

LEMMA LoadKeepsLoad ==
    ASSUME IInv, SaveInv, LoadInv, Load
    PROVE  LoadInv'
<1>1. /\ file \in Seq(Seq(User))
      /\ loader.table \in Seq([user : User \cup Seq(User), followers : Seq(User)])
      /\ saver.pc = "done" /\ ~NoMore(file, loader.at) /\ UNCHANGED <<saver, file>>
    BY DEF IInv, TypeOK, Load
<1>2. PICK before, read : /\ read = loader.table
                          /\ loader' = [at    |-> ReadTo(file, loader.at),
                                        table |-> Append(read, Read(file, loader.at, before))]
    BY DEF Load
<1>3. PICK j \in Nat : 2 * j <= Len(file) /\ Kept(j)
    BY DEF LoadInv
<1>4. PICK k \in Nat : Len(file) = 2 * k /\ \A i \in 1 .. k : \E u \in User : file[2 * i - 1] = <<u>>
  <2>1. PICK k \in 0 .. Len(file) : Written(k)
    BY <1>1 DEF SaveInv
  <2>2. k \in Nat /\ Len(file) = 2 * k
    BY <1>1, <2>1 DEF Written
  <2>3. \A i \in 1 .. k : \E u \in User : file[2 * i - 1] = <<u>>
    BY <2>1, MapType DEF Written
  <2> QED BY <2>2, <2>3
<1>5. PICK r : r = Read(file, loader.at, before)
    OBVIOUS
<1>6. loader'.at = ReadTo(file, loader.at) /\ loader'.table = Append(read, r)
    BY <1>2, <1>5
<1>7. /\ Len(read) \in Nat /\ Len(Append(read, r)) = Len(read) + 1
      /\ Append(read, r)[Len(read) + 1] = r
      /\ \A i \in 1 .. Len(read) : Append(read, r)[i] = read[i]
    BY <1>1, <1>2
<1>8. \A i \in 1 .. j : i <= Len(loader'.table) /\ loader'.table[i] = Pair(i)
  <2>1. \A i \in 1 .. j : i <= Len(read) /\ read[i] = Pair(i)
    BY <1>2, <1>3 DEF Kept
  <2>2. \A i \in 1 .. j : i \in 1 .. Len(read)
    BY <1>7, <2>1
  <2> QED BY <1>6, <1>7, <2>1, <2>2
<1>9. \A i : Pair(i)' = Pair(i)
    BY <1>1 DEF Pair
<1>10. CASE 2 * j < Len(file) /\ ~(Len(file[2 * (j + 1)]) <= ListRoom)
  <2>1. Kept(j)'
    BY <1>1, <1>8, <1>9, <1>10 DEF Kept
  <2> QED BY <1>1, <1>3, <2>1 DEF LoadInv
<1>11. CASE /\ ~(2 * j < Len(file) /\ ~(Len(file[2 * (j + 1)]) <= ListRoom))
            /\ loader.at = [line |-> 2 * j + 1, names |-> 0] /\ Len(read) = j
  <2>1. j < k
    <3>1. ~(2 * j + 1 > Len(file))
      BY <1>1, <1>11 DEF NoMore
    <3> QED BY <1>4, <3>1
  <2>2. j + 1 \in 1 .. k /\ 2 * (j + 1) - 1 = 2 * j + 1 /\ 2 * (j + 1) = 2 * j + 2
    BY <2>1
  <2>3. PICK u \in User : file[2 * j + 1] = <<u>>
    BY <1>4, <2>2
  <2>4. Len(file[2 * j + 2]) <= ListRoom /\ 2 * j + 2 <= Len(file)
    BY <1>4, <1>11, <2>1, <2>2
  <2>5. r = [user |-> u, followers |-> file[2 * j + 2]]
        /\ loader'.at = [line |-> 2 * j + 3, names |-> 0]
    BY <1>1, <1>5, <1>6, <1>11, <2>3, <2>4, PairRead
  <2>6. r = Pair(j + 1)
    <3>1. <<u>>[1] = u
      OBVIOUS
    <3> QED BY <2>2, <2>3, <2>5, <3>1 DEF Pair
  <2>7. ASSUME NEW i \in 1 .. j + 1 PROVE i <= Len(loader'.table) /\ loader'.table[i] = Pair(i)
    <3>1. CASE i \in 1 .. j
      BY <1>8, <3>1
    <3>2. CASE i = j + 1
      BY <1>6, <1>7, <1>11, <2>6, <3>2
    <3> QED BY <3>1, <3>2
  <2>8. loader'.at = [line |-> 2 * (j + 1) + 1, names |-> 0] /\ Len(loader'.table) = j + 1
    <3>1. 2 * (j + 1) + 1 = 2 * j + 3
      OBVIOUS
    <3> QED BY <1>6, <1>7, <1>11, <2>5, <3>1
  <2>9. Kept(j + 1)'
    BY <1>9, <2>7, <2>8 DEF Kept
  <2>10. j + 1 \in Nat /\ 2 * (j + 1) <= Len(file')
    BY <1>1, <2>2, <2>4
  <2> QED BY <1>1, <2>9, <2>10 DEF LoadInv
<1> QED BY <1>2, <1>3, <1>10, <1>11 DEF Kept

LEMMA LoadInvStep == IInv /\ IInv' /\ SaveInv /\ LoadInv /\ [Next]_vars => LoadInv'
<1> SUFFICES ASSUME IInv, IInv', SaveInv, LoadInv, [Next]_vars PROVE LoadInv'
    OBVIOUS
<1>1. CASE Load
    BY <1>1, LoadKeepsLoad
<1>2. CASE saver.pc # "done" /\ UNCHANGED loader
  <2>1. loader' = [at |-> [line |-> 1, names |-> 0], table |-> <<>>]
    BY <1>2 DEF LoadInv
  <2>2. 0 \in Nat /\ 2 * 0 + 1 = 1 /\ 2 * 0 <= Len(file')
    <3>1. file' \in Seq(Seq(User))
      BY DEF IInv, TypeOK
    <3> QED BY <3>1
  <2>3. Kept(0)'
    BY <2>1, <2>2 DEF Kept
  <2> QED BY <2>1, <2>2, <2>3 DEF LoadInv
<1>3. CASE saver.pc = "done" /\ UNCHANGED <<saver, file, loader>>
  <2>1. PICK j \in Nat : 2 * j <= Len(file) /\ Kept(j)
    BY DEF LoadInv
  <2>2. Kept(j)'
    BY <1>3, <2>1 DEF Kept, Pair
  <2> QED BY <1>3, <2>1, <2>2 DEF LoadInv
<1>4. UNCHANGED loader \/ Load
    BY DEF Next, LoginFind, AppendLock, HashInsert, InsertNode, InsertHead, AppendFollower, AppendCreate,
           AppendLink, HashFind, FindStart, FindOn, Save, SaveStart, SaveBucket, SaveUser, vars, readVars
<1>5. saver.pc = "done" => UNCHANGED <<saver, file, loader>> \/ Load
    BY DEF Next, HashFind, FindStart, FindOn, Save, SaveStart, SaveBucket, SaveUser, NoReader, vars, readVars
<1> QED BY <1>1, <1>2, <1>3, <1>4, <1>5

LEMMA DoneIsReadBack == IInv /\ SaveInv /\ LoadInv => SavedIsReadBack
<1> DEFINE read    == loader.table
           users   == {read[i].user : i \in DOMAIN read}
           saved   == Len(file) \div 2
           Fits(i) == \A j \in 1 .. i : Len(file[2 * j]) <= ListRoom
           Good(i) == /\ i \in DOMAIN read
                      /\ read[i].user \in DOMAIN Map
                      /\ IsPrefix(read[i].followers, Map[read[i].user])
                      /\ read[i].user \in DOMAIN saver.map =>
                            IsPrefix(saver.map[read[i].user], read[i].followers)
<1> SUFFICES ASSUME IInv, SaveInv, LoadInv, saver.pc = "done", NoMore(file, loader.at)
             PROVE  /\ \A i \in 1 .. saved : Fits(i) => Good(i)
                    /\ Fits(saved) =>
                          /\ DOMAIN saver.map \subseteq users /\ users \subseteq DOMAIN Map
                          /\ Cardinality(users) = Len(read)
    BY DEF SavedIsReadBack
<1>1. PICK k \in 0 .. Len(file) : Written(k)
    BY DEF SaveInv
<1>2. /\ Len(file) = 2 * k /\ file \in Seq(Seq(User)) /\ k \in Nat /\ saved = k
      /\ read \in Seq([user : User \cup Seq(User), followers : Seq(User)])
      /\ \A u : ~Ahead(u)
  <2>1. Len(file) = 2 * k /\ file \in Seq(Seq(User)) /\ k \in Nat
    BY <1>1 DEF Written, IInv, TypeOK
  <2>2. (2 * k) \div 2 = k
    BY <2>1
  <2>3. \A u : ~Ahead(u)
    BY DEF Ahead
  <2>4. read \in Seq([user : User \cup Seq(User), followers : Seq(User)])
    BY DEF IInv, TypeOK
  <2> QED BY <2>1, <2>2, <2>3, <2>4
<1>3. ASSUME NEW i \in 1 .. k
      PROVE  \E u \in DOMAIN Map :
                  /\ file[2 * i - 1] = <<u>>
                  /\ IsPrefix(file[2 * i], Map[u])
                  /\ u \in DOMAIN saver.map => IsPrefix(saver.map[u], file[2 * i])
    BY <1>1 DEF Written
<1>4. \A i, j \in 1 .. k : file[2 * i - 1] = file[2 * j - 1] => i = j
    BY <1>1 DEF Written
<1>5. \A u \in DOMAIN saver.map : \E i \in 1 .. k : file[2 * i - 1] = <<u>>
    BY <1>1, <1>2 DEF Written
<1>6. PICK j \in Nat : 2 * j <= Len(file) /\ Kept(j)
    BY DEF LoadInv
<1>7. /\ j \in 0 .. k /\ \A i \in 1 .. j : i \in DOMAIN read /\ read[i] = Pair(i)
      /\ \A i \in 1 .. k : Fits(i) => i <= j
      /\ Fits(k) => Len(read) = k
  <2>1. j \in 0 .. k /\ Len(read) \in Nat /\ DOMAIN read = 1 .. Len(read)
    BY <1>2, <1>6
  <2>2. \A i \in 1 .. j : i \in DOMAIN read /\ read[i] = Pair(i)
    BY <1>6, <2>1 DEF Kept
  <2>3. CASE 2 * j < Len(file) /\ ~(Len(file[2 * (j + 1)]) <= ListRoom)
    <3>1. j + 1 \in 1 .. k
      BY <1>2, <2>1, <2>3
    <3>2. ASSUME NEW i \in 1 .. k, Fits(i) PROVE i <= j
      <4>1. ~(j + 1 \in 1 .. i)
        BY <2>3, <3>2
      <4> QED BY <2>1, <4>1
    <3>3. ~Fits(k)
      BY <2>3, <3>1
    <3> HIDE DEF Fits
    <3> QED BY <2>1, <2>2, <3>2, <3>3
  <2>4. CASE loader.at = [line |-> 2 * j + 1, names |-> 0] /\ Len(read) = j
    <3>1. ~(j < k)
      <4> SUFFICES ASSUME j < k PROVE FALSE
        OBVIOUS
      <4>1. j + 1 \in 1 .. k /\ 2 * (j + 1) - 1 = 2 * j + 1 /\ 2 * j + 2 <= Len(file)
        BY <1>2, <2>1
      <4>2. PICK u \in User : file[2 * j + 1] = <<u>>
        BY <1>3, <4>1, MapType
      <4> QED BY <1>2, <2>4, <4>1, <4>2, PairRead
    <3>2. j = k
      BY <2>1, <3>1
    <3> QED BY <2>1, <2>2, <2>4, <3>2
  <2> QED BY <1>6, <2>3, <2>4 DEF Kept
<1>8. ASSUME NEW i \in 1 .. j
      PROVE  Good(i) /\ \A u : file[2 * i - 1] = <<u>> => read[i].user = u
  <2>1. i \in 1 .. k
    BY <1>2, <1>7
  <2>2. PICK u \in DOMAIN Map :
            /\ file[2 * i - 1] = <<u>>
            /\ IsPrefix(file[2 * i], Map[u])
            /\ u \in DOMAIN saver.map => IsPrefix(saver.map[u], file[2 * i])
    BY <1>3, <2>1
  <2>3. \A w : <<w>>[1] = w
    OBVIOUS
  <2>4. read[i].user = u /\ read[i].followers = file[2 * i] /\ i \in DOMAIN read
    <3>1. read[i] = Pair(i) /\ i \in DOMAIN read
      BY <1>7
    <3>2. file[2 * i - 1][1] = u
      BY <2>2, <2>3
    <3> HIDE DEF read
    <3> QED BY <3>1, <3>2 DEF Pair
  <2> HIDE DEF read
  <2> QED BY <2>2, <2>3, <2>4
<1>9. \A i \in 1 .. k : Fits(i) => Good(i)
  <2> SUFFICES ASSUME NEW i \in 1 .. k, Fits(i) PROVE Good(i)
    OBVIOUS
  <2>1. i <= j
    <3> HIDE DEF Fits
    <3> QED BY <1>7
  <2> HIDE DEF Good
  <2> QED BY <1>8, <2>1
<1>10. ASSUME Fits(k)
       PROVE  /\ DOMAIN saver.map \subseteq users /\ users \subseteq DOMAIN Map
              /\ Cardinality(users) = Len(read)
  <2>1. j = k /\ DOMAIN read = 1 .. k /\ Len(read) = k
    <3>1. Len(read) = k /\ j <= k /\ j \in 0 .. k
      BY <1>7, <1>10
    <3>2. k <= j
      <4>1. CASE k = 0
        BY <3>1, <4>1
      <4>2. CASE k # 0
        <5>1. k \in 1 .. k
          BY <1>2, <4>2
        <5> HIDE DEF Fits
        <5> QED BY <1>7, <1>10, <5>1
      <4> QED BY <4>1, <4>2
    <3> QED BY <1>2, <3>1, <3>2
  <2>2. \A i \in 1 .. k : /\ read[i].user \in DOMAIN Map
                          /\ \A u : file[2 * i - 1] = <<u>> => read[i].user = u
    BY <1>8, <2>1
  <2> HIDE DEF read
  <2>3. DOMAIN saver.map \subseteq users
    <3> SUFFICES ASSUME NEW u \in DOMAIN saver.map PROVE \E i \in 1 .. k : read[i].user = u
      BY <2>1
    <3>1. PICK i \in 1 .. k : file[2 * i - 1] = <<u>>
      BY <1>5
    <3> QED BY <2>2, <3>1
  <2>4. users \subseteq DOMAIN Map
    BY <2>1, <2>2
  <2>5. \A i, h \in 1 .. k : read[i].user = read[h].user => i = h
    <3> SUFFICES ASSUME NEW i \in 1 .. k, NEW h \in 1 .. k, read[i].user = read[h].user PROVE i = h
      OBVIOUS
    <3>1. PICK u : file[2 * i - 1] = <<u>>
      BY <1>3
    <3>2. PICK w : file[2 * h - 1] = <<w>>
      BY <1>3
    <3>3. u = w
      BY <2>2, <3>1, <3>2
    <3> QED BY <1>4, <3>1, <3>2, <3>3
  <2>6. Cardinality(users) = k
    <3> DEFINE g == [i \in 1 .. k |-> read[i].user]
    <3>1. g \in [1 .. k -> users] /\ \A u \in users : \E i \in 1 .. k : g[i] = u
      BY <2>1
    <3>2. \A i, h \in 1 .. k : g[i] = g[h] => i = h
      BY <2>5
    <3>3. IsFiniteSet(1 .. k) /\ Cardinality(1 .. k) = k
      <4>1. k \in Int /\ 1 \in Int
        BY <1>2
      <4>2. IsFiniteSet(1 .. k) /\ Cardinality(1 .. k) = IF 1 > k THEN 0 ELSE k - 1 + 1
        BY <4>1, FS_Interval
      <4> QED BY <1>2, <4>2
    <3> HIDE DEF g, users
    <3>4. g \in Surjection(1 .. k, users)
      BY <3>1 DEF Surjection
    <3>5. g \in Injection(1 .. k, users)
      BY <3>1, <3>2 DEF Injection, IsInjective
    <3>6. Cardinality(users) = Cardinality(1 .. k)
      BY <3>3, <3>4, <3>5, FS_Surjection
    <3> QED BY <3>3, <3>6
  <2> HIDE DEF users
  <2> QED BY <2>1, <2>3, <2>4, <2>6
<1> HIDE DEF read, users, Fits, Good, saved
<1> QED BY <1>2, <1>9, <1>10

\* Whatever is inserted and appended while save_savefile writes the table,
\* read_savefile has every user that was there once, with its followers, as long
\* as its buffer holds each list; and those before the first that it does not
\* hold in any case.
THEOREM SavesAreReadBack == Spec => []SavedIsReadBack
<1>1. Init => IInv
    BY InitInv
<1>2. IInv /\ SaveInv /\ LoadInv /\ [Next]_vars => IInv' /\ SaveInv' /\ LoadInv'
    BY InvStep, SaveInvStep, LoadInvStep
<1>3. IInv /\ SaveInv /\ LoadInv => SavedIsReadBack
    BY DoneIsReadBack
<1> QED BY <1>1, <1>2, <1>3, SaveInvInit, LoadInvInit, PTL DEF Spec

-----------------------------------------------------------------------------
(* The operations on lists.                                                 *)

\* Cells as malloc and chained_list_create leave them, and no circle.
IsHeap(cells, V) ==
    /\ Chains(cells)
    /\ \A c \in DOMAIN cells : cells[c] \in [val : V, next : DOMAIN cells \cup {Null}]

\* w goes from one cell to the next, from c to the end, and meets none twice.
Order(w, cells, c) ==
    /\ w = <<>> <=> c = Null
    /\ Len(w) > 0 => w[1] = c
    /\ \A i \in 1 .. Len(w) : cells[w[i]].next = IF i = Len(w) THEN Null ELSE w[i + 1]
    /\ \A i, j \in 1 .. Len(w) : w[i] = w[j] => i = j

LEMMA WalkOrder ==
    ASSUME NEW cells, Chains(cells)
    PROVE  \A c \in DOMAIN cells \cup {Null} : Order(Walk(cells, c), cells, c)
<1> DEFINE P == {c \in DOMAIN cells \cup {Null} : Order(Walk(cells, c), cells, c)}
<1>1. Null \in P
  <2>1. Walk(cells, Null) = <<>> /\ Len(<<>>) = 0
    BY WalkDoes
  <2> QED BY <2>1 DEF Order
<1>2. ASSUME NEW c \in DOMAIN cells, cells[c].next \in P PROVE c \in P
  <2> DEFINE w == Walk(cells, c)  next == cells[c].next  rest == Walk(cells, next)
  <2>1. /\ w = <<c>> \o rest /\ rest \in Seq(DOMAIN cells) /\ c # Null
        /\ c \notin Range(rest) /\ Order(rest, cells, next)
    BY <1>2, WalkDoes, WalkOnce DEF Chains
  <2>2. <<c>> \in Seq(DOMAIN cells) /\ Len(<<c>>) = 1 /\ <<c>>[1] = c
    OBVIOUS
  <2> HIDE DEF w, rest, next
  <2>3. /\ w \in Seq(DOMAIN cells) /\ Len(w) = 1 + Len(rest) /\ Len(rest) \in Nat
        /\ \A i \in 1 .. 1 + Len(rest) : w[i] = IF i <= 1 THEN <<c>>[i] ELSE rest[i - 1]
    BY <2>1, <2>2, ConcatProperties, LenProperties
  <2>4. w[1] = c /\ \A i \in 1 .. Len(rest) : w[i + 1] = rest[i]
    <3>1. 1 \in 1 .. 1 + Len(rest) /\ 1 <= 1
      BY <2>3
    <3>2. w[1] = <<c>>[1]
      BY <2>3, <3>1
    <3>3. \A i \in 1 .. Len(rest) : i + 1 \in 1 .. 1 + Len(rest) /\ ~(i + 1 <= 1) /\ i + 1 - 1 = i
      BY <2>3
    <3> QED BY <2>2, <2>3, <3>2, <3>3
  <2>5. \A i \in 1 .. Len(w) : i = 1 \/ \E j \in 1 .. Len(rest) : i = j + 1
    <3> SUFFICES ASSUME NEW i \in 1 .. Len(w), i # 1 PROVE \E j \in 1 .. Len(rest) : i = j + 1
      OBVIOUS
    <3>1. i - 1 \in 1 .. Len(rest) /\ i = (i - 1) + 1
      BY <2>3
    <3> QED BY <3>1
  <2>6. \A i \in 1 .. Len(rest) : rest[i] # c
    BY <2>1, <2>3, LenProperties DEF Range
  <2>7. ASSUME NEW i \in 1 .. Len(w) PROVE cells[w[i]].next = IF i = Len(w) THEN Null ELSE w[i + 1]
    <3>1. CASE i = 1
      <4>1. cells[w[i]].next = next
        BY <2>4, <3>1 DEF next
      <4>2. CASE Len(rest) = 0
        <5>1. rest = <<>>
          BY <2>1, <4>2, EmptySeq
        <5> QED BY <2>1, <2>3, <3>1, <4>1, <4>2, <5>1 DEF Order
      <4>3. CASE Len(rest) # 0
        <5>1. Len(rest) > 0 /\ 1 \in 1 .. Len(rest) /\ i # Len(w)
          BY <2>3, <3>1, <4>3
        <5>2. w[i + 1] = next
          BY <2>1, <2>4, <3>1, <5>1 DEF Order
        <5> QED BY <4>1, <5>1, <5>2
      <4> QED BY <4>2, <4>3
    <3>2. CASE i # 1
      <4>1. PICK j \in 1 .. Len(rest) : i = j + 1
        BY <2>5, <3>2
      <4>2. w[i] = rest[j]
        BY <2>4, <4>1
      <4>3. cells[rest[j]].next = IF j = Len(rest) THEN Null ELSE rest[j + 1]
        BY <2>1 DEF Order
      <4>4. CASE j = Len(rest)
        BY <2>3, <4>1, <4>2, <4>3, <4>4
      <4>5. CASE j # Len(rest)
        <5>1. j + 1 \in 1 .. Len(rest) /\ i # Len(w)
          BY <2>3, <4>1, <4>5
        <5>2. w[i + 1] = rest[j + 1]
          BY <2>4, <4>1, <5>1
        <5> QED BY <4>2, <4>3, <4>5, <5>1, <5>2
      <4> QED BY <4>4, <4>5
    <3> QED BY <3>1, <3>2
  <2>8. ASSUME NEW i \in 1 .. Len(w), NEW j \in 1 .. Len(w), w[i] = w[j] PROVE i = j
    <3>1. CASE i = 1 /\ j = 1
      BY <3>1
    <3>2. CASE i = 1 /\ j # 1
      <4>1. PICK b \in 1 .. Len(rest) : j = b + 1
        BY <2>5, <3>2
      <4> QED BY <2>4, <2>6, <2>8, <3>2, <4>1
    <3>3. CASE i # 1 /\ j = 1
      <4>1. PICK a \in 1 .. Len(rest) : i = a + 1
        BY <2>5, <3>3
      <4> QED BY <2>4, <2>6, <2>8, <3>3, <4>1
    <3>4. CASE i # 1 /\ j # 1
      <4>1. PICK a \in 1 .. Len(rest) : i = a + 1
        BY <2>5, <3>4
      <4>2. PICK b \in 1 .. Len(rest) : j = b + 1
        BY <2>5, <3>4
      <4>3. a = b
        BY <2>1, <2>4, <2>8, <4>1, <4>2 DEF Order
      <4> QED BY <4>1, <4>2, <4>3
    <3> QED BY <3>1, <3>2, <3>3, <3>4
  <2>9. w # <<>> /\ Len(w) > 0
    <3>1. Len(w) # 0 /\ Len(w) > 0
      BY <2>3
    <3>2. Len(<<>>) = 0
      OBVIOUS
    <3> QED BY <3>1, <3>2
  <2>10. Order(w, cells, c)
    BY <2>1, <2>4, <2>7, <2>8, <2>9 DEF Order
  <2> QED BY <2>10 DEF w
<1> HIDE DEF P
<1>3. \A c \in DOMAIN cells \cup {Null} : c \in P
    BY <1>1, <1>2, ChainInduction
<1> QED BY <1>3 DEF P

\* chained_list_find.
LEMMA FindWorks ==
    ASSUME NEW V, NEW cells, IsHeap(cells, V), NEW list \in DOMAIN cells \cup {Null}, NEW v
    PROVE  Find(cells, list, v) # Null <=> Contains(Values(cells, list), v)
<1> DEFINE w == Walk(cells, list)  wanted == {c \in DOMAIN cells : cells[c].val = v}
           values == Values(cells, list)
<1>1. Find(cells, list, v) = Null <=> Range(w) \cap wanted = {}
    BY FirstDoes DEF Find, IsHeap
<1>2. w \in Seq(DOMAIN cells)
    BY WalkDoes DEF IsHeap
<1>3. values = [i \in DOMAIN w |-> cells[w[i]].val]
    BY DEF Values
<1> HIDE DEF w, values
<1>4. Len(w) \in Nat /\ DOMAIN w = 1 .. Len(w) /\ \A i \in 1 .. Len(w) : w[i] \in DOMAIN cells
    BY <1>2, LenProperties, ElementOfSeq
<1>5. Len(values) = Len(w)
    BY <1>3, <1>4
<1>6. Range(w) \cap wanted # {} <=> \E i \in 1 .. Len(w) : cells[w[i]].val = v
    BY <1>4 DEF Range
<1> HIDE DEF wanted
<1>7. Contains(values, v) <=> \E i \in 1 .. Len(w) : cells[w[i]].val = v
    BY <1>3, <1>4, <1>5 DEF Contains
<1> QED BY <1>1, <1>6, <1>7 DEF values

\* The cells and c, a list of its own.
Created(new, cells, c, v) ==
    /\ DOMAIN new = DOMAIN cells \cup {c} /\ new[c] = [val |-> v, next |-> Null]
    /\ \A d \in DOMAIN cells : new[d] = cells[d]
    /\ \A list \in DOMAIN cells \cup {Null} :
          /\ Walk(new, list) = Walk(cells, list)
          /\ Values(new, list) = Values(cells, list)
          /\ c \notin Range(Walk(cells, list))

LEMMA CreateDoes ==
    ASSUME NEW V, NEW cells, IsHeap(cells, V), NEW c, c \notin DOMAIN cells, c # Null, NEW v \in V,
           NEW new, new = Create(cells, c, v)
    PROVE  IsHeap(new, V) /\ Created(new, cells, c, v)
<1>1. /\ new = [d \in DOMAIN cells \cup {c} |-> IF d = c THEN [val |-> v, next |-> Null] ELSE cells[d]]
      /\ DOMAIN new = DOMAIN cells \cup {c} /\ new[c] = [val |-> v, next |-> Null]
      /\ \A d \in DOMAIN cells : new[d] = cells[d]
    BY DEF Create
<1>2. Chains(new)
  <2>1. \A m \in DOMAIN cells : new[m].next = cells[m].next
    BY <1>1
  <2>2. new[c].next \in DOMAIN cells \cup {Null}
    BY <1>1
  <2> QED BY <1>1, <2>1, <2>2, ChainsGrow DEF IsHeap
<1>3. \A d \in DOMAIN new : new[d] \in [val : V, next : DOMAIN new \cup {Null}]
  <2>1. \A d \in DOMAIN cells : cells[d] \in [val : V, next : DOMAIN cells \cup {Null}]
    BY DEF IsHeap
  <2> QED BY <1>1, <2>1
<1>4. ASSUME NEW list \in DOMAIN cells \cup {Null}
      PROVE  /\ Walk(new, list) = Walk(cells, list)
             /\ Values(new, list) = Values(cells, list)
             /\ c \notin Range(Walk(cells, list))
  <2>1. Walk(new, list) = Walk(cells, list)
    BY <1>1, <1>2, WalkStays DEF IsHeap
  <2>2. Range(Walk(cells, list)) \subseteq DOMAIN cells
    BY WalkMeets DEF IsHeap
  <2>3. \A d \in Range(Walk(cells, list)) : new[d].val = cells[d].val
    BY <1>1, <2>2
  <2>4. Values(new, list) = Values(cells, list)
    BY <2>1, <2>3, ValuesStay
  <2> QED BY <2>1, <2>2, <2>4
<1> QED BY <1>1, <1>2, <1>3, <1>4 DEF IsHeap, Created

\* chained_list_append_end.
LEMMA AppendWorks ==
    ASSUME NEW V, NEW cells, IsHeap(cells, V), NEW list \in DOMAIN cells \cup {Null},
           NEW c, c \notin DOMAIN cells, c # Null, NEW v \in V
    PROVE  Values(Link(Create(cells, c, v), list, c), Start(list, c)) = Append(Values(cells, list), v)
<1> DEFINE new == Create(cells, c, v)
<1>0. new = Create(cells, c, v)
    OBVIOUS
<1> HIDE DEF new
<1>1. /\ DOMAIN new = DOMAIN cells \cup {c} /\ new[c] = [val |-> v, next |-> Null]
      /\ \A d \in DOMAIN cells : new[d] = cells[d]
      /\ IsHeap(new, V)
      /\ Walk(new, list) = Walk(cells, list)
      /\ Values(new, list) = Values(cells, list)
      /\ c \notin Range(Walk(cells, list))
  <2>1. IsHeap(new, V) /\ Created(new, cells, c, v)
    BY <1>0, CreateDoes
  <2> QED BY <2>1 DEF Created
<1>2. new[c].val = v /\ new[c].next = Null
    BY <1>1
<1>3. CASE list = Null
  <2>1. Link(new, list, c) = new /\ Start(list, c) = c
    BY <1>3 DEF Link, Start
  <2>2. Walk(new, c) = <<c>> /\ Walk(new, list) = <<>>
    <3>1. Walk(new, c) = <<c>> \o Walk(new, Null) /\ Walk(new, Null) = <<>>
      BY <1>1, <1>2, WalkDoes DEF IsHeap
    <3> QED BY <1>3, <3>1, <<c>> \o <<>> = <<c>>
  <2>3. Walk(new, c) = Append(Walk(new, list), c)
    BY <2>2
  <2>4. Walk(new, list) \in Seq(DOMAIN new) /\ c \in DOMAIN new
    BY <1>1, <2>2
  <2>5. Values(new, c) = Append(Values(new, list), new[c].val)
    BY <2>3, <2>4, ValuesAppend
  <2> QED BY <1>1, <1>2, <2>1, <2>5 DEF new
<1>4. CASE list # Null
  <2> DEFINE z == EndOf(new, list)  other == Link(new, list, c)
  <2>1. list \in DOMAIN new /\ Start(list, c) = list
    BY <1>1, <1>4 DEF Start
  <2>2. z \in Range(Walk(new, list)) /\ new[z].next = Null
    BY <1>1, <2>1, WalkEnds DEF IsHeap
  <2>3. z \in DOMAIN new /\ z # c
    BY <1>1, <2>1, <2>2, WalkMeets DEF IsHeap
  <2>4. other = [new EXCEPT ![z].next = c]
    BY <1>4 DEF Link
  <2> HIDE DEF z, other
  <2>5. new[z] \in [val : V, next : DOMAIN new \cup {Null}]
    BY <1>1, <2>3 DEF IsHeap
  <2>6. /\ DOMAIN other = DOMAIN new /\ other[z] = [val |-> new[z].val, next |-> c]
        /\ \A d \in DOMAIN new : d # z => other[d] = new[d]
    BY <2>3, <2>4, <2>5
  <2>7. Walk(other, list) = Append(Walk(new, list), c)
    <3>1. other[z].next = c /\ \A d \in DOMAIN new : d # z => other[d].next = new[d].next
      BY <2>6
    <3>2. c \in DOMAIN new
      BY <1>1
    <3> QED BY <1>1, <1>2, <2>1, <2>2, <2>3, <2>6, <3>1, <3>2, WalkLink DEF IsHeap
  <2>8. \A d \in DOMAIN new : other[d].val = new[d].val
    <3>1. other[z].val = new[z].val
      BY <2>6
    <3> QED BY <2>6, <3>1
  <2>9. Walk(new, list) \in Seq(DOMAIN new) /\ c \in DOMAIN new
    BY <1>1, <2>1, WalkDoes DEF IsHeap
  <2>10. Values(other, list) = Append(Values(new, list), new[c].val)
    BY <2>7, <2>8, <2>9, ValuesAppend
  <2> QED BY <1>1, <1>2, <2>1, <2>10 DEF new, other
<1> QED BY <1>3, <1>4

\* chained_list_append_start.
LEMMA PushWorks ==
    ASSUME NEW V, NEW cells, IsHeap(cells, V), NEW list \in DOMAIN cells \cup {Null},
           NEW c, c \notin DOMAIN cells, c # Null, NEW v \in V
    PROVE  Values(Push(Create(cells, c, v), list, c), c) = <<v>> \o Values(cells, list)
<1> DEFINE new == Create(cells, c, v)  other == Push(new, list, c)
           w == Walk(cells, list)  all == Walk(other, c)
<1>0. new = Create(cells, c, v) /\ other = Push(new, list, c)
    OBVIOUS
<1> HIDE DEF new, other
<1>1. /\ DOMAIN new = DOMAIN cells \cup {c} /\ new[c] = [val |-> v, next |-> Null]
      /\ \A d \in DOMAIN cells : new[d] = cells[d]
  <2>1. IsHeap(new, V) /\ Created(new, cells, c, v)
    BY <1>0, CreateDoes
  <2> QED BY <2>1 DEF Created
<1>2. other = [new EXCEPT ![c].next = list]
    BY <1>0 DEF Push
<1>3. /\ DOMAIN other = DOMAIN cells \cup {c} /\ other[c] = [val |-> v, next |-> list]
      /\ \A d \in DOMAIN cells : other[d] = cells[d]
    BY <1>1, <1>2
<1>4. Chains(other)
  <2>1. \A d \in DOMAIN cells : other[d].next = cells[d].next
    BY <1>3
  <2>2. other[c].next \in DOMAIN cells \cup {Null}
    BY <1>3
  <2> QED BY <1>3, <2>1, <2>2, ChainsGrow DEF IsHeap
<1>5. Walk(other, list) = w
    BY <1>3, <1>4, WalkStays DEF IsHeap
<1>6. all = <<c>> \o w /\ w \in Seq(DOMAIN cells) /\ w \in Seq(DOMAIN other)
  <2>1. Walk(other, c) = <<c>> \o Walk(other, other[c].next) /\ other[c].next = list
    BY <1>3, <1>4, WalkDoes
  <2>2. w \in Seq(DOMAIN cells) /\ Walk(other, list) \in Seq(DOMAIN other)
    BY <1>3, <1>4, WalkDoes DEF IsHeap
  <2> QED BY <1>5, <2>1, <2>2
<1>7. Values(other, c) = [i \in DOMAIN all |-> other[all[i]].val]
    BY DEF Values
<1>8. Values(cells, list) = [i \in DOMAIN w |-> cells[w[i]].val] /\ Values(cells, list) \in Seq(V)
  <2>1. \A d \in DOMAIN cells : cells[d].val \in V
    BY DEF IsHeap
  <2> QED BY <2>1, ValuesType DEF Values, IsHeap
<1> DEFINE vals == Values(cells, list)
<1> HIDE DEF w, all, vals
<1>9. /\ Len(w) \in Nat /\ DOMAIN w = 1 .. Len(w) /\ \A i \in 1 .. Len(w) : w[i] \in DOMAIN cells
      /\ Len(vals) = Len(w)
    BY <1>6, <1>8, LenProperties, ElementOfSeq DEF vals
<1>10. /\ DOMAIN all = 1 .. 1 + Len(w) /\ all[1] = c
       /\ \A i \in 1 .. 1 + Len(w) : i > 1 => all[i] = w[i - 1]
  <2>1. <<c>> \in Seq(DOMAIN other) /\ Len(<<c>>) = 1 /\ <<c>>[1] = c
    BY <1>3
  <2>2. /\ all \in Seq(DOMAIN other) /\ Len(all) = 1 + Len(w)
        /\ \A i \in 1 .. 1 + Len(w) : all[i] = IF i <= 1 THEN <<c>>[i] ELSE w[i - 1]
    BY <1>6, <2>1, ConcatProperties
  <2>3. 1 \in 1 .. 1 + Len(w)
    BY <1>9
  <2> QED BY <1>9, <2>1, <2>2, <2>3, LenProperties
<1>11. /\ <<v>> \o vals \in Seq(V) /\ Len(<<v>> \o vals) = 1 + Len(w)
       /\ \A i \in 1 .. 1 + Len(w) : (<<v>> \o vals)[i] = IF i <= 1 THEN v ELSE vals[i - 1]
  <2>1. <<v>> \in Seq(V) /\ Len(<<v>>) = 1 /\ <<v>>[1] = v
    OBVIOUS
  <2>2. vals \in Seq(V)
    BY <1>8 DEF vals
  <2>3. /\ <<v>> \o vals \in Seq(V) /\ Len(<<v>> \o vals) = 1 + Len(w)
        /\ \A i \in 1 .. 1 + Len(w) : (<<v>> \o vals)[i] = IF i <= 1 THEN <<v>>[i] ELSE vals[i - 1]
    BY <1>9, <2>1, <2>2, ConcatProperties
  <2>4. \A i \in 1 .. 1 + Len(w) : i <= 1 => i = 1
    BY <1>9
  <2> QED BY <2>1, <2>3, <2>4
<1> DEFINE read == Values(other, c)
<1>12. \A i \in 1 .. 1 + Len(w) : read[i] = IF i <= 1 THEN v ELSE vals[i - 1]
  <2> TAKE i \in 1 .. 1 + Len(w)
  <2>1. read[i] = other[all[i]].val
    BY <1>7, <1>10
  <2> HIDE DEF read
  <2>2. CASE i = 1
    <3>1. other[all[i]].val = v
      BY <1>3, <1>10, <2>2
    <3> QED BY <2>1, <2>2, <3>1
  <2>3. CASE i # 1
    <3>1. i > 1 /\ ~(i <= 1) /\ i - 1 \in 1 .. Len(w)
      BY <1>9, <2>3
    <3>2. all[i] = w[i - 1] /\ w[i - 1] \in DOMAIN cells
      BY <1>9, <1>10, <3>1
    <3>3. vals[i - 1] = cells[w[i - 1]].val
      BY <1>8, <1>9, <3>1 DEF vals
    <3> QED BY <1>3, <2>1, <3>1, <3>2, <3>3
  <2> QED BY <2>2, <2>3
<1>13. read = [i \in 1 .. 1 + Len(w) |-> read[i]]
    BY <1>7, <1>10
<1> HIDE DEF read
<1>14. read \in Seq(V) /\ Len(read) = 1 + Len(w)
  <2>1. \A i \in 1 .. 1 + Len(w) : read[i] = (<<v>> \o vals)[i]
    BY <1>11, <1>12
  <2>2. \A i \in 1 .. 1 + Len(w) : (<<v>> \o vals)[i] \in V
    <3> DEFINE s == <<v>> \o vals
    <3>1. s \in Seq(V) /\ Len(s) = 1 + Len(w)
      BY <1>11
    <3> HIDE DEF s
    <3>2. \A i \in 1 .. Len(s) : s[i] \in V
      BY <3>1, ElementOfSeq
    <3> QED BY <3>1, <3>2 DEF s
  <2>3. read \in [1 .. 1 + Len(w) -> V]
    BY <1>13, <2>1, <2>2
  <2>4. 1 + Len(w) \in Nat
    BY <1>9
  <2> QED BY <2>3, <2>4
<1>15. read = <<v>> \o vals
  <2> DEFINE s == <<v>> \o vals
  <2>1. s \in Seq(V) /\ Len(s) = Len(read) /\ \A i \in 1 .. Len(read) : read[i] = s[i]
    BY <1>11, <1>12, <1>14
  <2> HIDE DEF s
  <2>2. read = s
    BY <1>14, <2>1, SeqEqual
  <2> QED BY <2>2 DEF s
<1> QED BY <1>15 DEF read, vals, new, other


\* chained_list_revert: its loop, once round.
Turn(s) ==
    [heap   |-> [s.heap EXCEPT ![s.curr].next = s.before],
     before |-> s.curr,
     curr   |-> s.heap[s.curr].next]

Turns(loop, cells, list, n) ==
    loop = [i \in 0 .. n |-> IF i = 0 THEN [heap |-> cells, before |-> Null, curr |-> list]
                             ELSE Turn(loop[i - 1])]

LEMMA CanBeTurned ==
    ASSUME NEW cells, NEW list, NEW n \in Nat
    PROVE  \E loop : Turns(loop, cells, list, n)
<1> DEFINE T == {k \in Nat : ~\E loop : Turns(loop, cells, list, k)}
<1>1. SUFFICES ASSUME T # {} PROVE FALSE
    OBVIOUS
<1>2. PICK k \in T : \A i \in T : k <= i
    BY <1>1, LeastNatural
<1> DEFINE start == [heap |-> cells, before |-> Null, curr |-> list]
<1>3. k # 0
  <2>1. Turns([i \in 0 .. 0 |-> start], cells, list, 0)
    BY DEF Turns
  <2> QED BY <1>2, <2>1
<1>4. k - 1 \in Nat /\ k - 1 \notin T
    BY <1>2, <1>3
<1>5. PICK g : Turns(g, cells, list, k - 1)
    BY <1>4
<1> DEFINE f == [i \in 0 .. k |-> IF i = 0 THEN start ELSE Turn(g[i - 1])]
<1>6. g = [i \in 0 .. k - 1 |-> IF i = 0 THEN start ELSE Turn(g[i - 1])]
    BY <1>5 DEF Turns
<1> HIDE DEF start
<1>7. \A i \in 0 .. k - 1 : f[i] = g[i]
    BY <1>6
<1>8. f = [i \in 0 .. k |-> IF i = 0 THEN start ELSE Turn(f[i - 1])]
  <2>1. \A i \in 0 .. k : i # 0 => i - 1 \in 0 .. k - 1
    OBVIOUS
  <2>2. \A i \in 0 .. k : i # 0 => f[i - 1] = g[i - 1]
    BY <1>7, <2>1
  <2>3. \A i \in 0 .. k : f[i] = IF i = 0 THEN start ELSE Turn(f[i - 1])
    BY <2>2
  <2> HIDE DEF f
  <2>4. f = [i \in 0 .. k |-> f[i]]
    BY DEF f
  <2> QED BY <2>3, <2>4
<1> HIDE DEF f
<1>9. Turns(f, cells, list, k)
    BY <1>8 DEF Turns, start
<1> QED BY <1>2, <1>9

\* The first i cells of w point back, the others are as they were.
Turned(s, i, w, cells, V) ==
    /\ DOMAIN s.heap = DOMAIN cells
    /\ \A c \in DOMAIN cells : s.heap[c] \in [val : V, next : DOMAIN cells \cup {Null}]
    /\ \A c \in DOMAIN cells : s.heap[c].val = cells[c].val
    /\ \A j \in 1 .. Len(w) : s.heap[w[j]].next = IF j > i THEN cells[w[j]].next
                                                  ELSE IF j = 1 THEN Null ELSE w[j - 1]
    /\ \A c \in DOMAIN cells \ Range(w) : s.heap[c].next = cells[c].next
    /\ s.before = IF i = 0 THEN Null ELSE w[i]
    /\ s.curr = IF i = Len(w) THEN Null ELSE w[i + 1]

LEMMA TurnTurns ==
    ASSUME NEW V, NEW cells, IsHeap(cells, V), NEW list \in DOMAIN cells \cup {Null},
           NEW w \in Seq(DOMAIN cells), Order(w, cells, list),
           NEW i \in 1 .. Len(w), NEW s, Turned(s, i - 1, w, cells, V)
    PROVE  Turned(Turn(s), i, w, cells, V)
<1>1. Len(w) \in Nat /\ \A j \in 1 .. Len(w) : w[j] \in DOMAIN cells
    BY LenProperties, ElementOfSeq
<1>2. s.curr = w[i] /\ w[i] \in DOMAIN cells /\ w[i] \in Range(w)
  <2>1. i - 1 # Len(w) /\ i - 1 + 1 = i
    BY <1>1
  <2> QED BY <1>1, <2>1, LenProperties DEF Turned, Range
<1>3. s.before \in DOMAIN cells \cup {Null} /\ s.before = IF i = 1 THEN Null ELSE w[i - 1]
  <2>1. i - 1 = 0 <=> i = 1
    BY <1>1
  <2>2. i # 1 => i - 1 \in 1 .. Len(w)
    BY <1>1
  <2> QED BY <1>1, <2>1, <2>2 DEF Turned
<1> DEFINE h == s.heap  new == [h EXCEPT ![w[i]].next = s.before]
<1>4. DOMAIN h = DOMAIN cells /\ \A c \in DOMAIN cells : h[c] \in [val : V, next : DOMAIN cells \cup {Null}]
    BY DEF Turned
<1>5. Turn(s).heap = new /\ Turn(s).before = w[i] /\ Turn(s).curr = h[w[i]].next
    BY <1>2 DEF Turn
<1>6. /\ DOMAIN new = DOMAIN cells
      /\ new[w[i]] = [val |-> h[w[i]].val, next |-> s.before]
      /\ \A c \in DOMAIN cells : c # w[i] => new[c] = h[c]
  <2> HIDE DEF h
  <2>1. h[w[i]] \in [val : V, next : DOMAIN cells \cup {Null}]
    BY <1>2, <1>4
  <2> QED BY <1>2, <1>4, <2>1
<1>7. \A c \in DOMAIN cells : new[c] \in [val : V, next : DOMAIN cells \cup {Null}]
  <2> HIDE DEF h, new
  <2>1. new[w[i]] \in [val : V, next : DOMAIN cells \cup {Null}]
    <3>1. h[w[i]].val \in V
      BY <1>2, <1>4
    <3> QED BY <1>3, <1>6, <3>1
  <2> QED BY <1>4, <1>6, <2>1
<1> HIDE DEF h, new
<1>8. new[w[i]].val = h[w[i]].val /\ new[w[i]].next = s.before
    BY <1>6
<1>9. \A c \in DOMAIN cells : new[c].val = cells[c].val
  <2>1. \A c \in DOMAIN cells : h[c].val = cells[c].val
    BY DEF h, Turned
  <2> QED BY <1>2, <1>6, <1>8, <2>1
<1>10. \A c \in DOMAIN cells \ Range(w) : new[c].next = cells[c].next
  <2>1. \A c \in DOMAIN cells \ Range(w) : h[c].next = cells[c].next
    BY DEF h, Turned
  <2> QED BY <1>2, <1>6, <2>1
<1>11. ASSUME NEW j \in 1 .. Len(w)
       PROVE  new[w[j]].next = IF j > i THEN cells[w[j]].next ELSE IF j = 1 THEN Null ELSE w[j - 1]
  <2>1. h[w[j]].next = IF j > i - 1 THEN cells[w[j]].next ELSE IF j = 1 THEN Null ELSE w[j - 1]
    BY DEF h, Turned
  <2>2. CASE j = i
    <3>1. ~(j > i)
      BY <2>2
    <3> QED BY <1>3, <1>8, <2>2, <3>1
  <2>3. CASE j # i
    <3>1. w[j] # w[i]
      BY <2>3 DEF Order
    <3>2. j > i - 1 <=> j > i
      BY <2>3
    <3>3. new[w[j]] = h[w[j]]
      BY <1>1, <1>6, <3>1
    <3> QED BY <2>1, <3>2, <3>3
  <2> QED BY <2>2, <2>3
<1>12. h[w[i]].next = IF i = Len(w) THEN Null ELSE w[i + 1]
  <2>1. h[w[i]].next = cells[w[i]].next
    <3>1. i > i - 1
      OBVIOUS
    <3> QED BY <3>1 DEF h, Turned
  <2> QED BY <2>1 DEF Order
<1>13. i # 0
    OBVIOUS
<1> DEFINE r == Turn(s)
<1>14. r.heap = new /\ r.before = w[i] /\ r.curr = h[w[i]].next
    BY <1>5
<1> HIDE DEF r
<1>15. Turned(r, i, w, cells, V)
    BY <1>6, <1>7, <1>9, <1>10, <1>11, <1>12, <1>13, <1>14 DEF Turned
<1> QED BY <1>15 DEF r

LEMMA RevertTurns ==
    ASSUME NEW V, NEW cells, IsHeap(cells, V), NEW list \in DOMAIN cells \cup {Null},
           NEW w, w = Walk(cells, list)
    PROVE  \E s : /\ Turned(s, Len(w), w, cells, V)
                  /\ Revert(cells, list) = [heap |-> s.heap, list |-> s.before]
<1>1. w \in Seq(DOMAIN cells) /\ Order(w, cells, list)
    BY WalkDoes, WalkOrder DEF IsHeap
<1>2. Len(w) \in Nat
    BY <1>1
<1> DEFINE n == Len(w)  start == [heap |-> cells, before |-> Null, curr |-> list]
           f == CHOOSE f : f = [i \in 0 .. n |->
                    IF i = 0 THEN [heap |-> cells, before |-> Null, curr |-> list]
                    ELSE LET s == f[i - 1] IN
                         [heap   |-> [s.heap EXCEPT ![s.curr].next = s.before],
                          before |-> s.curr,
                          curr   |-> s.heap[s.curr].next]]
<1>3. Turns(f, cells, list, n)
  <2>1. PICK g : Turns(g, cells, list, n)
    BY <1>2, CanBeTurned
  <2>2. g = [i \in 0 .. n |->
                    IF i = 0 THEN [heap |-> cells, before |-> Null, curr |-> list]
                    ELSE LET s == g[i - 1] IN
                         [heap   |-> [s.heap EXCEPT ![s.curr].next = s.before],
                          before |-> s.curr,
                          curr   |-> s.heap[s.curr].next]]
    BY <2>1 DEF Turns, Turn
  <2>3. f = [i \in 0 .. n |->
                    IF i = 0 THEN [heap |-> cells, before |-> Null, curr |-> list]
                    ELSE LET s == f[i - 1] IN
                         [heap   |-> [s.heap EXCEPT ![s.curr].next = s.before],
                          before |-> s.curr,
                          curr   |-> s.heap[s.curr].next]]
    BY <2>2
  <2> HIDE DEF f
  <2> QED BY <2>3 DEF Turns, Turn
<1>4. Revert(cells, list) = [heap |-> f[n].heap, list |-> f[n].before]
    BY DEF Revert, Freed
<1> HIDE DEF f, n
<1>5. f = [i \in 0 .. n |-> IF i = 0 THEN start ELSE Turn(f[i - 1])]
    BY <1>3 DEF Turns
<1> HIDE DEF start
<1>6. f[0] = start /\ \A i \in 1 .. n : f[i] = Turn(f[i - 1])
  <2>1. 0 \in 0 .. n /\ \A i \in 1 .. n : i \in 0 .. n /\ i # 0
    BY <1>2 DEF n
  <2> QED BY <1>5, <2>1
<1>7. Turned(start, 0, w, cells, V)
  <2>1. start.heap = cells /\ start.before = Null /\ start.curr = list
    BY DEF start
  <2>2. list = IF 0 = Len(w) THEN Null ELSE w[0 + 1]
    <3>1. CASE Len(w) = 0
      BY <1>1, <3>1, EmptySeq DEF Order
    <3>2. CASE Len(w) # 0
      BY <1>1, <1>2, <3>2 DEF Order
    <3> QED BY <3>1, <3>2
  <2>3. \A j \in 1 .. Len(w) : j > 0
    OBVIOUS
  <2>4. \A c \in DOMAIN cells : cells[c] \in [val : V, next : DOMAIN cells \cup {Null}]
    BY DEF IsHeap
  <2> QED BY <2>1, <2>2, <2>3, <2>4 DEF Turned
<1> DEFINE T == {i \in 0 .. n : ~Turned(f[i], i, w, cells, V)}
<1>8. T = {}
  <2> SUFFICES ASSUME T # {} PROVE FALSE
    OBVIOUS
  <2>1. PICK i \in T : \A j \in T : i <= j
    <3>1. T \subseteq Nat
      BY <1>2 DEF n
    <3> HIDE DEF T
    <3> QED BY <3>1, LeastNatural
  <2>2. i \in 0 .. n /\ ~Turned(f[i], i, w, cells, V)
    BY <2>1
  <2>3. i # 0
    BY <1>6, <1>7, <2>2
  <2>4. i \in 1 .. Len(w) /\ i \in 1 .. n /\ i - 1 \in 0 .. n /\ ~(i <= i - 1)
    BY <1>2, <2>2, <2>3 DEF n
  <2>5. Turned(f[i - 1], i - 1, w, cells, V)
    <3>1. i - 1 \notin T
      <4> HIDE DEF T
      <4> QED BY <2>1, <2>4
    <3> QED BY <2>4, <3>1
  <2>6. Turned(Turn(f[i - 1]), i, w, cells, V)
    BY <1>1, <2>4, <2>5, TurnTurns
  <2> QED BY <1>6, <2>2, <2>4, <2>6
<1>9. Turned(f[n], n, w, cells, V)
  <2>1. n \in 0 .. n
    BY <1>2 DEF n
  <2>2. n \notin T
    <3> HIDE DEF T
    <3> QED BY <1>8
  <2> QED BY <2>1, <2>2
<1> QED BY <1>4, <1>9 DEF n

\* A list turned round has no circle, and its cells in reverse order.
LEMMA TurnedWalk ==
    ASSUME NEW V, NEW cells, IsHeap(cells, V), NEW list \in DOMAIN cells \cup {Null},
           NEW w, w = Walk(cells, list), NEW s, Turned(s, Len(w), w, cells, V)
    PROVE  Walk(s.heap, s.before) = Reverse(w)
<1>1. w \in Seq(DOMAIN cells) /\ Order(w, cells, list)
    BY WalkDoes, WalkOrder DEF IsHeap
<1>2. Len(w) \in Nat /\ DOMAIN w = 1 .. Len(w) /\ \A j \in 1 .. Len(w) : w[j] \in DOMAIN cells
    BY <1>1, LenProperties, ElementOfSeq
<1> DEFINE n == Len(w)  h == s.heap
<1>3. /\ DOMAIN h = DOMAIN cells
      /\ \A c \in DOMAIN cells : h[c] \in [val : V, next : DOMAIN cells \cup {Null}]
      /\ \A j \in 1 .. n : h[w[j]].next = IF j = 1 THEN Null ELSE w[j - 1]
      /\ \A c \in DOMAIN cells \ Range(w) : h[c].next = cells[c].next
      /\ s.before = IF n = 0 THEN Null ELSE w[n]
  <2>1. \A j \in 1 .. n : ~(j > n)
    BY <1>2
  <2> QED BY <2>1 DEF Turned
<1> HIDE DEF h, n
<1>4. n \in Nat
    BY <1>2 DEF n
<1>5. Chains(h)
  <2>1. PICK k \in Nat : \E rank \in [DOMAIN cells -> 0 .. k] :
            \A d \in DOMAIN cells : cells[d].next # Null => rank[cells[d].next] < rank[d]
    BY DEF IsHeap, Chains, Falls
  <2>2. PICK rank \in [DOMAIN cells -> 0 .. k] :
            \A d \in DOMAIN cells : cells[d].next # Null => rank[cells[d].next] < rank[d]
    BY <2>1
  <2> DEFINE At(c) == CHOOSE j \in 1 .. n : w[j] = c
             new   == [c \in DOMAIN h |-> IF c \in Range(w) THEN At(c) ELSE rank[c] + n + 1]
  <2>3. \A c \in Range(w) : At(c) \in 1 .. n /\ w[At(c)] = c
    BY <1>2 DEF Range, n
  <2>4. \A j \in 1 .. n : w[j] \in Range(w) /\ At(w[j]) = j
    <3> SUFFICES ASSUME NEW j \in 1 .. n PROVE w[j] \in Range(w) /\ At(w[j]) = j
      OBVIOUS
    <3>1. w[j] \in Range(w)
      BY <1>2 DEF Range, n
    <3>2. At(w[j]) \in 1 .. n /\ w[At(w[j])] = w[j]
      BY <2>3, <3>1
    <3> HIDE DEF At
    <3> QED BY <1>1, <3>1, <3>2 DEF Order, n
  <2> HIDE DEF At
  <2>5. k + n + 1 \in Nat /\ new \in [DOMAIN h -> 0 .. k + n + 1]
    <3>1. \A c \in DOMAIN h : rank[c] \in 0 .. k
      BY <1>3, <2>2
    <3>2. \A c \in DOMAIN h : new[c] \in 0 .. k + n + 1
      BY <1>4, <2>3, <3>1
    <3> QED BY <1>4, <3>2
  <2>6. ASSUME NEW d \in DOMAIN h, h[d].next # Null PROVE new[h[d].next] < new[d]
    <3>1. h[d].next \in DOMAIN h
      BY <1>3, <2>6
    <3>2. CASE d \in Range(w)
      <4>1. At(d) \in 1 .. n /\ w[At(d)] = d /\ new[d] = At(d)
        BY <2>3, <3>2
      <4>2. At(d) # 1 /\ h[d].next = w[At(d) - 1]
        BY <1>3, <2>6, <4>1
      <4>3. At(d) - 1 \in 1 .. n
        BY <1>4, <4>1, <4>2
      <4>4. h[d].next \in Range(w) /\ At(h[d].next) = At(d) - 1
        BY <2>4, <4>2, <4>3
      <4>5. new[h[d].next] = At(d) - 1
        BY <3>1, <4>4
      <4> HIDE DEF new
      <4> QED BY <4>1, <4>3, <4>5
    <3>3. CASE d \notin Range(w)
      <4>1. h[d].next = cells[d].next /\ d \in DOMAIN cells /\ rank[d] \in Nat /\ new[d] = rank[d] + n + 1
        BY <1>3, <2>2, <3>3
      <4>2. CASE h[d].next \in Range(w)
        <5>1. new[h[d].next] \in 1 .. n
          BY <2>3, <3>1, <4>2
        <5> HIDE DEF new
        <5> QED BY <1>4, <4>1, <5>1
      <4>3. CASE h[d].next \notin Range(w)
        <5>1. new[h[d].next] = rank[h[d].next] + n + 1 /\ rank[h[d].next] \in Nat
          BY <1>3, <2>2, <3>1, <4>3
        <5>2. rank[h[d].next] < rank[d]
          BY <2>2, <2>6, <4>1
        <5> HIDE DEF new
        <5> QED BY <1>4, <4>1, <5>1, <5>2
      <4> QED BY <4>2, <4>3
    <3> QED BY <3>2, <3>3
  <2>7. Falls(h)
    <3> HIDE DEF new
    <3> QED BY <2>5, <2>6 DEF Falls
  <2>8. Null \notin DOMAIN h /\ \A c \in DOMAIN h : h[c].next \in DOMAIN h \cup {Null}
    BY <1>3 DEF IsHeap, Chains
  <2> QED BY <2>7, <2>8 DEF Chains
<1> DEFINE From(j) == [i \in 1 .. j |-> w[j - i + 1]]
           D == DOMAIN cells
<1>6. \A j \in 0 .. n : From(j) \in Seq(D) /\ Len(From(j)) = j
  <2> TAKE j \in 0 .. n
  <2>1. \A i \in 1 .. j : j - i + 1 \in 1 .. n
    BY <1>4
  <2>2. \A i \in 1 .. j : w[j - i + 1] \in D
    BY <1>2, <2>1 DEF n
  <2> QED BY <2>2
<1> DEFINE T == {j \in 1 .. n : Walk(h, w[j]) # From(j)}
<1>7. T = {}
  <2> SUFFICES ASSUME T # {} PROVE FALSE
    OBVIOUS
  <2>1. PICK j \in T : \A i \in T : j <= i
    <3>1. T \subseteq Nat
      BY <1>4
    <3> HIDE DEF T
    <3> QED BY <3>1, LeastNatural
  <2>2. j \in 1 .. n /\ Walk(h, w[j]) # From(j) /\ w[j] \in D
    BY <1>2, <2>1 DEF n
  <2>3. Walk(h, w[j]) = <<w[j]>> \o Walk(h, h[w[j]].next)
    BY <1>3, <1>5, <2>2, WalkDoes
  <2>4. Walk(h, h[w[j]].next) = From(j - 1)
    <3>1. CASE j = 1
      <4>1. h[w[j]].next = Null
        BY <1>3, <2>2, <3>1
      <4>2. Walk(h, Null) = <<>>
        BY <1>5, WalkDoes
      <4>3. From(0) = <<>> /\ j - 1 = 0
        BY <3>1
      <4> HIDE DEF From
      <4> QED BY <4>1, <4>2, <4>3
    <3>2. CASE j # 1
      <4>1. j - 1 \in 1 .. n /\ h[w[j]].next = w[j - 1] /\ ~(j <= j - 1)
        BY <1>3, <1>4, <2>2, <3>2
      <4>2. j - 1 \notin T
        <5> HIDE DEF T
        <5> QED BY <2>1, <4>1
      <4> HIDE DEF From
      <4> QED BY <4>1, <4>2
    <3> QED BY <3>1, <3>2
  <2>5. <<w[j]>> \o From(j - 1) = From(j)
    <3> DEFINE r == From(j - 1)  q == From(j)
    <3>1. /\ r \in Seq(D) /\ Len(r) = j - 1 /\ q \in Seq(D) /\ Len(q) = j
          /\ <<w[j]>> \in Seq(D) /\ Len(<<w[j]>>) = 1 /\ <<w[j]>>[1] = w[j]
      <4>1. j - 1 \in 0 .. n /\ j \in 0 .. n
        BY <1>4, <2>2
      <4> HIDE DEF From
      <4> QED BY <1>6, <2>2, <4>1
    <3>2. \A i \in 1 .. j : q[i] = w[j - i + 1]
      OBVIOUS
    <3>3. \A i \in 1 .. j - 1 : r[i] = w[j - 1 - i + 1]
      OBVIOUS
    <3> HIDE DEF r, q
    <3> DEFINE z == <<w[j]>> \o r
    <3>4. /\ z \in Seq(D) /\ Len(z) = 1 + (j - 1)
          /\ \A i \in 1 .. 1 + (j - 1) : z[i] = IF i <= 1 THEN <<w[j]>>[i] ELSE r[i - 1]
      BY <3>1, ConcatProperties
    <3>5. 1 + (j - 1) = j /\ j \in Nat
      BY <1>4, <2>2
    <3> HIDE DEF z
    <3>6. ASSUME NEW i \in 1 .. j PROVE z[i] = q[i]
      <4>1. z[i] = IF i <= 1 THEN <<w[j]>>[i] ELSE r[i - 1]
        BY <3>4, <3>5
      <4>2. CASE i = 1
        <5>1. j - i + 1 = j
          BY <3>5, <4>2
        <5> QED BY <3>1, <3>2, <4>1, <4>2, <5>1
      <4>3. CASE i # 1
        <5>1. ~(i <= 1) /\ i - 1 \in 1 .. j - 1 /\ j - 1 - (i - 1) + 1 = j - i + 1
          BY <3>5, <4>3
        <5> QED BY <3>2, <3>3, <4>1, <5>1
      <4> QED BY <4>2, <4>3
    <3>7. z = q
      BY <3>1, <3>4, <3>5, <3>6, SeqEqual
    <3> QED BY <3>7 DEF z, r, q
  <2> HIDE DEF From
  <2> QED BY <2>2, <2>3, <2>4, <2>5
<1>8. Reverse(w) = [i \in 1 .. n |-> w[n - i + 1]]
    BY DEF Reverse, n
<1>9. CASE n = 0
  <2>1. Walk(h, s.before) = <<>>
    BY <1>3, <1>5, <1>9, WalkDoes
  <2>2. Reverse(w) = <<>>
    BY <1>8, <1>9
  <2> QED BY <2>1, <2>2 DEF h
<1>10. CASE n # 0
  <2>1. n \in 1 .. n /\ s.before = w[n]
    BY <1>3, <1>4, <1>10
  <2>2. n \notin T
    <3> HIDE DEF T
    <3> QED BY <1>7
  <2>3. Walk(h, w[n]) = From(n)
    <3> HIDE DEF From
    <3> QED BY <2>1, <2>2
  <2> QED BY <1>8, <2>1, <2>3 DEF h
<1> QED BY <1>9, <1>10

LEMMA RevertWorks ==
    ASSUME NEW V, NEW cells, IsHeap(cells, V), NEW list \in DOMAIN cells \cup {Null},
           NEW r, r = Revert(cells, list)
    PROVE  /\ Values(r.heap, r.list) = Reverse(Values(cells, list))
           /\ Range(Freed(r.heap, r.list)) = Range(Freed(cells, list))
<1> DEFINE w == Walk(cells, list)  n == Len(w)
<1>1. PICK s : /\ Turned(s, Len(w), w, cells, V)
               /\ Revert(cells, list) = [heap |-> s.heap, list |-> s.before]
    BY RevertTurns
<1>2. r.heap = s.heap /\ r.list = s.before
    BY <1>1
<1>3. Walk(s.heap, s.before) = Reverse(w)
    BY <1>1, TurnedWalk
<1>4. w \in Seq(DOMAIN cells)
    BY WalkDoes DEF IsHeap
<1> HIDE DEF w
<1>5. n \in Nat /\ DOMAIN w = 1 .. n /\ \A j \in 1 .. n : w[j] \in DOMAIN cells
    BY <1>4, LenProperties, ElementOfSeq
<1> DEFINE back == Reverse(w)
<1>6. back = [i \in 1 .. n |-> w[n - i + 1]] /\ DOMAIN back = 1 .. n
    BY <1>5 DEF Reverse
<1> HIDE DEF n, back
<1>7. \A i \in 1 .. n : n - i + 1 \in 1 .. n /\ n - (n - i + 1) + 1 = i
    BY <1>5
<1>8. Range(back) = Range(w)
  <2>1. \A c \in Range(back) : c \in Range(w)
    BY <1>5, <1>6, <1>7 DEF Range
  <2>2. ASSUME NEW i \in 1 .. n PROVE w[i] \in Range(back)
    <3>1. back[n - i + 1] = w[n - (n - i + 1) + 1]
      BY <1>6, <1>7
    <3>2. back[n - i + 1] = w[i]
      BY <1>7, <3>1
    <3> QED BY <1>6, <1>7, <3>2 DEF Range
  <2> QED BY <1>5, <2>1, <2>2 DEF Range
<1> DEFINE vals == Values(cells, list)  read == Values(s.heap, s.before)
<1>9. vals = [i \in 1 .. n |-> cells[w[i]].val]
    BY <1>5 DEF Values, w
<1>10. read = [i \in 1 .. n |-> s.heap[back[i]].val]
  <2>1. Walk(s.heap, s.before) = back
    BY <1>3 DEF back
  <2> QED BY <1>6, <2>1 DEF Values
<1>11. vals \in Seq({cells[d].val : d \in DOMAIN cells}) /\ Len(vals) = n
  <2> HIDE DEF vals
  <2>1. \A i \in 1 .. n : vals[i] \in {cells[d].val : d \in DOMAIN cells}
    BY <1>5, <1>9
  <2>2. vals \in [1 .. n -> {cells[d].val : d \in DOMAIN cells}]
    BY <1>9, <2>1
  <2> QED BY <1>5, <2>2
<1> HIDE DEF vals, read
<1>12. Reverse(vals) = [i \in 1 .. n |-> vals[n - i + 1]]
    BY <1>11 DEF Reverse
<1>13. \A i \in 1 .. n : read[i] = vals[n - i + 1]
  <2> TAKE i \in 1 .. n
  <2>1. read[i] = s.heap[w[n - i + 1]].val
    BY <1>6, <1>10
  <2>2. w[n - i + 1] \in DOMAIN cells
    BY <1>5, <1>7
  <2>3. s.heap[w[n - i + 1]].val = cells[w[n - i + 1]].val
    BY <1>1, <2>2 DEF Turned
  <2> QED BY <1>7, <1>9, <2>1, <2>3
<1>14. read = [i \in 1 .. n |-> read[i]]
    BY <1>10
<1>15. read = Reverse(vals)
    BY <1>12, <1>13, <1>14
<1>16. Range(Walk(s.heap, s.before)) = Range(Walk(cells, list))
    BY <1>3, <1>8 DEF back, w
<1> QED BY <1>2, <1>15, <1>16 DEF read, vals, Freed

LEMMA ListsWorkHere == IInv => ListsWork
<1> SUFFICES ASSUME IInv, NEW n \in DOMAIN nodes
             PROVE  LET l == nodes[n].followers
                        c == Fresh(heap)
                        r == Revert(heap, l)
                    IN  /\ IsInjective(Freed(heap, l))
                        /\ Values(r.heap, r.list) = Reverse(Values(heap, l))
                        /\ Range(Freed(r.heap, r.list)) = Range(Freed(heap, l))
                        /\ \A u \in User :
                            /\ (Find(heap, l, u) # Null) = Contains(Values(heap, l), u)
                            /\ Room(heap) =>
                                LET h == Create(heap, c, u) IN
                                /\ Values(Link(h, l, c), Start(l, c)) = Append(Values(heap, l), u)
                                /\ Values(Push(h, l, c), c) = <<u>> \o Values(heap, l)
    BY DEF ListsWork
<1> DEFINE l == nodes[n].followers  c == Fresh(heap)  r == Revert(heap, l)
<1>1. IsHeap(heap, User)
  <2>1. \A d \in DOMAIN heap : heap[d] \in [val : User, next : DOMAIN heap \cup {Null}]
    BY DEF IInv, TypeOK
  <2> QED BY <2>1, TableChains DEF IsHeap
<1>2. l \in DOMAIN heap \cup {Null}
    BY TableChains
<1> HIDE DEF l, c, r
<1>3. IsInjective(Freed(heap, l))
  <2> DEFINE w == Walk(heap, l)
  <2>1. w \in Seq(DOMAIN heap) /\ Order(w, heap, l)
    BY <1>1, <1>2, WalkDoes, WalkOrder DEF IsHeap
  <2> HIDE DEF w
  <2>2. DOMAIN w = 1 .. Len(w)
    BY <2>1, LenProperties
  <2>3. IsInjective(w)
    BY <2>1, <2>2 DEF Order, IsInjective
  <2> QED BY <2>3 DEF w, Freed
<1>4. /\ Values(r.heap, r.list) = Reverse(Values(heap, l))
      /\ Range(Freed(r.heap, r.list)) = Range(Freed(heap, l))
  <2>1. r = Revert(heap, l)
    BY DEF r
  <2> QED BY <1>1, <1>2, <2>1, RevertWorks
<1>5. ASSUME NEW u \in User PROVE (Find(heap, l, u) # Null) = Contains(Values(heap, l), u)
  <2>1. Find(heap, l, u) # Null <=> Contains(Values(heap, l), u)
    BY <1>1, <1>2, FindWorks
  <2>2. Contains(Values(heap, l), u) \in BOOLEAN
    BY DEF Contains
  <2> QED BY <2>1, <2>2
<1>6. ASSUME NEW u \in User, Room(heap)
      PROVE  /\ Values(Link(Create(heap, c, u), l, c), Start(l, c)) = Append(Values(heap, l), u)
             /\ Values(Push(Create(heap, c, u), l, c), c) = <<u>> \o Values(heap, l)
  <2>1. c \notin DOMAIN heap /\ c # Null
    BY <1>6, FreshIsNew DEF c
  <2>2. Values(Link(Create(heap, c, u), l, c), Start(l, c)) = Append(Values(heap, l), u)
    BY <1>1, <1>2, <2>1, AppendWorks
  <2>3. Values(Push(Create(heap, c, u), l, c), c) = <<u>> \o Values(heap, l)
    BY <1>1, <1>2, <2>1, PushWorks
  <2> QED BY <2>2, <2>3
<1> QED BY <1>3, <1>4, <1>5, <1>6 DEF l, c, r

(***************************************************************************)
(* In every state the operations on the lists do what their names say, for *)
(* lists of any length (chained_list.c).                                   *)
(***************************************************************************)
THEOREM OperationsOnLists == Spec => []ListsWork
<1>1. IInv => ListsWork
    BY ListsWorkHere
<1> QED BY <1>1, Invariant, PTL

=============================================================================

------------------------------ MODULE UserTable ------------------------------
(***************************************************************************)
(* The table of users in memory: buckets of hash nodes, every user with a  *)
(* list of followers.  Logins insert under MUTEX_LOGIN and followers are   *)
(* added under the user's mutex, but nobody locks to read: hash_find and   *)
(* the loops over table and lists (save_savefile in the signal handler,    *)
(* send_initial_replication) run while nodes and cells are linked.         *)
(*                                                                         *)
(* Every write to memory that such a reader could see is a step.  A user   *)
(* and its node are one record; names are sequences of character codes.    *)
(***************************************************************************)
EXTENDS Integers, Sequences, SequencesExt, ChainedList, Savefile

CONSTANTS
    User,
    Key,        \* Key[u]: the characters of u's name, of 7 bits
    HASH_SIZE,
    Node,       \* the addresses calloc can return for hash nodes
    Thread,     \* threads that log in and add followers
    Char,       \* characters, which a char with a sign holds, and
    MaxName,    \* bound: their number in the names AddressInTable looks at
    MaxFollows  \* bound: followers added

ASSUME UserTableAssumption ==
    /\ HASH_SIZE \in Nat \ {0} /\ MaxFollows \in Nat /\ MaxName \in Nat
    /\ Char \subseteq -128 .. 127
    /\ Key \in [User -> Seq(1 .. 127)]
    /\ Null \notin Node \cup User \cup Thread

VARIABLES
    head,      \* table[address]
    nodes,     \* the hash nodes: key, next and the user's followers
    heap,      \* the cells of the lists of followers
    loginLock, \* MUTEX_LOGIN: its holder
    userLock,  \* user->mutex, by node: its holder
    pc, op,    \* where a thread is, and what it works with
    asked,     \* follows asked for
    finder,    \* a search: where it is, and whether its user was there before
    saver,     \* save_savefile: where it is
    file,      \* the lines written
    loader     \* read_savefile: where it is in the file, and the users it has

threadVars == <<pc, op>>
readVars   == <<finder, saver, file, loader>>
vars == <<head, nodes, heap, loginLock, userLock, threadVars, asked, readVars>>

-----------------------------------------------------------------------------
\* C's remainder: it takes the sign of the dividend.
Remainder(a, b) == IF a >= 0 THEN a % b ELSE -((-a) % b)

\* The loop of hash_address over the characters of a name.
Addresses(key) ==
    LET after[i \in 0 .. Len(key)] ==
            IF i = 0 THEN 1 ELSE Remainder(after[i - 1] * key[i], HASH_SIZE) + 1
    IN  after[Len(key)]

\* Fault: the address is left in 1 .. HASH_SIZE.
AddressFromOne(key) == Addresses(key)

\* hash_address.
Address(key) == Addresses(key) - 1

Bucket == 0 .. HASH_SIZE - 1
Of     == [u \in User |-> Address(Key[u])]

\* The nodes of a bucket, as its chain has them.
Chain(a) == Walk(nodes, head[a])

Linked == UNION {Range(Chain(a)) : a \in Bucket}

\* hash_find, when nothing is inserted meanwhile.
FindNode(u) == First(nodes, head[Of[u]], {n \in DOMAIN nodes : nodes[n].key = u})

\* The map that the table stands for.
Map == [u \in {nodes[n].key : n \in Linked} |-> Values(heap, nodes[FindNode(u)].followers)]

Init ==
    /\ head = [a \in Bucket |-> Null]
    /\ nodes = <<>> /\ heap = <<>>
    /\ loginLock = Null /\ userLock = [n \in Node |-> Null]
    /\ pc = [t \in Thread |-> "idle"]
    /\ op = [t \in Thread |-> <<>>]
    /\ asked = {}
    /\ finder = [at |-> Null, of |-> Null, there |-> FALSE, done |-> TRUE]
    /\ saver = [pc |-> "idle", bucket |-> 0, at |-> Null, map |-> <<>>]
    /\ file = <<>>
    /\ loader = [at |-> [line |-> 1, names |-> 0], table |-> <<>>]

Goto(t, l, o) == pc' = [pc EXCEPT ![t] = l] /\ op' = [op EXCEPT ![t] = o]
Rest(t) == Goto(t, "idle", <<>>)

-----------------------------------------------------------------------------
(* login_user and hash_insert.                                              *)

\* Fault: the lock is released before the insertion.
LoginFindUnlocked(t, u) ==
    /\ pc[t] = "idle" /\ loginLock = Null
    /\ FindNode(u) = Null
    /\ Goto(t, "insert", <<u>>)
    /\ UNCHANGED <<head, nodes, heap, loginLock, userLock, asked, readVars>>

\* A user that is found only counts one session more.
LoginFind(t, u) ==
    /\ pc[t] = "idle" /\ loginLock = Null
    /\ FindNode(u) = Null
    /\ loginLock' = t
    /\ Goto(t, "insert", <<u>>)
    /\ UNCHANGED <<head, nodes, heap, userLock, asked, readVars>>

\* Fault: the new node does not point to the rest of its bucket.
InsertNodeAlone(t) ==
    /\ pc[t] = "insert"
    /\ \E n \in Node \ DOMAIN nodes :
        /\ nodes' = [m \in DOMAIN nodes \cup {n} |->
              IF m = n THEN [key |-> op[t][1], next |-> Null, followers |-> Null] ELSE nodes[m]]
        /\ Goto(t, "link", <<op[t][1], n>>)
    /\ UNCHANGED <<head, heap, loginLock, userLock, asked, readVars>>

\* The node is complete before the table points to it.
InsertNode(t) ==
    /\ pc[t] = "insert"
    /\ \E n \in Node \ DOMAIN nodes :
        /\ nodes' = [m \in DOMAIN nodes \cup {n} |->
              IF m = n THEN [key |-> op[t][1], next |-> head[Of[op[t][1]]], followers |-> Null]
              ELSE nodes[m]]
        /\ Goto(t, "link", <<op[t][1], n>>)
    /\ UNCHANGED <<head, heap, loginLock, userLock, asked, readVars>>

InsertHead(t) ==
    /\ pc[t] = "link"
    /\ head' = [head EXCEPT ![Of[op[t][1]]] = op[t][2]]
    /\ loginLock' = Null
    /\ Rest(t)
    /\ UNCHANGED <<nodes, heap, userLock, asked, readVars>>

HashInsert(t) == InsertNode(t) \/ InsertHead(t)

-----------------------------------------------------------------------------
(* A new follower, under the user's mutex (follow_user, handle_replication) *)
(* and chained_list_append_end.                                             *)

\* Fault: the mutex of the user is not taken.
AppendLockNot(t, u, f) ==
    /\ pc[t] = "idle" /\ <<u, f>> \notin asked /\ Cardinality(asked) < MaxFollows
    /\ FindNode(u) # Null
    /\ asked' = asked \cup {<<u, f>>}
    /\ Goto(t, "create", <<FindNode(u), f>>)
    /\ UNCHANGED <<head, nodes, heap, loginLock, userLock, readVars>>

AppendLock(t, u, f) ==
    LET n == FindNode(u) IN
    /\ pc[t] = "idle" /\ <<u, f>> \notin asked /\ Cardinality(asked) < MaxFollows
    /\ n # Null /\ userLock[n] = Null
    /\ userLock' = [userLock EXCEPT ![n] = t]
    /\ asked' = asked \cup {<<u, f>>}
    /\ Goto(t, "create", <<n, f>>)
    /\ UNCHANGED <<head, nodes, heap, loginLock, readVars>>

\* Fault: the followed user in the place of the follower.
AppendCreateSwapped(t) ==
    LET c == Fresh(heap)  n == op[t][1] IN
    /\ pc[t] = "create" /\ Room(heap)
    /\ heap' = Create(heap, c, nodes[n].followers)
    /\ Goto(t, "append", <<n, nodes[n].followers, c>>)
    /\ UNCHANGED <<head, nodes, loginLock, userLock, asked, readVars>>

AppendCreate(t) ==
    LET c == Fresh(heap)  n == op[t][1] IN
    /\ pc[t] = "create" /\ Room(heap)
    /\ heap' = Create(heap, c, op[t][2])
    /\ Goto(t, "append", <<n, nodes[n].followers, c>>)
    /\ UNCHANGED <<head, nodes, loginLock, userLock, asked, readVars>>

\* Linked to the last cell, or the user's list starts with it.
AppendLink(t) ==
    LET n == op[t][1]  list == op[t][2]  c == op[t][3] IN
    /\ pc[t] = "append"
    /\ heap' = Link(heap, list, c)
    /\ nodes' = [nodes EXCEPT ![n].followers = Start(list, c)]
    /\ userLock' = [userLock EXCEPT ![n] = Null]
    /\ Rest(t)
    /\ UNCHANGED <<head, loginLock, asked, readVars>>

AppendFollower(t) == AppendCreate(t) \/ AppendLink(t)

-----------------------------------------------------------------------------
(* Readers, without a lock.  They do not see one another: a behaviour has   *)
(* one, a search or a save, which starts at any time.                       *)

NoReader == finder.of = Null /\ saver.pc = "idle"

\* hash_insert has returned for u.
Inserted(u) == \E n \in DOMAIN nodes :
    nodes[n].key = u /\ \A t \in Thread : ~(pc[t] = "link" /\ op[t][2] = n)

\* hash_find by another thread: at the start of the bucket ...
FindStart(u) ==
    /\ NoReader
    /\ finder' = [at |-> head[Of[u]], of |-> u, there |-> Inserted(u), done |-> FALSE]
    /\ UNCHANGED <<head, nodes, heap, loginLock, userLock, threadVars, asked, saver, file, loader>>

\* ... and on to the next node until there is none or it is the one.
FindOn ==
    /\ ~finder.done
    /\ finder' = IF finder.at = Null \/ nodes[finder.at].key = finder.of
                 THEN [finder EXCEPT !.done = TRUE]
                 ELSE [finder EXCEPT !.at = nodes[finder.at].next]
    /\ UNCHANGED <<head, nodes, heap, loginLock, userLock, threadVars, asked, saver, file, loader>>

HashFind == (\E u \in User : FindStart(u)) \/ FindOn

\* save_savefile, from the signal handler while the other threads go on.
SaveStart ==
    /\ NoReader
    /\ saver' = [pc |-> "bucket", bucket |-> 0, at |-> head[0], map |-> Map]
    /\ UNCHANGED <<head, nodes, heap, loginLock, userLock, threadVars, asked, finder, file, loader>>

\* The end of a bucket: the next one, or the end of the table.
SaveBucket ==
    /\ saver.pc = "bucket" /\ saver.at = Null
    /\ saver' = IF saver.bucket = HASH_SIZE - 1 THEN [saver EXCEPT !.pc = "done"]
                ELSE [saver EXCEPT !.bucket = @ + 1, !.at = head[saver.bucket + 1]]
    /\ UNCHANGED <<head, nodes, heap, loginLock, userLock, threadVars, asked, finder, file, loader>>

\* Fault: only the first user of a bucket.
SaveUserFirst ==
    /\ saver.pc = "bucket" /\ saver.at # Null
    /\ file' = file \o SavedUser(nodes[saver.at].key, Values(heap, nodes[saver.at].followers))
    /\ saver' = [saver EXCEPT !.at = Null]
    /\ UNCHANGED <<head, nodes, heap, loginLock, userLock, threadVars, asked, finder, loader>>

\* A user and its followers: a list only grows at its end, so the walk along it
\* sees it as it is when it gets there.
SaveUser ==
    /\ saver.pc = "bucket" /\ saver.at # Null
    /\ file' = file \o SavedUser(nodes[saver.at].key, Values(heap, nodes[saver.at].followers))
    /\ saver' = [saver EXCEPT !.at = nodes[saver.at].next]
    /\ UNCHANGED <<head, nodes, heap, loginLock, userLock, threadVars, asked, finder, loader>>

Save == SaveStart \/ SaveBucket \/ SaveUser

\* The process has saved and exited: what read_savefile makes of its file, a
\* turn of the loop at a time.
Load ==
    /\ saver.pc = "done" /\ ~NoMore(file, loader.at)
    /\ LET read   == loader.table
           before == IF read = <<>> THEN <<>> ELSE Last(read).followers
       IN  loader' = [at    |-> ReadTo(file, loader.at),
                      table |-> Append(read, Read(file, loader.at, before))]
    /\ UNCHANGED <<head, nodes, heap, loginLock, userLock, threadVars, asked, finder, saver, file>>

-----------------------------------------------------------------------------
Next ==
    \/ \E t \in Thread : saver.pc # "done" /\
        \/ \E u \in User : LoginFind(t, u) \/ \E f \in User \ {u} : AppendLock(t, u, f)
        \/ HashInsert(t) \/ AppendFollower(t)
    \/ HashFind
    \/ Save
    \/ Load

Spec == Init /\ [][Next]_vars

-----------------------------------------------------------------------------
TypeOK ==
    /\ head \in [Bucket -> DOMAIN nodes \cup {Null}]
    /\ DOMAIN nodes \subseteq Node /\ DOMAIN heap \subseteq Cell
    /\ \A n \in DOMAIN nodes : nodes[n] \in
        [key : User, next : DOMAIN nodes \cup {Null}, followers : DOMAIN heap \cup {Null}]
    /\ \A c \in DOMAIN heap : heap[c] \in [val : User, next : DOMAIN heap \cup {Null}]
    /\ loginLock \in Thread \cup {Null} /\ userLock \in [Node -> Thread \cup {Null}]
    /\ pc \in [Thread -> {"idle", "insert", "link", "create", "append"}]
    /\ op \in [Thread -> Seq(User \cup Node \cup Cell \cup {Null})]
    /\ asked \subseteq User \X User
    /\ finder \in [at : DOMAIN nodes \cup {Null}, of : User \cup {Null},
                   there : BOOLEAN, done : BOOLEAN]
    /\ saver \in [pc : {"idle", "bucket", "done"}, bucket : Bucket,
                  at : DOMAIN nodes \cup {Null}, map : {saver.map}]
    /\ file \in Seq(Seq(User))
    /\ loader \in [at : [line : Nat \ {0}, names : Nat],
                   table : Seq([user : User \cup Seq(User), followers : Seq(User)])]

(***************************************************************************)
(* The table is a map: whatever threads log in and follow at the same      *)
(* time, a user is inserted once, a follower is added once, at the end,    *)
(* and nothing that was there is lost, at no step of hash_insert and       *)
(* chained_list_append_end.                                                *)
(***************************************************************************)
Abstract == INSTANCE UserMap WITH map <- Map
ImplementsUserMap == Abstract!Spec

(***************************************************************************)
(* A search that runs while others insert finds every user that was there  *)
(* when it started, and never another user's node (hash_find).             *)
(***************************************************************************)
FindsWhatIsThere ==
    finder.of # Null /\ finder.done =>
        IF finder.at = Null THEN ~finder.there ELSE nodes[finder.at].key = finder.of

(***************************************************************************)
(* What was written while the table changed can be read back (save_savefile *)
(* against read_savefile).  Until the first list of followers that is too  *)
(* long for the buffer, every user saved is read with the followers it had *)
(* when the save began, then perhaps later ones.  When every list fits,    *)
(* every user that was there when the save began is read, each user once,  *)
(* and nothing the table never held.                                       *)
(***************************************************************************)
SavedIsReadBack ==
    LET read    == loader.table
        users   == {read[i].user : i \in DOMAIN read}
        saved   == Len(file) \div 2
        Fits(i) == \A j \in 1 .. i : Len(file[2 * j]) <= ListRoom
    IN  saver.pc = "done" /\ NoMore(file, loader.at) =>
        /\ \A i \in 1 .. saved : Fits(i) =>
            /\ i \in DOMAIN read
            /\ read[i].user \in DOMAIN Map
            /\ IsPrefix(read[i].followers, Map[read[i].user])
            /\ read[i].user \in DOMAIN saver.map => IsPrefix(saver.map[read[i].user], read[i].followers)
        /\ Fits(saved) =>
            /\ DOMAIN saver.map \subseteq users /\ users \subseteq DOMAIN Map
            /\ Cardinality(users) = Len(read)

(***************************************************************************)
(* The lists in the heap are what the operations on them say: appending    *)
(* adds at the end, reverting gives the list from its end to its start     *)
(* with the same cells, finding gives a cell exactly when the value is in  *)
(* the list, and freeing frees no cell twice (chained_list.c).  Readers    *)
(* change no list: states in which one has started need no look.           *)
(***************************************************************************)
ListsWork ==
    NoReader => \A n \in DOMAIN nodes :
        LET l == nodes[n].followers
            c == Fresh(heap)
            r == Revert(heap, l)
        IN  /\ IsInjective(Freed(heap, l))
            /\ Values(r.heap, r.list) = Reverse(Values(heap, l))
            /\ Range(Freed(r.heap, r.list)) = Range(Freed(heap, l))
            /\ \A u \in User :
                /\ (Find(heap, l, u) # Null) = Contains(Values(heap, l), u)
                /\ Room(heap) =>
                    LET h == Create(heap, c, u) IN
                    /\ Values(Link(h, l, c), Start(l, c)) = Append(Values(heap, l), u)
                    /\ Values(Push(h, l, c), c) = <<u>> \o Values(heap, l)

(***************************************************************************)
(* "So that we can access the table correctly" (hash.c:51): every name of  *)
(* 7-bit characters, whatever its length up to MaxName, has a bucket in    *)
(* the table.  A char of more bits is negative, and its name's address may *)
(* be too, but it is less than HASH_SIZE from the table (hash_address).    *)
(***************************************************************************)
AddressInTable ==
    nodes = <<>> /\ NoReader =>
        \A l \in 0 .. MaxName : \A key \in [1 .. l -> Char] :
            /\ Address(key) \in 1 - HASH_SIZE .. HASH_SIZE - 1
            /\ (\A i \in 1 .. l : key[i] >= 0) => Address(key) \in Bucket

=============================================================================

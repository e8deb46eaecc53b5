# Verification of Sisopper

Sisopper is a small message board in C: clients (`src/src/client`) log in, send
messages and follow each other through a front end (`src/src/FE`), which talks
to the primary of a ring of replicated servers (`src/src/server`). This
directory holds TLA+ models of it, TLC configurations that check them on small
instances, and TLAPS proofs of its main safety properties for every size. Paths
below are relative to `src/src/`, as in `server/server.c:95`.

1. [Inventory](#1-inventory)  2. [Modules](#2-modules-and-the-code)
3. [Runs](#3-runs)  4. [Assumptions](#4-fairness-bounds-and-other-assumptions)
5. [Proofs](#5-proofs)  6. [What the code does not keep](#6-what-the-code-does-not-keep)
7. [Not modelled](#7-not-modelled)  8. [Plan](#8-plan)

## 1. Inventory

**Server ring** (`server/server_ring.c`, parts of `server/server.c`). State, per
process: `SERVER_RING` (`is_primary`, `primary_idx`, `next_index`,
`in_election`, `keepalive_tid`, the sockets). Operations:
`server_ring_connect` (bind a port, listen, look for the next server, ask it
who leads), the keepalive thread, `start_election`, and the handlers of
LEADER_QUESTION, KEEPALIVE, ELECTION and ELECTED. Every message is a connection
of its own and every connection a thread of its own, so messages are unordered
and handlers interleave. Hard: servers that boot together; `next_index`, written
by every scan of the process; several election tokens at once; servers that end
at any step. Correct means: at most one primary, everybody's `primary_idx` is a
server in office, a dead primary is replaced, elections end, whoever boots gets
through.

**Server delivery** (`server/server.c:145-475, 855-899`). State: the table of
users (session count, followers, pending notifications, one mutex each),
`MUTEX_PENDING_NOTIFICATIONS`, `GLOBAL_NOTIFICATION_ID`. Operations: login,
logout, follow, message, and `send_message`, by the front end's thread and by
the threads of `handle_replication`. Hard: two mutexes taken in both orders, a
session count read under a mutex that its writer does not take, pointers to
stack objects in lists. Correct means: every message reaches each receiver once
and in order, now or at its next login; every notification is handled to its end.

**Server replication** (`server/server.c:485-667, 822-852`). State: a copy of
the table of users in every server. Operations: `send_replication`, a
connection to the next server for every LOGIN, LOGOUT and FOLLOW;
`handle_replication`, which applies it and sends it on until the next server
is the primary; `send_initial_replication`, the whole table for a server that
joins. Hard: notifications that overtake each other, two scans that share
`next_index`, joiners and deaths while something travels. Correct means: the
copies agree, a joiner catches up, an answered FOLLOW is everywhere.

**Front end** (`FE/front_end.c`). State: the table of users (sockets and session
count), the message queue, the connection with the primary (`ring`),
`IS_CONNECTED_TO_SERVER`. Threads: one per client (login, read, enqueue,
logout), the message processor, the listener for what the primary pushes, the
keeper that watches the primary and replaces it (`connect_to_leader`). Hard:
concurrent logins of one user, pushes racing logins and logouts, writes to a
dead primary, two writers of one flag, a search for the primary while the
servers elect it. Correct means: counts and sockets agree, pushes reach the
right clients, messages reach the primary once and in order, the front end finds
the next primary.

**Data structures** (`structures/`): the hash table of users with chaining and
the singly linked lists of followers. Several threads change and read them; only
those that change them take mutexes. Correct means: the table is a map, a list a
sequence, and a reader finds what was there when it started. **Savefile**
(`server/savefile.c`): the signal handler writes the table when a server ends.
`read_savefile` would load it again, and has no caller. Correct means: what it
would load is what was there, as far as its buffers reach.

**Client** (`client/`): `main` logs in, reads the keyboard and sends; a thread
reads what the front end pushes; a thread of the user interface draws the
messages. State: the socket, the line typed, the list of messages, two mutexes.
Hard: two threads that add to the list while a third draws it, a connection that
ends at any call. Correct means: every message is kept and shown, newest first,
within the screen.

**Logger**, **sockets**, **users** (`utils/`, `structures/socket.c`, `user.c`):
helpers without state of their own.

Interactions: client -> front end: a connection per session, LOGIN first, end of
file as logout. Front end -> primary: one connection for everything the clients
do, plus one keepalive. Primary -> front end: pushed notifications on the first
of the two. Server -> server: connections per message, one long keepalive per
follower.

## 2. Modules and the code

| Module | What it is |
|---|---|
| `ServerRing` | the ring: one action per step of `server_ring.c` and of the ring handlers of `server.c` |
| `RingElection` | the same ring started in its steady state; properties of elections |
| `Leadership` | abstract: the first member leads, the others join under it, the leader stays |
| `FrontEndLink` | the front end's search for the primary and its keepalive, composed with `RingElection` |
| `FrontEnd` | all threads of the front end, and of the primary what pushes to it; clients external |
| `Delivery` | the primary's users, mutexes and pending notifications; front end and other servers external |
| `Replication` | the copies of the table under `send_replication`, `handle_replication`, `send_initial_replication` |
| `UserTable` | hash table and lists of followers in memory, with concurrent readers |
| `ChainedList`, `Savefile` | the operations of `chained_list.c` and `savefile.c` as operators, used by `UserTable` |
| `UserMap` | abstract: a map from users to lists of followers that only grows |
| `Client` | the client's three threads; user and front end external |
| `ServerRingProofs`, `RingElectionProofs`, `FrontEndLinkProofs`, `FrontEndProofs`, `DeliveryProofs`, `ReplicationProofs`, `UserTableProofs`, `ClientProofs` | theorems about the module of that name, with the inductive invariants they rest on, each in a module that extends it |
| `MC*` | constants and symmetry for TLC |

**ServerRing.** A server is the index of its port, so a restarted process is the
same index again. `th[s]` is the table of its threads: `main` and a pool of
slots. A thread is what it executes (`job`), where it is (`pc`), the
notification it is about to write (`msg`, `data`), the address computed last and
the peer of its socket. `Boot`, `Listen`, `Scan*`, `BootAlone`, `BootAsk`,
`BootFollow`, `BootUnanswered` are `server_ring_connect` and what it calls;
`Keepalive*` the watch of the primary, both ends of it; `Start*`, `Election*`,
`Elected*` the election. A step is what one thread does between two accesses to
state that other threads write: each access to `next_index` in a scan is a step
of its own (`ScanReset`, `ScanAdvance`, `ScanConnect`), and so is each critical
section of the handlers, since `in_election` is tested in one and set in the
next (`server.c:692`, `700`). `Send` hands a message over by starting the
receiver's handler in a free slot. `Die` ends a process; whoever was connected
to it finds its socket `Gone`. An `exit()` in the code is an `Exit` in the model.

**RingElection.** Adds a history variable, `raced`: whether two threads of one
process have ever been between the start of a scan and the use of the
`next_index` it leaves. It restricts nothing. Properties of the election
algorithm are asked until `raced`, because the overlap breaks them (section 6).

**FrontEndLink.** `step` is where `keep_server_connection` is: the scan for
somebody who listens (`Search`; with its `self_index` of -5 the scan of
`server_ring_connect_with_index` starts at the last port and never gives up), the
LEADER_QUESTION (`Answered`, `Unanswered`), the connection to the server that was
named (`DialPrimary`, `Greet`), the keepalive (`Watch`, `BeatLost`). `ServeFrontEnd`
and `ServeBeat` are `handle_connection` at the other end: a server that does not
lead closes the connection. The servers go on meanwhile, by the actions of
`RingElection`.

**FrontEnd.** One model value per client connection, used once; a user may have
several. `thread[c]` is the place in `listen_client_connection`. `MUTEX_LOGIN`
is `loginLock`, held from `FindUser` to `LoginUser`; the critical section of the
queue around `send_server` is `sending`. A link is one TCP connection with a
primary; `link[l]` and `client[c]` say what a read or write of them does (arrives,
is lost, reports a reset, raises SIGPIPE). A client that closes with unread pushes
resets the connection: then the acknowledgement of its login fails, and the thread
returns with its session taken (`stranded`), or `read()` fails once before it
returns 0. `NoLogin` is a `login_user` that gets no LOGIN. The listener reads a spot
(`PickSpot`) and writes to the socket it found there (`WriteSpot`) in two steps,
because it takes no mutex. `Push` is `send_message` of `server.c`: it pushes to
whoever has a session in the primary's table, which this front end has announced,
or one that had its port before (`Earlier`). `ConnectToLeader` is the search, which
may never succeed.

**Delivery.** `pc[t]` and `todo[t]` are the place of a thread and what it still has
to pass to `send_message`. `LockReceiver`, `WriteFE` and `Keep` are
`send_message` with its two mutexes; the other actions are the branches of
`handle_connection_fe`, `follow_user` and `handle_replication`. A notification
on the heap has no owner; one on the stack has the thread that made it. What
`handle_replication` does with a FOLLOW that has come round the ring is `Agreed`
with data 0 and `GoesOn` with data 1: the primary then enters the follower without
looking at the list and sends the FOLLOW on. It gets data 1 when the last-hop test
of the server before it (`server.c:637`) has read another scan's `next_index`
(`Replication`, `raced`). At the end of the front end, `read()` returns 0 (`Replay`)
or, if it left pushes unread, fails once (`ReadFails`).

**Replication.** `known`, `sessions`, `followers` are the copies of the table; a
thread of `Thread` is the front end's thread of the primary (`fe`), the keepalive
thread that runs `send_initial_replication` (`join`), or a handler of
`handle_connection`. `Begin`, `ScanAdvance`, `Write`, `WriteFails` are
`send_replication`: where it goes is decided by the scan's connection, whether
it is the last hop by `next_index` at the time of the write (`KeepReplicating`).
`net` is what was written and not yet read; a handler takes any of it, for each
has its own connection. `ReadCount` and `WriteCount` are the two halves of
`sessions_number++` and `--`, which no mutex covers on a replica. `walk` is the
place of `send_initial_replication` in the table, which changes meanwhile. The
elections are left to `RingElection`: `Primary` is a constant.

**UserTable.** A node is allocated and filled (`InsertNode`) before the table points
to it (`InsertHead`); a cell likewise (`AppendCreate`, `AppendLink`). Insertion is
under `MUTEX_LOGIN`, appending under the user's mutex. The readers are a search
(`FindStart`, `FindOn`, a step per node) and a save (`SaveStart`, `SaveBucket`,
`SaveUser`), which take no lock. `Load` is a turn of the loop of `read_savefile`
over the file of a save: `Piece` and `Past` are `fgets`, which takes what its buffer
holds of a line and leaves the rest to the next call. Every loop over a chain or a
list is `Walk` of `ChainedList`, or `First` when it searches. `Address` is
`hash_address` with C's signed remainder, on character codes. `Revert`, `Push`,
`Find` and `Freed` of `ChainedList` are compared with sequences in every reachable
heap (`ListsWork`).

**Client.** `pc.main` runs from the check of the handle to `UI_end`; `Say` makes
a message, `AddSee` and `AddLink` put it into the list, at one access to the
list's start each. `socket` is how the other end left the connection and decides
what the next call does: after a close the first write is lost, then `read` or
`write` fails, then a write raises SIGPIPE. `Layout` is the loop of
`update_timeline`: the rows given to messages of 5 and of 3 lines, from the top,
while more than five lines are left.

Operators commented `Fault` stand next to the one they would replace. No
behaviour specification uses them: each shows, for one property, a plausible
slip of the code that the property catches (`mutants` in `PROJECT.json`).

## 3. Runs

`tlc -config <run>.cfg <module>` from this directory; the module is the one
`PROJECT.json` names.

| Run | Properties | What it shows |
|---|---|---|
| `ring_boot` | TypeOK, BootSafety, ImplementsLeadership, BootsGetThrough | 3 servers boot in any interleaving, any one may be killed at any step: until a process ends at most one leads, a server that accepts connections knows it, and the ring refines `Leadership`; a booting server gets through or ends, unless it waits in a ring of servers that boot at once. |
| `ring_failover` | AnnouncedIsPrimary, NamedIsPrimary, HighestWins, PrimaryWatchesNobody, VotersWatched, ElectionEnds, SomeoneLeads | 3 servers in the steady state, two killed at any step, others may follow by their own `exit()`: no announcement and no `primary_idx` ever names a running server that does not lead; and until two scans overlap the largest index wins, alone, its old watch is gone, the tokens die out and a dead primary is replaced. |
| `felink` | NeverTurnedAway, FrontEndServed | the front end searches while 3 servers elect: no server that does not lead ever gets its connection, and it is served again and again, with the exceptions the code makes (section 6, 2, 6 and 9). |
| `felink_failover` | FrontEndReconnects (violated) | section 6, 2. |
| `fe_sessions` | TypeOK, SessionTable, PushFindsUser, PushesInOrder | 3 connections of one user, two sessions allowed, two pushes to this user or to one of an earlier front end: the table stays consistent, also when a client resets the connection before its acknowledgement; `hash_find` in the listener returns NULL for the other user only; and a client gets its user's pushes in order, none twice, although spots are freed and taken again meanwhile. |
| `fe_messages` | MessagesInOrder | 2 users, 2 messages each, one death: what the primaries received of a client is in order and without repetition; without deaths, LOGIN first and no gap. |
| `fe_live` | EveryMessageServed, Reconnects | 1 client, two messages, one push, one death: what a client wrote arrives even if it closes or resets at once; after a death keeper, flag and listener are on one live link again, or the process has ended, the search goes on, or the listener sleeps (section 6, 12). |
| `delivery` | TypeOK, MessagesOnceInOrder, FollowersOnce | 2 users, 7 notifications, 1 answering thread, 1 replay, a FOLLOW that may go round the ring twice: whenever the front end's thread rests, what was sent to a user is what was pushed followed by what is pending, in order; nobody follows himself, and nobody follows or receives twice unless `handle_replication` has entered the follower again. |
| `delivery_live` | OnlyCrossingBlocks | 6 notifications: every notification is handled to its end and every answer delivered or kept; the only deadlock is a login and an answer that take the two mutexes in opposite orders. |
| `replication` | TypeOK, CopiesAgree, JoinerCatchesUp, FollowAnswered, AnsweredMeansReplicated, TargetOnItsWay | 3 servers, 2 users, 3 requests, one follower killed and one started again: when nothing is on its way the copies agree, unless one of the named things happened; a joiner has every user and follower; an answered FOLLOW is on every server that was there, and every FOLLOW is answered; NULL is only dereferenced when a FOLLOW overtakes a LOGIN. |
| `usertable` | TypeOK, FindsWhatIsThere, SavedIsReadBack, ListsWork, AddressInTable, ImplementsUserMap | 2 threads log in 3 users (two in one bucket) and add 3 followers, with a search or a save at any time: the table refines `UserMap`, the readers see what was there, what was saved is read back up to the first list that is longer than the buffer, the lists are sequences, every name of 7-bit characters has a bucket. |
| `client` | TypeOK, MessagesKept, TimelineShowsNewest, EveryMessageShown | 3 keys, 2 notifications, a connection that ends at any call: no message is lost, doubled or overtaken, the timeline shows the newest within its lines and catches up again and again. |

All runs say `CHECK_DEADLOCK FALSE`: the bounds on boots, kills, clients,
messages and keys let every model come to rest, and programs end. A deadlock of
the code is looked for by liveness properties instead.

## 4. Fairness, bounds and other assumptions

*Fairness.* Every thread that can take a step takes one: weak fairness per
thread (`Fairness` in `ServerRing`, `FrontEnd`, `Delivery`, `Client`; in
`FELinkSpec` the keeper and each connection it has open, on top of the servers').
The code gives no more than that: its threads are pthreads that block only in
`read()`, at a mutex or in `sleep()`. Nothing obliges a server to start or to
end, a client to write or to close, a user to press a key, a primary to push, or
the search of `connect_to_leader` to succeed: in `FrontEnd` nothing obliges
`ConnectToLeader`, and `Reconnects` excepts a search that goes on.
`Replication` and `UserTable` are checked for safety only.

*Bounds.* `MaxBoots`, `MaxKills`, `MaxMessages`, `MaxPushes`, `MaxDeaths`,
`MaxEvents`, `MaxReplays`, `MaxJoins`, `MaxFollows` and `MaxKeys` cap what the
environment does, never what a thread does; `MaxRounds` caps how often a FOLLOW
comes round with data 1, one time being enough to enter a follower twice. `Visitor`
and `Earlier` are the users that log in and those an earlier front end announced:
one of each, as users do not share anything. `NameRoom` and `ListRoom` are the
buffers of `read_savefile`, 1 name each: the shortest that a list of two does not
fit. `fe_live` has one client, because two threads of clients only meet at the table
and the queue, which `fe_sessions` and `fe_messages` have with three and two. `Pool`
caps the threads of a process; a full pool delays a message, as a busy machine
would. `Link` needs no cap beyond `2 * MaxDeaths + 1`: each death makes the keeper
connect once, and once more when the listener's late assignment undoes the first.
Three servers are what an election needs, a winner, a loser and a dead primary; two
deaths kill the winner of one election and start another. Three connections of a
user exceed its two sessions by one, so that each of the branches of `login_user` is
taken. Three requests are two logins and a FOLLOW, or a login, a logout and a login:
the shortest histories in which one notification can overtake another to some
effect. Three names, two of them in the same bucket, make every shape of a chain
that `hash_insert` distinguishes; three cells are the shortest list with a cell that
is neither first nor last. In `client`, `LINES = 18` leaves room for one large
message and one small one and not for two large ones. `AddressInTable` looks at all
names of up to 4 characters out of `@`, `a`, -61 and the ends of 7 bits and of a
signed `char`.

*Ring.* The steady state of `RingElection` is the one that servers reach when
they start one after the other (server 0 leads, server `i` found `i - 1`).
`Resets` says whether a process may end with unread data in a socket, so that
its peer's `read()` fails instead of returning 0; `server_ring.c:217-230` then
ends the peer too. It is TRUE in all runs. With it a second server may end after
one kill, which is why `SomeoneLeads` and `PrimaryWatchesNobody` count the ended
servers and not the kills.

`raced` is an exception made for a data race of the code: two threads of a
process that scan at once share `next_index`, and then the algorithm's properties
fail (section 6, 6). `AnnouncedIsPrimary` and `NamedIsPrimary` hold with the race.

*Replication.* `spoiled` remembers what the protocol does not handle: two scans or
two counts of one process met (`raced`), a notification overtook another
(`overtaken`), a server joined where the primary's scans do not find it (`missed`),
a server was stopped (`killed`), or ended by itself (`died`). Each property names
what it is excused by, and no more. `Ending` makes a behaviour stop once `raced`,
`missed` or `died` is in `spoiled`, and `EndingJoined` once `overtaken` is and a
server has joined; all other behaviours go on, so that `overtaken` is explored
without joiners and joiners without it. `Primary = 0` and users in the order of the
hash table are no restriction. A join happens once, and `send_initial_replication`
runs once.

*Delivery.* Liveness is asked without replays, as it is a matter of the two
mutexes only. `again[r]` counts the rounds of a FOLLOW. `FollowersOnce` is excused
by it for that follower of that list, and `MessagesOnceInOrder` for the messages to
that follower, which may then come twice, but in order and none missing.

*UserTable.* Writes become visible in program order, as on x86; the C code has no
barriers. The `hash_find` inside `hash_insert` always misses, because
`login_user` has looked under the same lock, and is left out. One reader
per behaviour: readers change nothing that another thread sees.

*SIGPIPE.* The front end and the client leave it at its default action, so a
second write to a closed connection ends them. A server passes an uninitialized
`struct sigaction` to `sigaction` (`server.c:936-939`), so its second write
either fails with EPIPE or ends the process; `Delivery`, `Replication` and
`Resets` allow both.

*Uninitialized values.* A process that booted as the primary never set
`keepalive_tid`; cancelling it (`server.c:672`) may end the process or do
nothing, and `ElectionBegin` allows both (`VotersWatched` says it does not
happen). The client's `can_login` is never set when `read()` returns 0
(`client.c:145`); `MayLogin` allows both answers.

## 5. Proofs

Checked by TLAPS for all values of the constants, from the named assumptions of
the modules: `RingAssumption` (at least two ports, a pool without `main`),
`PoolAssumption` (that pool is not empty), `FrontEndAssumption`,
`DeliveryAssumption`, `ReplicationAssumption`, `ChainedListAssumption`,
`SavefileAssumption`, `UserTableAssumption`, `ClientAssumption`. These say that
bounds are natural numbers, that there is a session, a thread, a server to start
with, that the hash table has a bucket and the buffers of `read_savefile` hold a
name, that the users in the table have names of characters from 1 to 127
(`AddressInTable` is about other names too), and that the values which stand for
"none" are nothing else.

A proof module holds the theorems of one component. It begins with the inductive
invariants ("Why"), or, in `ReplicationProofs`, has those of a theorem where its
lemmas begin. TLC checked each of them on a small instance before it was proved;
the runs check what follows from them.

**`ServerRingProofs`**
* `TypeCorrect`: `Spec => []TypeOK`. Besides the types it says that no thread ever
  uses an index outside the ring.
* `BootIsSafe`: `Spec => []BootSafety`. Two servers that boot at once must not both
  conclude that they are alone, although both scan servers that are still
  starting. The inductive invariant is `BootInv`: a server has *passed* the ones its
  scan was refused by; a server that refuses does not listen yet, hence has not
  scanned and has passed nobody; so no two servers pass each other
  (`~(Passed(s, t) /\ Passed(t, s))`). A primary has passed all the others, so there
  are not two of them. `MainInv` and `WatchInv` add what the scan's local state
  means and that, before the first death, every thread besides main watches a
  primary, which is why none of them starts an election.
* `RingImplementsLeadership`: until a process ends, each step of the ring is a
  `Lead`, a `Join` or a stutter of `Leadership`. It uses `BootInv` and that no
  `exit()` is reached before the first death.

**`RingElectionProofs`**, for the ring in its steady state. All of them have the
form `boots = 0 => ...`: a process that starts again under an old index gives up
the office of the one before it, and the runs of elections have none
(`MaxBoots = 0`); deaths are not bounded.
* `AnnouncedCorrect`, `NamedCorrect`, `VotersAreWatched`, with or without the race.
  The invariant is `OfficeInv`: `is_primary` is only given up by ending, so
  `LedOrEnded` only grows, and whatever names a primary (an ELECTED, a
  `primary_idx`, a thread about to settle as one) names a member of it. While the
  first primary lives nothing else happens: everybody else watches it
  (`AllWatch`), and it alone has no `keepalive_tid`.
* `HighestIsElected`, until two scans overlap. The invariant is `WalkInv`: a scan
  has passed only servers that have ended, so a candidate that was passed on
  upwards has passed the top of the ring; a handler that holds a candidate which is
  not above its own server knows that nobody above it runs. That is all a server
  needs to know that takes office because its own index has come back.
* `PrimaryIsFree`, until a second server ends. The invariant is `TopInv`: only the
  topmost server can be elected, no announcement but its own reaches it, and it
  never starts another keepalive than the one it cancels.

**`FrontEndLinkProofs`**
* `NobodyTurnsAway`: what a running server answers is in `LedOrEnded`, which only
  grows; the front end writes only to servers it was pointed at so (`LinkInv`).

**`FrontEndProofs`**
* `FrontEndTypes`: `Spec => []TypeOK`.
* `SessionsAgree`: `Spec => []SessionTable`. The count of a user is the number of
  its occupied spots, whoever was let in has exactly one spot, and nobody else has
  one; whose acknowledgement failed keeps its spot and its share of the count.
  `LoginInv` strengthens it: between `hash_find` and the insertion, `MUTEX_LOGIN`
  keeps the result true, and a user who is not in the table has no session. The loop
  of `get_free_socket_spot`, which looks at one element beyond the array, is safe
  for this reason: with fewer sessions than spots, a spot is free.
* `PushesFindUsers`: the only user that the listener does not find is one that an
  earlier front end announced. From `KnownInv`: whose LOGIN this front end sent, or
  whose message is in its queue, was inserted before; and `PushKnown`: what the
  listener can read is for one of them or for a user in `Earlier`.
* `PushesKeepOrder`, from `PushInv`: identifiers grow along a link, from one link to
  the next, and from what the clients got, over what is being passed on, to what
  can still be read (`InboxInv`, `GotInv`). None arrives twice because a connection
  is admitted once and its spot never changes: who has the message that is being
  passed on does not sit at a spot the listener has still to look at (`PassInv`).
* `MessagesKeepOrder`, from `QueueInv`: numbers grow from what the primaries received
  to the end of the queue (`OrderInv`), and as long as no primary has died, received
  and queued together are all that were taken from the socket, with the LOGIN
  first (`NoGapInv`).

**`DeliveryProofs`**
* `DeliveryTypes`: `Spec => []TypeOK`.
* `NobodyFollowsTwice`, with any number of rounds of the ring: whoever is in a list
  twice was entered by `GoesOn`. From `FollowInv`: a FOLLOW on its way is not of a user
  and himself, and its follower is in the list already (`RingInv`).
* `OnceAndInOrder`: `Spec => []MessagesOnceInOrder`, from `MessageInv`: what a user
  got comes before what waits for it, and this before what the front end's thread
  has still to send; together they are what was addressed to it. The delicate case
  is the flush of a login, in which what waits is being sent itself (`Flushing`);
  `SessionInv` says that the sessions are those the front end has announced, up to
  the command in hand, so that who was found offline is still offline when the
  message is kept. `SendInv` is for the follower that is entered again while
  `receive_message` walks the list: the message in hand is the newest, and was to
  reach him anyway (`Newest`). After the end of the front end's connection the last
  command is handled again, and `MessageInv` is only claimed before it.

**`ReplicationProofs`**
* `ReplicationTypes`: `TypeOK` with `SoundInv`: connections lead to servers that run
  or are known to be gone, and no thread outlives its process.
* `AnswerComesLast`: `Spec => []AnsweredMeansReplicated`, with deaths and joins, until
  scans of a process overlap. `Hops(s)` counts from the primary. `ScanInv`: a scan
  never passes a server that was there all along. `RoundInv`: wherever a FOLLOW is,
  the servers before that place have the follower. It is answered where all are
  before it.
* `NobodyWaits`: `Spec => []FollowAnswered`, from `LastHop` (only what arrives at the
  primary is marked as the last hop) and `AnswerInv` (a FOLLOW is on its way until it
  is answered).
* `TargetIsAhead`: `Spec => []TargetOnItsWay`, from `TargetInv`: at every server a LOGIN
  has still to reach, it is before whatever was asked for after it.
* `EveryCopyAgrees`: `Spec => []CopiesAgree`. While nothing meets, overtakes, ends
  or joins, the primary's table is a follower's with the notifications applied that
  are `Due` to it: on their way (`Pending`) or read and still being counted
  (`Counting`). `CopyInv` says so part by part (`Copied`): a user of the primary is
  known or its LOGIN is pending, a LOGOUT comes after it (`Learns`); sessions differ
  by the LOGINs less the LOGOUTs that are due (`Balance`, over the cardinalities of
  the library's `FiniteSetTheorems`); a list of followers is a beginning of the
  primary's, and who is missing is pending, in this order (`InOrder`, `Completes`).
  A notification is in one place at a time (`CarriedOnce`), and reading, writing and
  scanning only move it (`PendingRead`, `PendingWritten`, `PendingScanned`).
  `spoiled` says `overtaken` when the older of two notifications is read. From the
  moment the newer one was, the copy may be wrong, so sessions and followers are
  only claimed while the follower is `InStep`: nothing older than what it has read
  is still on its way to it.
* `JoinerIsCaughtUp`: `Spec => []JoinerCatchesUp`, whoever else is stopped, from
  `JoinInv`. What a table or a notification says, the primary's table says
  (`Sourced`); and whatever the primary's table says, a server that joined has,
  or it is `Bound` for it (written to it, or with a thread of the primary whose
  scan has not passed it), or the walk of `send_initial_replication` has `Yet` to
  come to it. This needs that the joiner is the first running server after the
  primary (`Nearest`), so that no scan stops before it, and that followers are only
  appended, so that the walk passes nobody by.

**`UserTableProofs`**
* The lists first. `Falls` says that the next pointers of a heap go down along some
  rank: no circle. From it follows, by the least rank at which it fails
  (`ChainInduction`), what is true of every list: that the recursive functions `Walk`
  and `First` are there, and what they return (`WalkDoes`, `FirstDoes`), that a list
  meets no cell twice, and what an insertion at the start or a link at the end
  does to all lists of the heap (`ChainsGrow`, `WalkLink`).
* `Types`: `Spec => []TypeOK`, with the invariant `UserTableInv`: whoever holds
  `MUTEX_LOGIN` has a user that is not in the table, and then a node that only it
  knows and that points to the bucket as it still is (`InsertInv`); a node is in the
  bucket of its key, the only one of its key (`ChainInv`); whoever holds a
  user's mutex has a cell that is in no list, and lists share no cell
  (`AppendInv`, `ListInv`).
* `TableIsAMap`: `Spec => ImplementsUserMap`. `InsertHead` is an `Insert` of `UserMap`,
  `AppendLink` an `Add`, and every other step leaves the map as it is.
* `FindsWhoIsThere`, from `FindInv`: a search for a user who was there when it began
  always has that user's node before it, as nodes are only put before the others.
* `SavesAreReadBack`: `Spec => []SavedIsReadBack`, from `SaveInv`: the users written so
  far are those not `Ahead` of the save, each once, with a prefix of its list that
  begins with what it was at the start. `LoadInv` is the other half: `read_savefile`
  has read the first j pairs of lines as they were written (`Kept`), or the list of
  the next one is longer than its buffer. So all is read back when every list
  fits, and otherwise what comes before the first that does not.
* `OperationsOnLists`: `Spec => []ListsWork`. For `chained_list_revert` it is the
  invariant of its loop: after i rounds the first i cells point back and the others
  are as they were (`Turned`).
* `NamesAreInTable`: `Spec => []AddressInTable`: names of 7-bit characters have a
  bucket, the address of any other name is less than `HASH_SIZE` away from 0. The
  lemma `AddressOfName` has the first half for names of every length, `MaxName` or
  not.

**`ClientProofs`**
* `ClientTypes`: `Spec => []TypeOK`; the index of the line typed stays in the buffer.
* `NothingGetsLost`: `Spec => []MessagesKept`, from `SayInv`: a thread that is about to
  link its message holds the mutex and has seen the list as it is.
* `NewestAreDrawn`: `Spec => []TimelineShowsNewest`, from `DrawnInv`: what is on the
  screen is the `Layout` of the list that the timeline remembers. The rest is about
  `Layout` alone, for a screen of any height and any list: the lines left fall from
  message to message (`LinesLeftDoes`), what is drawn is a beginning of the list
  (`FirstAreShown`), and a message is left out only for want of lines (`LayoutShows`).

What a recursive function computes is proved without the library's induction
theorems, which take an operator: the set of arguments at which it fails has a least
element (`LeastNatural`, from the well-foundedness of the natural numbers), and
that is led to a contradiction. That the function exists is proved the same way.

Every safety invariant of the runs, and both refinements, are stated by a theorem.
Model-checked only is liveness, as the provers have neither ENABLED nor fairness.

## 6. What the code does not keep

The second has a run. The others are stated in the modules without a run of
their own; each was violated by TLC with the instance given
(`CHECK_DEADLOCK FALSE` throughout; "election instance" is `SteadySpec`,
N = 3, 3 slots, MaxBoots = 0, MaxKills = 1, Resets = FALSE).

1. *Servers that boot together wait for each other* (`ServerRing!EveryBootAccepts`;
   `FairSpec`, N = 3, 2 slots, MaxBoots = 3, MaxKills = 0). Each is found by the
   other's scan, because it listens, but answers LEADER_QUESTION only in its
   accept loop, which it reaches after its own question was answered.
   `BootsGetThrough` says that nothing else keeps a booting server.
2. *The front end is sent to the dead primary* (`felink_failover`;
   `RingElection!EveryoneAgrees` on the election instance says why). The branch
   that wins by its own token sets `is_primary` only; the server goes on
   answering LEADER_QUESTION with the old index.
3. *A failed send is not retried* (`FrontEnd!FailedSendIsRetried`; one client,
   2 messages, one death): the second write after the primary's death raises
   SIGPIPE and ends the front end; the first is lost.
4. *Two mutexes in both orders* (`Delivery!PendingFlushed`; `FairSpec`,
   MaxEvents = 6, MaxReplays = 0): a login holds the pending mutex and waits for
   the user's, the answer of a FOLLOW the other way round.
5. `Replication!ReplicasSurvive` (N = 3, 2 threads, 3 requests, no joins and kills).
   A FOLLOW that overtakes its target's LOGIN dereferences NULL on a replica;
   with `FirstUp = {0}` a primary alone ends at its first LOGIN, as
   `send_replication` writes to a socket that is not connected and exits.
6. `RingElection!AloneMeansUnconnected` (election instance): one
   thread's reset of `next_index` makes another, connected thread of the process
   conclude that it is alone, and lead.
7. `RingElection!LatecomersLearn` (election instance): the primary answers a
   late ELECTION on a connection its sender has closed (`server_ring.c:285`); the
   sender stays in the election.
8. *The only token is lost*: `SomeoneLeads` without its exception for a second death
   fails with MaxKills = 2; the others wait in the election for ever.
9. `FrontEndLink!SearchGoesOn` (instance of `felink`): the server that was asked
   ends first; the scan is repeated on a socket that is still connected, every
   `connect` fails, and with the index -5 the loop has no end.
10. `FrontEnd!FailedPushIsLogged` (one client, MaxSessions = 1, MaxPushes = 2, no
    messages, no deaths): two pushes to a client that has closed end the front end.
11. `FrontEnd!AnswerComesFirst` (2 clients of one user, MaxSessions = 2,
    MaxPushes = 1): a push overtakes the answer to a login, and the client takes
    the command field of the push for a refusal.
12. `FrontEnd!EveryPushIsRead` (`FairSpec`, one client, MaxPushes = 1,
    MaxDeaths = 1): the listener's late `IS_CONNECTED_TO_SERVER = FALSE` undoes
    the keeper's TRUE; the listener sleeps while the new primary pushes. This is the
    exception `Asleep` of `Reconnects`.
13. `Delivery!PendingMeansOffline` (MaxEvents = 7, MaxReplays = 0): an answer that
    found its user offline is kept after that user's login has emptied the list.
14. `Delivery!PendingIntact` (MaxEvents = 6, MaxReplays = 0): a pointer to a
    notification on the stack of `follow_user` or `handle_replication` stays in a
    pending list.
15. `Delivery!ClosedMeansDone` (MaxEvents = 3, MaxReplays = 1): `read()` returns 0
    when the front end has closed, and the last notification is handled again.
16. `Client!ClosingIsShown` (LINES = 18, one key, one push): the reader adds
    the message that the server closed the connection and raises SIGINT, which ends
    the program before the timeline has drawn it.

What properties name as an exception, because the code is so:

* A client whose acknowledgement cannot be written, because a push came before it
  and the client has reset the connection, keeps its session and its spot for ever
  (`front_end.c:476-481`; `stranded` in `SessionTable`). A later push to the user
  raises SIGPIPE on it.
* A front end that starts again while the primary has users with sessions is
  pushed what is for them, does not find them, and dereferences NULL
  (`front_end.c:211-212`; `Earlier` in `PushFindsUser`).
* A FOLLOW that comes back to the primary with data 1 is appended to a list the
  follower is in (`server.c:529-546`; `again` in `FollowersOnce`): he gets every
  message of that user twice.
* A user with more than 80 followers does not fit the buffer of `read_savefile`, as
  its comment says (`savefile.c:31`): the rest of the list is read as names of users
  and the lines that follow are taken for each other (`Fits` in `SavedIsReadBack`).
* Characters above 127 are negative where `char` is signed, and the address of
  `hash_address` may then be before the table (`AddressInTable`); the client does
  not keep them out (`client.c:50`).

Read in the code and not a property of a model: a client that logs in before the
first primary was found makes `send_server` dereference a NULL `ring`
(`front_end.c:558`; the model ends with "no ring"); the end of a front end leaves
its closed descriptor in `FE_SOCKFDS` (`server.c:868`; "shut" in `Delivery`), where
later writes fail or reach another connection; `handle_connection` handles an
uninitialised notification when the connection closes before anything was written
(`server.c:381-388`); a handle of 20 characters, which the client accepts, ends one
byte behind `user->username`; a backspace on an empty line writes `buffer[-1]`
(`ui.c:110`); no timeout is set on any socket, so the branches for a keepalive that
timed out are never taken; `chained_list_revert` is declared under another name.

## 7. Not modelled

* *Logger, sockets, users*: printing, `socket()` with an `exit()`, and the
  allocation of an empty user, which is the initial state of users in the models.
* *What curses draws*: borders, titles, colours, `wrefresh`, and two threads that
  draw at once without `SYNC_MUTEX` (`clear_timeline`, `getch`, `UI_end`). The
  rows given to messages and the mutexes are modelled. Printing of lists and tables.
* *Bytes*: texts, names (except in `Address`), timestamps; host lookup and socket
  options of the client are one action that may fail.
* *Failures for lack of resources*: a `listen` that fails ends the process
  (`server_ring.c:104-111`), which is a `Kill` at that step; memory and threads are
  taken to be available.
* *The handler's first `read()` returning 0* (`server.c:381-388`): the connection of a
  process that ends before it writes starts no handler in `ServerRing` and
  `Replication`, where the code would handle what is on its stack.
* *Dead code*: `hash_free`, the replication of SEND, and pending notifications
  that a replica is sent with command 0, which `handle_replication` ignores.
  `read_savefile` has no caller either; it is modelled as the reference for
  `save_savefile`.
* In `FrontEnd`, `connect_to_leader` is one step, which may never happen;
  `FrontEndLink` has its steps. A link's death is seen by both connections with that
  primary at once. `cleanup` only ends the process: the signal handlers are a single
  death.
* In `Delivery` a FOLLOW that is sent on comes back at any time, or never, with
  data 0 or 1, at most `MaxRounds` times with 1; `Replication` has what happens on
  the way. The increment of `GLOBAL_NOTIFICATION_ID` by two threads at once is left
  out (ids are not used for anything), and the list of a user's past messages,
  which is written and never read. `NUMBER_OF_FES` is 1, so `MUTEX_LOGIN` and
  `MUTEX_FOLLOW` of the server are only taken by one thread and are left out there.
* In `Replication` the primary stays: a change of the primary under replicated
  notifications would need `RingElection` and `Replication` in one module, whose
  states TLC cannot exhaust (the run `replication` alone has 0.7 million, with a
  fixed primary).

## 8. Plan

Done: all components with state are modelled and checked, and every safety
property of the runs is proved. What would be next is beyond the tools: the
liveness properties, and a change of the primary while notifications are
replicated (section 7).

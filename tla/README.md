# tinyredis in TLA+

Specifications of tinyredis, a Redis-like server in Go (`src/`), with the model
checking runs and the machine-checked proofs that go with them. They cover the
in-memory database with its locks, its map, expiry and commands, the data
structures behind it, the RESP parser, the server, the replication and joining of
cluster nodes, and the proxy.

## The system

| Part | State | Operations | Interacts with |
|---|---|---|---|
| key locks (`dblock.go`) | an array of `sync.RWMutex` | Lock, RLock, LockMulti, RLockMulti and the unlocks | every handler |
| concurrent map (`concurrentmap.go`) | shards (list or tree), a counter | Set, Get, Delete, SetIfExist, SetIfNotExist, Len, Keys | handlers, expiry |
| expiry (`db.go`) | per shard a heap and a table of deadlines | SetTTL, RemoveTTL, ExpireAt, CheckTTL, the background cleanup | map, key locks |
| string and key commands (`string.go`, `keys.go`) | none of their own | SET, GET, INCR, MSET, RENAME, EXPIRE, ... | locks, map, expiry |
| set commands (`set.go`, `set_struct.go`) | sets in the map | SADD, SREM, SPOP, SMOVE, SUNION, SINTER, SDIFF, the STORE forms, ... | locks, map, expiry |
| list commands (`list.go`, `list_struct.go`) | doubly linked lists in the map | pushes, pops, LSET, LREM, LTRIM, LMOVE, LPOS, ... | locks, map, expiry |
| hash commands (`hash.go`, `hash_struct.go`) | a table and a size of its own | HSET, HINCRBY, HDEL, HRANDFIELD, ... | locks, map, expiry |
| sorted set commands (`zset.go`, `zset_struct.go`) | a table and a skip list with spans | ZADD, ZREM, ZRANK, ZRANGE, ... | locks, map, expiry |
| RESP (`pkg/RESP`) | the parser's state for a stream | parse, ToBytes | server, cluster, proxy |
| server (`pkg/server`) | listener, connections and their goroutines | accept, Handle, shutdown, routing of writes | RESP, memdb or cluster |
| cluster (`pkg/cluster`) | a Raft node, its state machine, a cached leader | ApplyCommand, ReadCommand, Apply, Snapshot, Restore, join, handleJoin | server, memdb |
| proxy (`pkg/proxy`) | the current leader, connections to clients and nodes | discover, dial, copy in both directions | cluster |

One goroutine per connection executes commands one after the other. A handler calls
`CheckTTL` for its keys (which may delete them under their locks), then takes the
locks of its keys, reads and writes the map and the index of deadlines, and
releases them. A background goroutine removes expired keys from the index, shard
by shard, and deletes them from the map without any key lock. In a cluster the
commands that `IsWriteCommand` names go through the log of Raft and are executed by
every node; the others are executed by the leader. A node that is started for the
first time asks other nodes over HTTP to be let in. The proxy looks for the node
that leads and copies bytes between it and a client.

What is hard here: sections of handlers interleave with each other, with the check
that precedes them and with the background deletion; commands on several keys take
several locks; a shard changes its representation under its users; handlers panic or
spin with locks taken; pointers, spans and places in a heap have to be corrected
together; a stream breaks anywhere; goroutines outlive the connection they were made
for; nodes restart, lag and lose leadership with calls waiting. The field `hazards` of
`PROJECT.json` lists these with their lines and the properties that watch them.

## Modules

| Module | Models | Abstract specification |
|---|---|---|
| `Locks` | `dblock.go`, with `sync.RWMutex` as external code | `KeyLocks`: a set of keys is locked in one step |
| `MemDb`, `Values` | `string.go`, `keys.go`, expiry in `db.go` | `KVStore`: every command in one step (mapping in `MemDbKVStore`) |
| `ConcurrentMap` | `concurrentmap.go` | `AtomicMap`: every operation in one step |
| `TTLIndex` | the heap of a shard in `db.go`, with `container/heap` as external code | `TTLMap`: a map from keys to deadlines |
| `SetOps`, `SetDb` | `set.go`, `set_struct.go` | `AtomicSets`: every command in one step, a STORE in two |
| `List` | `list_struct.go`, node by node, and the loops of LPOS | `SeqList`: a sequence |
| `SkipList`, `ZSet` | `zset_struct.go`, level by level | the sorted order of the members (in the properties) |
| `ListOps`, `HashOps`, `ZSetOps`, `Collections`, `CollectionDb` | `list.go`, `hash.go`, `hash_struct.go`, `zset.go` | `AtomicCollections`: every command in one step, keys past their deadline possibly gone |
| `Text` | `PatternMatch` of `util.go`, the cut of GETRANGE | what the comment says of a pattern (`Means`) |
| `Parser` | `pkg/RESP` | the frames that were sent |
| `Sessions` | `server.go`, `handler.go`, the end of `parse` | |
| `Cluster` | replication in `node.go`, `write.go`, with Raft as external code | the databases the log leads to (`hist`) |
| `Join` | joining in `node.go` | |
| `Proxy` | `proxy.go` | |

The modules build on each other as the code does. `MemDb`, `SetDb` and `CollectionDb` use
the locks through `KeyLocks`, which `Locks` is shown to implement; the map as a function
whose accesses are atomic, which `ConcurrentMap` is shown to provide (`AtomicMap`); the
deadlines as a map, which `TTLIndex` is shown to be (`TTLMap`); lists as sequences,
which `List` is shown to be (`SeqList`). Sorted sets in `ZSetOps` are the skip lists of
`SkipList` themselves. `Cluster` takes the database as a set of states and a relation
`Runs`, which gives a command a set of outcomes, as the atomic specifications do.
`Sessions` takes the frames that `Parser` is shown to deliver. The `MC*` modules hold
commands and other constants for TLC. `LocksProofs`, `MemDbProofs`, `MapLemmas` with `MapProofs`,
`SetDbProofs` with `SetDbRefinement`, `ClusterProofs` and `ServicesProofs` hold the proofs.
Definitions whose comment begins with "Wrong:" are faulty variants of a definition
that follows them. No specification uses them; put in its place they make a property fail.

### Locks

`poses[p]` is the rest of the loop of `p`'s call over `sortedLockPoses`; each
iteration is one `Lock` or `RLock` of a mutex, a `Lock` being two steps (announce,
then enter when the readers have left) with new readers queueing behind an
announced writer. A call is made only by a goroutine that holds no key lock:
no handler nests calls.

### MemDb

A step is one access to the map, to the index or to the clock. `pc[c]` goes
through `check` (TTLManager.CheckTTL), `expired` (the deletion by MemDb.CheckTTL),
`body` (the handler takes its locks and makes its first access), `run` (further
accesses, kept in `todo`), `done`. The last access releases the locks. The
background goroutine has its own program counter `cpc`, works with the clock it
read once (`cnow`) and deletes what it collected (`doomed`) key by key. `volatile` is
a history variable: the keys for which a command that sets a deadline was sent.
Values are told apart as the handlers do: integers (with wrap-around at `MaxInt`),
other text by its length up to `MaxLen`, and collections. Replies to calls with a
wrong number of arguments or malformed numbers, which touch nothing, are left out
here and in the modules below.

### ConcurrentMap

A shard is the sequence of its entries, in list order (head first) or, as a tree, in
key order; the red-black tree itself is a library. Under the write lock the change
of the entries, the atomic change of the counter and the conversion are separate
steps, because `Len` and `Keys` read the counter without a lock.

### SetDb and CollectionDb

What a handler computes from the map is an operator (`SetOps`, `ListOps`, `HashOps`,
`ZSetOps`); where Go iterates over a map or draws at random, every choice is an
outcome. When it accesses the map and with which locks is the state machine. A
collection is changed in place at the step that finds it; putting and deleting it
are later steps. Deadlines are reduced to `due`, the keys whose deadline has passed
and is still in the index; the cleanup takes one such key at a time. A handler that
panics ends its goroutine (`pc[c] = "dead"` in `SetDb`), after the unlocks it has
deferred; HRANDFIELD with a negative count on a table that is empty while its size is not
stays in its loop with the lock (`Spin`). `loose` is a history variable: a SUNIONSTORE has
released the lock of its destination in front of its store. SET and DEL are there to have other types
and deletions. Values of hash fields are blank, a word, or numbers counted in halves,
since HINCRBY refuses floats and HINCRBYFLOAT does not. `miscounted` is a history
variable: the hashes of which a blank field was incremented. Replies keep what was
computed, not its text: WITHSCORES and the spelling of numbers are left out, and an
empty array is not told from a null one.

### List, SkipList and TTLIndex

A list is a record of the functions `Prev`, `Next` and `Val` on its nodes, with `Head1`
and `Tail1` as the sentinels, and `len`. A skip list is a record with the links and
spans of every level (`fwd[i]`, `span[i]`), the table, `length`, `level` and `tail`; the
level of a new node is a parameter. A shard of deadlines has the heap as a sequence of
items, the items with their places, and the table; items come from a pool and return
to it. An operation of the code is an operator that makes its assignments in its
order; an action applies it.

### Text and Parser

`Text` grows a pattern, piece by piece, and a text, and compares `PatternMatch` with the
meaning of the pieces; a slice or index past the end of a string is the outcome
`panic`. `Parser` runs the loop of `parse` on bytes: the streams are what `ToBytes` gives
for two frames of every kind, refused lines among them, cut off anywhere. Lines of a
single LF, on which `readLine` panics, are not sent.

### Sessions

A connection has the goroutine of `Handle`, the one that watches for the signal, and the
parser, which hands over frames through a channel without buffer: it reads on only when
`Handle` has taken the last one. The client sends arrays, other data and lines that
cannot be read, and closes or resets the connection; a command can panic, a write can
fail; a write to a client that does not read waits until the connection is closed.

### Cluster

The log of committed entries, those in flight (`open`), who believes to lead (`claims`,
which may be several), what each node has applied and the index of its snapshot are
those of Raft. `ApplyCommand`, `ReadCommand`, `Apply`, `Snapshot`, `Restore` and `Restart` are the
code's. Calls wait, are answered, refused, or fail with their entry possibly still
committed. `hist[i + 1]` is the set of databases to which the first `i` entries can lead;
`skipped` and `strayed` are the nodes that an empty snapshot made pass over entries, and
those that executed a write missing from `IsWriteCommand`. Deadlines are left out: nodes
judge them by their own clocks.

### Join and Proxy

`Join` follows one node through starts, the loop over its targets with hints, the
cache of the leader's address, and ends. An address is a server, a port (HTTP or Raft) and a
spelling: no scheme, `http://` or `https://`, with or without a slash at the end; addresses with a
path are left out. `normalizeJoinAddr` drops the spelling and `buildJoinURL` does not: the
HTTP server (`node.go:559`) speaks no TLS and answers a POST to `//join`, which is what `host:port/`
becomes, with a redirect that the client follows with a GET, so only plain addresses and `http://` ones
are served (`Serves`). Only the leader accepts; a follower redirects to the Raft
port of the leader, where HTTP gets no answer, and gives no hint. A hint comes only from a leader that
steps down during the request, and names no host. `found` is a history variable: whether the first address
that names the HTTP port of the leader is served, until something goes wrong. `Proxy` has the goroutine of each
client, its connections to nodes with two copying goroutines each, and the shared
`current` leader; a probe or a dial with what follows from its answer is one step.
A byte is a number, so that losses, repetitions and changes of order show.

## Runs

| Run | Module, configuration | Properties | What it shows |
|---|---|---|---|
| `locks` | `MCLocks`, `MCLocks.cfg` | `KeyExclusion`, `NoCircularWait`, `ImplementsKeyLocks`, `EveryCallReturns` | Three goroutines on two keys, or two on three keys that share positions, call LockMulti, RLockMulti, Lock and RLock: no conflicting holders of a key, no circular wait whatever order they name the keys in, every call returns when every holder unlocks, although writers hold new readers back, and the table of RWMutexes implements locking a set of keys in one step. |
| `memdb` | `MCMemDb`, `MCMemDb.cfg` | `SectionsExclusive`, `OnlyVolatileExpire`, `PersistentKeysStay`, `ImplementsKVStore` | Two clients run commands that read and write back, touch two keys, or set, keep, compare, move and remove deadlines, with values of every type, the clock, the lazy check and the background goroutine: no section of a handler overlaps a conflicting one, only keys that had a deadline expire, and every command takes effect as the key-value store allows. |
| `memdb_live` | `MCMemDb`, `MCMemDbLive.cfg` | `EveryCommandAnswered`, `ExpiredKeysGo` | Under fair scheduling of the goroutines and of the cleanup timer every command is answered and a key whose deadline has passed and is not rewritten leaves the map. |
| `memdb_check_race` | `MCMemDb`, `MCMemDbCheckRace.cfg` | `CheckTTLDeletesExpired` | **Violated:** The lazy check removes the deadline and deletes the key in two steps; a value SET in between, with no deadline, is deleted. |
| `map` | `MCConcurrentMap`, `MCConcurrentMap.cfg` | `ShardsSound`, `CountExact`, `KeysComplete`, `ImplementsMap` | Two goroutines use a map whose shards convert between list and tree: shards hold each key once and in the right form, the sizes and the global count are exact, Keys returns every key that is present throughout, and every operation takes effect in one step between call and return, SetIfNotExist with its first look under the read lock included. |
| `sets` | `MCSetDb`, `MCSetDb.cfg` | `LocksReleasedElsewhere`, `EmptySetsOnlyFromSMove`, `StringsKept`, `SetCommandsAtomic` | Two clients run every command on one set with a string as the wrong type, SMOVE while SUNION, SINTER and SDIFF read both sets, the STORE commands with a destination that others write or that is a source, or all this while a deadline passes: commands take effect in one step (STOREs in two) as long as no deadline has passed, only SMOVE leaves an empty set and only a panic of SINTERSTORE a lock, and only SUNIONSTORE, which has released its lock, replaces a string by a set. |
| `sets_inter_leak` | `MCSetDb`, `MCSetDbInterLeak.cfg` | `LocksReleased` | **Violated:** SINTERSTORE of keys that hold no set indexes an empty slice with the read locks held; the panic is recovered by the connection handler and the locks are never released. |
| `parts` | `MCParts`, `MCParts.cfg` | `WellLinked`, `ReadsRight`, `OrderRight`, `SpansNeverNarrow`, `PatternsRight`, `GetRangeRight`, `FramesKept`, `StateFromLog`, `AnswersRight`, `ImplementsSequence`, `ImplementsTTLMap` | The sequential parts and the replicas, each on its own small instance: the linked list and LPOS against sequences, the skip list against sorted order, the heap of deadlines against a map, PatternMatch and GETRANGE against their meaning, the RESP parser on every stream of two frames cut anywhere, and nodes around the replicated log with leader changes, snapshots and restarts. |
| `collections` | `MCCollectionDb`, `MCCollectionDb.cfg` | `NoEmptyCollections`, `HashSizesRight`, `ImplementsAtomicCollections` | Two clients run the commands on lists, hashes and sorted sets, with a string as the wrong type and a deadline that passes: each command takes effect in one step, no empty list or hash is left in the map, and the size of a hash is right unless a blank field was incremented. |
| `zset_ranks` | `ZSet`, `MCZSetRanks.cfg` | `RanksRight` | **Violated:** After a member is removed whose node is lower than the list, the levels above keep their spans, and ZRANK, which adds spans up, is too high for the members behind it. |
| `services` | `MCServices`, `MCServices.cfg` | `RepliesInOrder`, `BytesInOrder`, `JoinFindsLeader`, `JoinEnds`, `SessionsEnd`, `ServerStops`, `Served`, `ProxyStops` | A node that joins a cluster, the server with its connections, and the proxy with its clients, each under the fairness of its goroutines: joining ends, and succeeds exactly if the first spelling of the leader's address among its targets is one the leader serves, replies come in order, sessions and the server end, the proxy finds the leader again and stops, and never passes a byte on twice or out of order. |
| `cluster_restore` | `MCCluster`, `MCClusterRestore.cfg` | `ReplayRestores` | **Violated:** A node takes a snapshot, which is empty, and restarts: Restore does nothing, Raft goes on with the entries after the snapshot, and the data of those before it is missing. |

Where one run covers several sets of commands or several parts, the variable `menu`,
`part` or `crowd` picks one in the initial state, so that they do not multiply the states.

### Bounds

Two clients are enough for every race between two sections; the locks have three
goroutines as well, since a reader can be held back by a writer that waits for another
reader. `Locks` has three keys on two positions, so that different keys share a
position. `MemDb` has a clock of up to 3 values (a deadline is set, reached and
passed), integers from -2 to 1 so that additions wrap around, and one menu
per question: what must interleave to show a problem is in one menu. The map has
thresholds 3 and 1 in place of the code's 8 and 6, so that three keys of one
shard go through both conversions; a fourth key is in the other shard, for Keys. In
`SetDb` and `CollectionDb` one deadline passes (`MaxDue`), which both the lazy check and the
cleanup can meet at any step; `MaxElems` and `MaxNumber` stop pushes and increments when
lists, sizes or numbers are that large. `CollectionDb` uses skip lists of one level, as
levels and spans have a part of their own.

In `parts`: lists of up to 4 elements (both ends, two inner nodes) with arguments up to
one beyond the length; three members on two levels with two scores, so that a node can
lie under a link and scores can tie, and spans up to `MaxSpan`; four keys in a heap, which
gives it three levels; patterns of three pieces against texts of three letters; two
frames per stream; two nodes with two calls of all kinds of commands or three of the plain ones,
and three faults (a snapshot, a restart, a new leader). In `services`: a join with two
servers, lists of targets in which the leader is missing, last, spelled as a URL, or spelled twice with the
usable spelling first or second, and three troubles; one connection with three frames or two with at most one; two
nodes of which two changes make one go, come, lead or step down, and one client that
sends three bytes or two that stay.

`CHECK_DEADLOCK FALSE` appears where the system really may stop: both clients' goroutines
have ended by the panic of SINTER or SINTERSTORE; the parser is at the end of its
stream; the server has stopped; a part is at its bound.

### Fairness

`Locks`: goroutines are scheduled and the section between lock and unlock ends (weak
fairness); the mutex inside an RWMutex hands over to a waiter that has waited long
(starvation mode of `sync.Mutex`), which is strong fairness of `WriterAnnounces`.
`MemDb`: goroutines are scheduled and the timer fires again (weak fairness); a handler
that waits for key locks gets them, which is what `EveryCallReturns` of `Locks` says
and is strong fairness of the steps that take them. `Join`: the loop goes on; requests have
a timeout. `Sessions`: commands end, which holds as long as no lock was kept for ever (see the exceptions
below). `Sessions` and `Proxy`: goroutines are scheduled, timers fire and dials and probes
return, for which they have timeouts (weak fairness of their steps). No client is assumed to send or to
close anything, no node to change, and the clock is not assumed to move.

### Where the code differs from its own words

Four runs are expected to fail; each states what a comment in the code says:

* `memdb_check_race`: an expired key is taken out of the index first and deleted
  later, and what is deleted is the value the key has then, which may be a new one
  without any deadline (`db.go:313`). The background goroutine does the same
  (`db.go:173`). `KVStore` therefore allows every key that ever had a deadline to vanish.
* `sets_inter_leak`: SINTERSTORE of keys none of which is a set panics with the read
  locks taken (`set.go:525`), and the connection handler recovers the panic.
* `zset_ranks`: `deleteNode` does not narrow the spans above the removed node
  (`zset_struct.go:158`), and ranks are too high afterwards. `SpansNeverNarrow` says that
  they are right until something is removed (also by ZADD or ZINCRBY of an existing
  member), and never too low.
* `cluster_restore`: a restored snapshot is empty and the log before it is not replayed
  (`node.go:797`). `StateFromLog` shows that nothing else loses entries.

The properties of the passing runs except a command, a step or a state where the code
would break them. The exceptions and assumptions are these:

* `LocksReleasedElsewhere` excepts a SINTERSTORE that has panicked;
* `SetCommandsAtomic` and `StringsKept` except SUNIONSTORE, which unlocks its destination before it looks at
  it and sets it (`set.go:139`), so that a string written in between is replaced: the first is about
  steps up to that unlock (`loose`), the second excepts that one write;
* `EmptySetsOnlyFromSMove` excepts the source of SMOVE, which leaves the set it has emptied in the map
  (`set.go:400`);
* `SetCommandsAtomic` is about steps before the first deadline passes (`passed`), since SDIFFSTORE drops
  an expired first source and subtracts from the second (`set.go:623`);
* `NoEmptyCollections` and `HashSizesRight` except hashes of which HINCRBY or HINCRBYFLOAT has
  incremented a field with an empty value, which counts it again (`hash_struct.go:153`);
  HDEL then leaves an empty hash, on which HRANDFIELD with a negative count does not return.
  Sorted sets stay when they are empty (`zset.go:237`);
* `StateFromLog` and its like except nodes that executed INCRBY, DECRBY, INCRBYFLOAT, SETRANGE, LPUSHX,
  RPUSHX, LMOVE, SUNIONSTORE, SINTERSTORE, SDIFFSTORE, ZREMRANGEBYRANK or ZREMRANGEBYSCORE, which
  `IsWriteCommand` does not name (`write.go`); and a read is right for the entries its node
  has applied, which can be fewer than other clients have seen answered (`node.go:283`);
* `PatternsRight` is about patterns without escapes outside classes, in which a star is followed by
  a star, a character that stands for itself, or nothing: elsewhere `PatternMatch` differs from its
  comment (`util.go:63`, `:125`), since after a star it compares the next character of the
  pattern as it is, and the case of the backslash does not fall through to the default. Even there it allows
  `PatternMatch` to panic on a text that the pattern does not match, if the pattern has a star: when the character
  after the star does not occur in the rest of the text, the text is cut one past its end (`util.go:67`);
* `SessionsEnd` and `ServerStops` assume that commands end. That is what `EveryCommandAnswered` says of the commands
  in `MemDb`, and it is false of a set command that waits for a key whose lock a panicked SINTERSTORE has
  kept (`set.go:525`), and of HRANDFIELD on a miscounted hash: such a session stays, and the server waits for it;
* `JoinFindsLeader` does not say that a node which is given a usable address of the leader joins: a spelling of
  it that is not served and comes first is asked, and the usable one is dropped as a duplicate (`node.go:531`).
  A join through a follower fails, because the redirect names the Raft address (`node.go:608`). It says nothing once
  a request or an answer is lost, the leader changes or the process ends;
* `BytesInOrder` allows bytes to be lost at a reconnection: the goroutine that copied to the old node
  still reads from the client (`proxy.go:164`);
* no property says that the goroutine of the parser ends: it does when the handler takes EOF from it,
  and otherwise stays at its channel, which nobody reads (`parsestream.go:50`), as it does for every
  entry that `decodeCommand` decodes and every probe of the proxy;
* some replies are as the code gives them and are held against nothing: SPOP with a count does not return a member
  that is the empty string and still removes it (`set.go:346`), ZADD keeps the pairs in front of a score that is not a
  number (`zset.go:54`), and TTL of a key past its deadline and not yet deleted is zero or negative (`keys.go:193`).

## Proofs

The proofs are checked by TLAPS and hold for every value of the constants, under
the named assumptions in `Locks`, `Values`, `MemDb`, `ConcurrentMap`, `SetDb`, `Cluster`
and `Join`: at least one lock position and a hash in the naturals; the shape of commands and the
numbers of arguments that the handlers check first; a value for "no deadline" that is no
integer; at least one shard of the index and of the map; thresholds of which the one for lists is
below the one for trees; that commands are of one
kind each (in the list of writes, writing but not in it, reading), that what a command makes of
a database is a database, that reading commands leave it as it is; that configured targets are sequences of addresses; and values
for "none" that are none of the others.

* `LocksTypeCorrect`, `LocksInvariant`. The inductive invariant `LocksInv` says that a
  writer is alone at its position, that announced and queued goroutines are at the
  least position their loop has left, that what a goroutine holds follows from
  how far its loop has come, and that positions are taken in ascending order. Mutual
  exclusion alone is not inductive: whether a goroutine in its section still holds
  its positions depends on the loops.
* `LocksKeyExclusion`: two goroutines in their sections with a common key both
  hold the position of that key, hence both as readers.
* `LocksNoCircularWait`: in a group of waiting goroutines take one that waits at
  the greatest position. Whoever blocks it holds or has announced itself at that
  position; a holder waits further up, which contradicts the choice, so some member
  of the group is blocked by none of them.
* `LocksImplementKeyLocks`: the refinement of `KeyLocks`, with the keys held from the
  end of the locking call to the start of the unlocking one.
* `MemDbTypeCorrect`, `MemDbSectionsExclusive`: the type invariant and `SectionsExclusive` are
  inductive together. Each handler is shown to be a section (one lemma per handler) and one
  lemma shows what a section preserves.
* `MemDbOnlyVolatileExpire`: every way a key can vanish by expiry (an entry of the
  index, one about to be made, a goroutine that found it expired, the cleanup's
  list) goes back to a command that set a deadline for it.
* `MemDbPersistentKeysStay`: from the two, a key without a deadline leaves the map only
  by DEL or RENAME.
* `ClusterTypeCorrect`, `ClusterFollowsLog`, `ClusterReplicasAgree`, `ClusterAnswersRight`, for any nodes,
  databases and commands. The inductive invariant `ClusterInv` adds
  to `StateFromLog` that `hist` is what the log leads to, that every call has at most one entry, which is in
  the log or in flight, and that an answer points to its entry and to the databases it was
  computed from, while a refused call has no entry. Without the first, `Apply` does not
  preserve `StateFromLog`; without the second, a commit could give a second entry to an answered call.
  Agreement follows from `StateFromLog` when a set of `hist` has one element.

* `MapInvariant`, `MapShardsSound`, `MapCountExact`, `MapKeysComplete`, for any goroutines, keys, shards and
  thresholds. `MapInv` says that a key is once in its own shard and a tree is in order, that the size of a
  shard fits its form unless its writer has still to convert it, that a write lock has one holder, who is
  between its change and its unlock, that the counter lacks just the writers in front of `AddInt32`,
  and what a scan has collected from the shards it has left behind. The size alone is not inductive:
  that a Set which has added a key leaves a tree large enough needs the writer's `diff`. `MapLemmas` shows
  what Put, Remove and the conversions do to the set of entries; the conversions put the entries one by one
  into a new structure, which is an induction over the length of a sequence (by the least length
  at which the claim fails, since the induction rules of the library cannot be instantiated).
* `MapIsAtomic`: the refinement of `AtomicMap`, with the shards read as one function. A call takes effect
  at the step that changes or reads the shard; counter and conversion change nothing.
* `SetInvariant`, `SetLocksReleased`, `SetStringsKept`, `SetNoEmptySets`, for any clients, keys, commands and
  deadlines. `SetInv` says which locks a client holds at each point of its handler, that
  holders of a key in common are readers, and which accesses a section may have left: a deletion only
  for a key that holds no string, a new set only with a member and for a key that holds no string. The last is needed
  because the type of the destination was looked at steps ago; it stays true because the lock is held for writing.
* `SetCommandsAreAtomic`: the refinement of `AtomicSets` under `passed = 0` and `~loose`. There the invariant
  `CalmInv` adds that the keys a command on several sets has collected are those it names, and that the values it
  has read so far are still those of the map, because it holds their read locks. The map of the
  specification is `Settled`: the accesses that sections have left are taken as done. A command on one key
  and SMOVE take effect at the step that takes the locks, a command on several sets when all is read,
  a STORE once more when its destination is locked. That step sees the map `db`, the specification `Settled`, which differ at
  keys that other clients have locked for writing; so what a handler answers and changes is shown to
  depend on its own keys only (`OutcomesCarried`), where the two agree.
* `SessionsReplyInOrder`: `SessionsInv` relates the frames sent, read by the parser and taken by `Handle` to the
  commands executed and the replies written: the parser is at most one frame ahead, and a reply is missing
  only while it is being written.
* `ProxyDeliversInOrder`: `ProxyInv` says that bytes ascend over the connections of a client and into those
  nobody has read yet, that only the latest connection is open, and that over the first one nothing is lost.
* `JoinNeverMissesLeader`: while the loop of join runs and nothing has gone wrong, a leader whose first spelling is
  served is in the queue, in no other spelling, and was not asked yet (`LeaderAhead`); otherwise no address of it
  in the queue is served (`NoLeaderAhead`). Both rest on `FirstSpelling`: what collectJoinTargets keeps of
  several spellings is the first one.

The type invariants, the inductive invariants and `ReplicasAgree` are left to the proofs; the runs check the other
properties.

Only model-checked: liveness (`EveryCallReturns`, `EveryCommandAnswered`, `ExpiredKeysGo`, `JoinEnds`,
`SessionsEnd`, `ServerStops`, `Served`, `ProxyStops`), since the prover does not handle fairness and `ENABLED`; the
linked list, the skip list, the heap of deadlines, patterns and the parser, with the refinements of
`SeqList` and `TTLMap`, and the commands on lists, hashes and sorted sets (`CollectionDb`), whose definitions are
RECURSIVE operators, in whose presence the prover loses its arithmetic; and the refinement of `KVStore`: its
mapping takes the last of the writes that a section has decided on, so every handler of `string.go` and `keys.go`
needs a proof of its own that these writes add up to the abstract command. `SetDbRefinement` does this for the set
commands; for the string and key commands it is not done.

## Not modelled

* KEYS, INCRBYFLOAT and PING as handlers of `MemDb`. What KEYS is made of is modelled: `Keys` in
  `ConcurrentMap`, the check of deadlines in `MemDb`, the patterns in `Text`. INCRBYFLOAT has the shape
  of INCR with another format of numbers (HINCRBYFLOAT is modelled); PING touches nothing.
* `ConcurrentMap.Clear` and `Hash.Clear`, which have no caller.
* INFO (`info.go`, `collectReplicationInfo`), the lines that `raftLogWriter` rewrites, logging, configuration
  and the command line: text is formatted or options are read before anything runs;
  no other part depends on it. RaftBootstrap makes the first node of a cluster before Raft starts.
* Clocks of nodes: EXPIRE goes through the log as a duration, and nodes judge deadlines on their
  own; no text of the repository says that they agree.
* The arithmetic of the hash function, for which the models take any function; NaN as a score;
  the red-black tree, `container/heap`, Raft and HTTP themselves, which are external.

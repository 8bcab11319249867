# A verification project for traccoon

traccoon is a multi-threaded BitTorrent tracker in C with an SQLite database
behind it; getpeers and torrentinfo are its companions on the command line. This
directory models them in TLA+, checks the models with TLC and proves facts about
them with TLAPS. `PROJECT.json` lists the runs, the mapping of every definition to
the source lines it models, the mutants that show that every property can fail, the
hazards and the findings.

## The system

| part | state | operations | talks to |
|---|---|---|---|
| `main()` (traccoon.c) | accept queue `aqueue`, `threads[]`, listening socket, time of the last pruning | start workers, accept into a free slot, name a worker in the slot, prune, shut down | workers through the queue, `LAZIEST_WORKER`, `killserver` and `threads[i].shutdown`; all `volatile`, no lock |
| `workerthread()` (thread.c) | private client buffer, one database connection | count, grow the buffer, copy slots, release them, update `LAZIEST_WORKER`, `select()`, handle or time out clients, clean up | the queue; `parseSocket()` |
| `sigint_handler()` (callbacks.c) | – | set `killserver`, close the listening socket | `main()`, blocked in `accept()` |
| `parseSocket()` (comm.c) | none: it peeks at the socket again each round | classify the request, read its parameters, answer, or wait | `track()`, `scrape()` |
| `track()`, `scrape()` (track.c, neth.c) | none | look the torrent up, send peers or counts piece by piece, register the peer | database layer, the client's socket |
| database layer (db.c, statements.h) | tables `torrents`, `peers` | `getTorrentId`, `addPeer`, `updatePeer`, `prunePeers`, `queryTorrentParam`, `createEmptyDatabase` | SQLite, one connection per thread, every statement commits by itself |
| encodings (encoding.c), query string (neth.c) | none | URL and hex coding in place, parameter lookup | pure |
| bencode library (benc.c) | none | find an entity's end, a key, an item; read integers and strings | pure |
| getpeers (getpeers.c, net.c, file.c) | socket, growing response buffer | parse the command line and the URL, read a torrent file, connect, send, receive, print the reply | the tracker over TCP; bencode; encodings |
| torrentinfo | root node | resolve a path, walk and print a tree | bencode |

What is hard in it:

* the queue is shared without a lock; everything depends on the order of single
  writes (`socket`, `thread`) by main() and the workers, and on who may write
  which slot when;
* the load balancing reads and writes a two-word structure piecemeal;
* shutdown: a signal arrives anywhere, main() may be blocked in `accept()` or
  stalled on a full queue, workers must close what they hold and what is queued
  for them, and main() must free the queue only after that;
* early returns of workers, and error paths of main() that skip part of the protocol;
* requests arrive in pieces and are polled a bounded number of times, with the
  timeout decided in two places;
* announces are several autocommitted statements, interleaved between workers
  and with the pruning, any of which may fail;
* replies are sent in many pieces, each once, and nobody looks at the result,
  while the other end takes a short read for the end;
* the info hash goes through four in-place codings in two programs, and is
  measured in one form and copied in another;
* bencoded text is walked by adding offsets up by hand.

What makes each part correct: a connection has exactly one owner and is closed
exactly once (dispatcher); a client gets at most one answer and is registered at
most once, and nobody stays for ever (requests); announces touch only their own
peer, completions count once, no peer goes before its time (database); a list holds
exactly the peers asked for and fits its buffers (replies); the torrent looked up
is the one that was typed, and reading stays in its buffer and ends (getpeers);
the walks find what is in the tree (bencode).

## Modules

| module | models |
|---|---|
| `Ownership` | abstract: what the tracker promises about a connection (queued, claimed by one worker, closed once by its owner) |
| `Dispatch` | `main()`, `workerthread()` and `sigint_handler()` |
| `DispatchInv` | the inductive invariant `IInv` of `Dispatch`, in named parts |
| `DispatchProofs`, `DispatchSafety` | proofs about `Dispatch`: the slot protocol, the whole invariant and what follows, the bound of the buffers, the refinement of `Ownership` |
| `Request`, `RequestProofs` | one connection: arrival in pieces, polling, `parseSocket()`; proofs |
| `PeerStore`, `PeerStoreProofs` | the database under concurrent announces and pruning; proofs |
| `SequenceLemmas` | induction over numbers and facts about parts of sequences, for the proofs about text |
| `Codec`, `CodecProofs` | the coding functions and the measuring of a parameter; proofs of what they compute |
| `Reply` | what `track()` and `scrape()` send, row by row and piece by piece (extends `Codec`) |
| `Getpeers`, `GetpeersProofs` | getpeers composed with `Reply`; proofs about both |
| `Bencode` | the accessors of the bencode library, on text |
| `BencTools` | torrentinfo's walk, getpeers' reading of a torrent file and of the tracker's reply |
| `BencProofs` | proofs about both |
| `MCDispatch`, `MCPeerStore`, `MCGetpeers`, `MCBencTools` | values and symmetries for TLC |

### Dispatch

A step is one access to shared memory, or one system call that changes which
descriptors are open, together with the thread-local work around it. `qThread`,
`qSocket` are the two fields of a slot; `lazyID`, `lazyActive` those of
`LAZIEST_WORKER`; `mpc` and `wpc` are the program counters, `wi` and `wc` the
loop indices `i` and `c` (the latter counted from 1). `clients[w]` is the private
buffer. `open` is the kernel's view. `WorkerKeep` and `WorkerClose` stand for
`parseSocket()` and the timeout, whose detail is in `Request`: a connection may
be closed in any round, and must be after `MaxRecvIter` of them. (`parseSocket()`
gives up on an incomplete request one round earlier than `workerthread()` on a
silent client; `Dispatch` allows both.)

`Faults` says what may go wrong: the database (`db`), `pthread_create()`
(`spawn`), `getaddrinfo()` to `listen()` (`listen`), `gettimeofday()` (`time`),
a worker's database (`workerdb`), `realloc()` (`realloc`). `accept()` may always
fail. Joining a thread that was never created, and freeing the uninitialised
`servinfo`, may go well or crash. When `socket()` fails, the loop over the addresses
(traccoon.c:174) never gets beyond the first one: it may end in an error, try again
and again (`nextaddr`), or succeed late.

Abstractions: the handler is one step; SIGINT before the handler is installed,
and a `gettimeofday()` failing before the first thread exists, just end the
process and are left out. `parseSocket()`, SQLite calls and `select()` return
(see *Fairness*). `WorkerCloseClients` closes a worker's connections in one step,
where the code closes one after the other: the buffer is private and freed right after,
so that nobody sees it half closed, and the only thing another thread can do with a
descriptor closed early, `accept()` it again, it can do after the step as well. After a failed `pthread_create()` main() frees the queue under
the running workers; the model follows them only until `exit()`.

### Request

The request is abstracted to its path and to whether its query string is good;
what has arrived, to the parts `parseSocket()` can tell apart. `Select` is
`recv_iter++` and `select()`; the answer is a later step, so that data can arrive
between them. A reset makes `recv()` return -1, after which the buffer holds an
arbitrary earlier request (`Peek`) and `getpeername()` fails.

### PeerStore

One action per SQL statement or `gettimeofday()`. `Fail` ends an announce at any
statement and leaves what has been committed. `ErrorCodes` are SQLite result codes
that `getTorrentId()` returns as if they were torrent ids. They are small numbers, as
ids are, and nothing keeps them apart: in the run, 10 is both `SQLITE_IOERR` and a
torrent. `expires` holds the time of the last refresh, as in the code.

Four history variables serve the properties. `owed[t]` is the number of completed
downloads that `t` may count: an announce of a completion gives one to the torrent it
announces, and a lookup that returns a result code moves it to the torrent with that
id, if there is one. `refreshed[r]` is the time at which the INSERT or last UPDATE of a
row was committed, which is later than the time it stored, by at most `lag`, the
longest wait of any announce so far.

### Codec, Reply and Getpeers

Text that is decoded is a sequence of character codes, because what an in-place
decoder leaves behind when it fails depends on the characters (`Codec` returns the
status and the buffer). All other text is a piece: the argument of one
`reallySend()`. `Reply` runs `parseSocket()` from the accepted request line on:
five headers, the lookup, which may return a result code and make track() or
scrape() go on with another torrent (`misread` remembers it), `queryPeers` row by row (with `continue` for the peer
itself and for an address `inet_pton()` rejects), the compact buffers counted in
bytes, the end of the list, `updatePeer()`. `due` is what was passed to
`reallySend()`, `wire` what left the host: a send may be cut short by a signal
(once per reply) or find the connection broken. A scrape's three queries are
arguments of one `snprintf()` and so are evaluated in any order; each may fail, with -1
or a result code in place of the count. Meanwhile other workers insert and update
peers and count downloads, and main() prunes any number of rows with one DELETE
(`TableMove`). The text that the counts are put into is one piece, `counts`.

`Getpeers` adds the client: `-h`, the URL on its separators, the addresses of
`getaddrinfo()` in turn, the request in at most `MAX_SEND_RETRY_COUNT` calls of
`send()`, the reply in chunks of which the first short one ends the loop, and what
`main()` concludes from the first pieces of what it has. The same module lets any
other client ask (`OtherRequest`, over `Texts`) to reach the parameters that
getpeers never sends. The client asks with the default number of peers.

### Bencode and BencTools

`Bencode` has the accessors on sequences of characters, with a pointer as an offset.
The mutual recursion of `benc_entity_length()` with itself is the recursive function
`Entities`: what is at an offset depends on what is behind it, so it gives for every
offset the length of the entity there and the offsets at which a walk from there
stops. The loops of the accessors (`Items`, `Keys`, the search for a key) are read off
those stops.

`BencTools` builds documents together with the tree they encode (`Node` and the
operators behind it), so that what the offset arithmetic finds can be compared with what
is there. `Nodes` and `Documents` are constants: any set of legal nodes that is closed
under taking items (`NodesAssumption`). `ResolveToken` and `HandleNode` are
torrentinfo: the path token by token, the tree call by call, with the calls still to
be made in `agenda`. `ReadTorrent` is getpeers' file.c, which reads the tracker unless
`-t` gives it and the info dictionary unless `-h` gives the hash (`given`), `ReadReply` its evaluation of
a reply whose text `AnnounceText` forms as `track()` does, from the fields that
`Announces` gives it. A number is one that an `int` holds, and a port has 16 bits
(`NodesAssumption`, `PathsAssumption`, `AnnouncesAssumption`). The entry of one peer
is formed in a buffer of 1024 bytes, which addresses (`INET6_ADDRSTRLEN`) and peer ids
(`MAX_URLENC_HASH_LEN`) cannot fill, so that `snprintf()` never cuts it.

## Runs

| run | instance | shows | states |
|---|---|---|---|
| `dispatch_safety` | 2 workers, 2 slots, 2 descriptors, no faults | one owner per connection, no stale descriptor, clean hand-over, no leak, bounded buffers | 1.3 M |
| `dispatch_faults` | 2 workers, 1 slot, 2 descriptors, all faults | `IInv`; no free before the join, clean shutdown, no undefined behaviour in service; `Dispatch` implements `Ownership` | 0.7 M |
| `dispatch_live` | 2 workers, 1 slot, 2 descriptors | connections get closed, the process exits, also with main() stalled on a full queue | 0.1 M |
| `dispatch_dead_worker` | fault `workerdb` | *violated*: a worker that has returned is assigned connections | |
| `request` | all requests, `MaxRecvIter` = 3, resets | one answer, tracked once, bounded polls, justified silence, closure, a whole announce is tracked | 12 k |
| `request_split` | the same, no resets | *violated*: a split announce is refused as non-HTTP | |
| `peerstore` | 2 workers, 2 torrents, 2 peer ids, 2 announces, time 0..2, expiry 1, one error code that is the id of a torrent | bounded duplicates, own rows only, completions once and for one torrent, no row pruned before its time | 2.0 M |
| `peerstore_duplicates` | 2 announces | *violated*: one peer, two rows | |
| `peerstore_error_code` | 1 error code | *violated*: a row refers to no torrent | |
| `getpeers` | lists of at most 2 rows, 2 rows changed during a scrape, one error code that is the id of a torrent, 2 addresses, requests of 3 parts, 2 sends, chunks of 3 pieces | lists complete and in their buffers, bodies whole, counts off by no more than the rows changed; the hash and URL survive, peers belong to the torrent typed unless the lookup is misread, buffer and socket in order, the client ends | 1.2 M |
| `benctools` | 48 documents of depth ≤ 3, 7 paths, with -t, -h or neither, announces of up to 2 peers | torrentinfo shows the tree, getpeers finds tracker, info and peers | 15 k |
| `benctools_single_digit` | integers 1 and 42 | *violated*: an integer of one digit is read as the default | |

Bounds. Two workers are what the hand-over needs: one that releases a slot and
one that claims, updates the load balancing or shuts down meanwhile. Two slots let
main() and both workers be in different slots; two descriptors on one slot let a
descriptor be closed, handed out again and met by a stale holder, and make main()
stall. `MaxRecvIter` = 1 already gives a kept and a timed-out round, so that a
buffer holds an older client when a new one is copied into it (`dispatch_faults`);
`dispatch_safety` and `dispatch_live` close every client in its first round
(`MaxRecvIter` = 0) to afford the second slot and fairness. Descriptors
are interchangeable (symmetry); workers are not, since main() starts with
worker 1. In `PeerStore` two announces are two that race, of one peer or of two, or
one that comes after the other's row has been pruned; with `Expire` = 1 and the clock at
2 a row is first fresh and then stale, and an announce may wait for as long as the
expiry time. Two peer ids and two torrents give rows of another peer to meet, and the
error code the second torrent's id.

In `getpeers` the lists of up to two rows hold every kind of row, alone and before or
after one that is skipped, with a numwant below, at and above the number of rows; an int of three bits makes
numwant wrap to a negative and to a small positive number; two changed rows can
fall between any two of the three counts, one by one or in one DELETE. One other
torrent, whose id is the error code, is what a lookup can be misread as. Chunks of three pieces end a read in
the headers (five pieces), at their end and in the body; two calls of `send()` for
three parts leave a request that is never completed. A hash has two bytes
instead of twenty: whole, cut short, too long, in upper case, with escapes at the
end, across the next parameter, and of `%` itself. Paths of URLs hold the separators
`@`, `:` and `/` too, once where they must not matter and once where they are taken
for the URL's own; `UrlResolved` is about the first kind. The strings in the documents of `benctools` look like the end of an
entity, like an entity and like keys.

Deadlock is checked everywhere but where a state is an end: `Terminated`,
`Closed`, `Quiet` and `Ended` stutter there: the process has ended, the connection
is closed, the workers wait for requests that the bound does not allow any more,
both programs are done.

Fairness. `WF` of main() and of every worker: threads are scheduled, SQLite
returns within its busy timeout, `select()` has a timeout of 2 ms and `parseSocket()`
reads only what `select()` has announced. `accept()` returns by itself only on a
closed socket; a new connection is never assumed. The tracker's client owes
nothing. For getpeers, `WF` of its own steps and of the tracker's: `send()` and
`recv()` return when the other end runs or has closed; an error of `recv()` is
never assumed.

## Proofs

All theorems hold for every value of the constants that their named assumptions
allow: any number of workers, slots, descriptors, polls, rows, pieces; any chunk
size; any set of faults; any result codes, whether or not they are ids of torrents.
`PROJECT.json` lists them.

*The slot protocol* (`DispatchProofs`). `TypeOK` holds the types and the bounds of the
indices (`MainIndexOK`, `WorkerIndexOK`). It is not inductive by itself: that a worker never copies the -1 of a failed `accept()` needs `SlotOK`
(a slot that names a worker holds a descriptor; a worker between seeing its name
and clearing it is still named), which needs `MainSlotOK` (main() writes only a
slot that it found empty). `SlotInv` is their conjunction. Each
worker action is one of three kinds with respect to the slots, each with a lemma:
it leaves them alone (`QuietStep`), takes its name out (`DropName`, `PassName`), or
empties a slot it has taken its name out of (`EmptySlot`).

*The dispatcher's safety* (`DispatchSafety`). `IInv` adds to it the order of
start-up and shutdown (`PhaseOK`), the entry being copied (`CopyOK`), `Handover`,
`SoleOwner`, `HeldIsOpen` and `Tracked`. They need each other: that a closed
descriptor is in nobody's hands needs the sole owner, that a worker copies a slot
nobody else holds needs `CopyOK` and the slot protocol, that nothing is lost on
the way out needs `PhaseOK`. Instead of one case per action and conjunct, a
worker's action is one of eight kinds by what it does to slots, buffer and
descriptors (`WorkerKinds`: quiet, takes an entry, drops a name, empties a slot,
closes one, closes all, closes a slot, dies) and main()'s one of five (`MainKinds`),
and each kind preserves each conjunct (`MainPhaseOK`, `MainInv`, `WorkerInv`).
`Invariant` is the result; `OneOwner`, `NoStaleDescriptor`, `HandedOver`,
`NothingLost`, `FreedLast`, `ShutsDownClean` and `ServesUncrashed` follow.

*The buffers* (`DispatchSafety`, second part). A worker counts the slots that name it,
expands its buffer by as many entries as are not free, and copies one slot at a time
while main() goes on naming it. `BufferBounded` holds because each slot counted still
names the worker when it expands (`CountOK`), the search for a free entry only goes on
behind entries that are taken (`FillOK`), and the connections counted and those held
are different descriptors (`RoomForQueued`, from `SoleOwner`), of which there are
finitely many (`FiniteFdsAssumption`).

*The refinement* (`DispatchSafety`, last part). Under the mapping in `Dispatch` (a
connection is owned by the worker named in its slot or holding it in its buffer),
initial states map to initial states, and with `IInv` every kind of step maps to a
step of `Ownership` or a stutter.

*Requests* (`RequestProofs`). The four safety properties are strengthened by
`OpenIsUnanswered` (nothing has been sent on an open connection) and
`ReadyIsReadable` (what `select()` reported is still there when the socket is read),
and rest on the type invariant, which is part of the induction.

*The database* (`PeerStoreProofs`). `StoreInv`: row ids are below the next id, so
that no insertion can reuse the id a worker remembers (`RowOK`); the torrent of an
announce stays the one looked up (`RequestOK`); the rows of a peer and the workers
about to add one are together no more than the workers, since only a worker that
finds no row may add one (`DuplicatesBounded` says so, and so is inductive); the
pruning threshold is not of a time to come (`PruneOK`); the time stored in a row is at
most `lag` older than the commit that stored it (`FreshOK`), from which `PrunesExpired`
follows: a row that goes has a stored time before `ptime - Expire`. `CountedOnce` is
inductive, because a lookup that is misread moves the download with the announce.

*Replies and getpeers* (`GetpeersProofs`). `TrackerInv`: the rows listed are exactly
the wanted ones among those read (`ListOK`), the compact strings are at most 18
bytes for each, a count that has been read without a failure, and any sum of such
counts, is off by at most the rows changed since the scrape began (`CountsOK`), for
which `MoveFacts` says how much a commit of any kind can change. `ClientInv`: the buffer has grown by a chunk for each read, all but
the last of which were full.

*The codecs* (`CodecProofs`, on `SequenceLemmas`). In place of the induction theorems,
which take an operator, induction is over sets: a set of numbers that holds 0 and
every successor of its members is `Nat` (`NatSet`, by counting), and from it
`Downwards` and `Upwards` along a text. A recursive function's equation can be used
once some function satisfies it (`ChainExists`, `UptoExists`). `Encodes` says where in
the encoded text the escape of each byte stands; from it follow `UrlCodecInverse`,
`HexCodecInverse` and `EncodingIsMeasured`, for every hash of every length, and, for
any text, that what a decoder leaves behind is a buffer of bytes (`BuffersHoldBytes`)
and that `decodedStrlen()` counts at least a third of what it is given
(`StrlenBound`), which is what bounds the copy into `ar.info_hash`.

*What is asked, answered and shown* (`GetpeersProofs`, second half). Three
further invariants are inductive together with `TrackerInv` and `ClientInv`, for
every command line, request and table (`AnswerInvariant`):

* `AskInv`: a hash is only looked up from a parameter that is neither empty nor too
  long (`HashOK`); the query holds the encoding of what was typed (`CommandOK`), so
  that a whole hash in lower case is looked up as it was typed (`QueryText` and
  `TakesTyped`, from the codecs' lemmas); the URL's parts are those it was put together from, if it is
  unambiguous (`UrlParsed`, from `CutAt`: the first separator is where the part
  before it ends, whatever the path holds).
* `BodyInv`: at every control point of `track()` and `scrape()`, the body so far is
  the one that this point's code has sent (`BodyOK`), and a list is only begun for
  a torrent that was found or a result code (`KnownOK`). `BodyWhole` is about the end.
* `WireInv`: each piece that has left is the one that was passed to `reallySend()`
  at its place, or what a signal left of it (`WireOK`), so that the sixth piece
  getpeers has received, where it looks for a list, is the beginning of the body the
  tracker meant, unless it was cut (`ShownOK`, `ReceivedFacts`).

`ParameterFits`, `AsksForWhatWasTyped`, `UrlIsResolved`, `BodyIsWhole` and
`PeersAreOfTyped` follow. They rest on two assumptions about the inputs: texts are
sequences of character codes (`TextsAssumption`), and a command line is a text with
a URL whose path is cut at every separator (`CommandsAssumption`).

*Bencoded text* (`BencProofs`). The main lemma is `NodeFound`: a legal node whose text
occurs anywhere in a text, between whatever else, is found there with its type and its
length (`Found`). It is proved by induction on the length of the node's text: the
items of a list or dictionary are shorter, so they are found, so the walk stops at
each of them and at the end behind them (`ItemStops`), which is what makes up the
length. `Decimal` writes digits that `Number` reads as the same number wherever a
character that is no digit ends them (`DecimalFound`, by induction on the number).
From `NodeFound` follow, for a node that `Stands` in a text, its value, its items, and
the first value of a key (`IntAt`, `StringAt`, `ItemsAt`, `ValueStands`).

`ToolInv` is the invariant. The node that the resolved tokens name in the tree stands
at the root offset (`Led`), which is where the sums over offsets are right. While the
tree is walked, what has been printed is the beginning of what is expected (`Printed`)
and the agenda is a chain of calls, each for a node that stands at its offset and
whose lines are the next ones expected, in order and without a gap (`Planned`, from
`Laid` and `Chained`). A call prints the first line of its node, and the calls it puts
in front are a chain for the rest of its lines: its items, keys one and values two
levels deeper, if `-r` is given, otherwise the keys (`CallsMade`). When the agenda is
empty nothing is left, which is `TreeIsShown`. `ReadFrom` says that what getpeers has
read it read from this document or this reply; `TorrentIsRead` is then a fact about
`ReadTorrent` on a legal document, and `RepliesAreRead` one about `ReadPeers` on
`AnnounceText`, which is shown to be the text of a legal tree with the peers as its
nodes (`ReplyLegal`).

Integers of one digit are excepted by name (`Read`, `Seen`): the code reads them as
the default, as `benctools_single_digit` shows.

Only model-checked: liveness (`ClientEnds`, `EventuallyClosed`, `EventuallyExits`,
`ConnectionCloses` and `WholeAnnounceTracked`), which is out of the prover's reach.
What the violated runs check is no theorem. Every safety and action property of the
passing runs is proved.

## Findings

Each of the violated runs shows one, see `findings` in `PROJECT.json`: a worker that
returns early starves the server, because main() keeps naming it; a peer can be
registered twice; unlisted SQLite codes become torrent ids (of no torrent, or of
another one, whose peers and counts are then sent and whose downloads are counted); a request whose first
segment is tiny is refused; an integer of one digit is read as the default.

Seen while modelling, and represented in the models:

* without a database main() joins threads that were never created
  (traccoon.c:299), and without an address it frees an uninitialised pointer
  (traccoon.c:277); `NoCrashInService` bounds both to the time before it serves;
* an UPDATE of a row that has been pruned meanwhile is reported as done (db.c:310):
  the peer is told it is registered and is in no list until its next announce;
* the first `recv()` shorter than a chunk ends the reading (getpeers/net.c:164),
  although the tracker sends a reply in many pieces, and an error is taken for the
  end once there is data (getpeers/net.c:154): getpeers may print less than the
  tracker sent, or call a reply invalid;
* a failing `send()` leaves the socket open (getpeers/net.c:142), and a request that
  is not out after `MAX_SEND_RETRY_COUNT` calls is truncated and waited upon;
* `-h` accepts upper-case digits (getpeers/getpeers.c:105), the decoder does not, and
  its failure is ignored (getpeers/getpeers.c:203): the hash sent is not the one typed
  (`AsksForTyped` is about lower case);
* without credentials an `@` in the path, and without a port a `:`, is taken for the
  URL's own (getpeers/net.c:37 and 50); if no `/` follows such a `:`, `strchr()`
  returns NULL, which line 57 writes through (`UrlResolved` excludes both);
* a torrent file without an info dictionary makes getpeers free the address of a
  variable (getpeers/file.c:66), unless the hash is given, and also when the tracker is
  given by `-t`;
* the text of a scrape (track.c:188) opens two dictionaries and closes three: there is no
  `d` behind `5:files`, so that it is no legal dictionary (`SendCounts`);
* a count that fails is sent as -1 or as the result code (db.c:57), and peers that have
  been inserted and not yet updated are reported as seeds;
* an UPDATE that waited for the database stores the time it read before it waited, also
  over a newer one that another worker stored meanwhile: the peer is pruned too early,
  by as much as the announce waited (`PrunesExpired`);
* when `socket()` fails and there is a second address, main() tries the first address
  again for ever (traccoon.c:174);
* a scrape whose hash has the wrong length is closed without an answer.

One worry in the code is unfounded: the endless loop feared at thread.c:167
cannot happen, since `killserver` is set before any worker is told to shut down
(`CleanShutdown`).

## Not modelled

* Option parsing, logging and layout, among them torrentinfo's `-H`, `-t` and `-v`
  and getpeers' other options and its random peer id; `createEmptyDatabase()`, which
  runs offline; the test programs.
* A parameter whose name ends in another's (`textAfter()` finds the first
  occurrence anywhere in the query), `strtolower()`.
* Bencoded text that ends in the middle of an entity, and numbers in it that an `int`
  does not hold.
* A failing `malloc()` or `realloc()` in getpeers: `http_get()` writes to the result of
  `realloc()` without a look (getpeers/net.c:151).
* A failing `select()` (its result is ignored) and the second `close()` of the
  listening socket on a descriptor that may have been reused; both are listed
  as hazards without a property.
* SQLite itself, assumed to execute each statement atomically. Its header
  (`sqlite3.h`, 7170 lines of declarations of an external library) is
  most of the text in the repository; of the roughly 3000 lines of traccoon's own
  code, most that change state are mapped.

## What is left

1. Truncated bencoded text, with what the accessors return for it.
2. `textAfter()` on parameter names that occur inside others.
3. The reuse of the listening socket's descriptor, by letting `accept()` and
   SQLite hand it out again.

# TLA+ models of the music server

The repository is a server that plays MP3 files requested by clients on a local
network. Clients register, queue songs and delete them; the server fetches one
song at a time from the client that asked for it, plays it, and plays random
songs of its own (the jukebox) while nobody asks. This directory holds the
TLA+ models of it, the TLC runs that check them and the proofs about them.

## The system

| Part | State | Operations |
| --- | --- | --- |
| Thread pool, `gthreads.c` | `workQueue`, `workerLock`, `workerCond` | `addJobToQueue`, `workerRoutine` |
| Queue, `queue.c` over `list.c` | a locked list | `enqueue`, `dequeue` |
| Linked list, `list.c` | `first`, `last`, `totalNode` | `addLast`, `deleteFirst`, `deleteOneFromListHaving`, `deleteAllFromList` |
| Playlist, `playlist.c` | one list per client, `playListSize`, `currentPlayingClient`, `currentDownloadingClient`, `playListLock` | add, delete by status, token or client, `getOneForDownloading` (the scheduler), `setPlayListStatus` |
| Client database, `clientdb.c` | state and address of each client slot, two scheduling slots `schData`, `scheduleIndex` | register, deregister, add, delete, the steps of a song through the slots, updates to clients |
| Resource manager, `resourceManager.c` | `rmQueue`, `rmState` | `postMsgToRm`, the message loop, the table `rmRunState` |
| Music player and jukebox, `musicPlayer.c`, `jukebox.c` | one `MPlayer` with `stop` and `fileName`, `isActive` | `playSong`, start, stop, next random song |
| Server routines, `serverRoutine.c`, `server.c` | a `clntMsg_t` and a socket per connection, a file per download | `handleClient` per connection, `sendACKandClose`, `getMP3FileFromClient` per download |
| Packets, sockets, entry | the header that is encoded, open sockets | `encodePacket`, `decodePacket`; `createClientSocket`, `receiveData`, `sendData`; `main` |

The main thread becomes the resource manager; a second thread accepts
connections; `MAX_WORKER_THREAD` workers run everything else as jobs: reading a
client's packet, a download, a song, an update to clients. Jobs report to the
resource manager by messages in `rmQueue`. But both the resource manager and
the workers call the client database and the playlist directly, so state is
also shared: `deregisterClient` in particular is called by whoever cannot
connect to a client.

What is hard: messages that arrive in any order while a download and a song are
under way; clients that leave, come back or delete in between; ids and tokens
that are used after their slot has changed hands; counters kept beside the
lists they count; condition variables that are waited on without a test;
a lock taken twice. `PROJECT.json` lists these hazards line by line with the
properties that cover them.

What makes each part correct, in short. Pool: a submitted job is run, once, in
order. Playlist: it is full only with songs in it, and every client has its
turn. Client database: clients do not share addresses, nor slots; a slot that
is being downloaded stays as it is until the answer comes (the code keeps to
this only while no worker drops clients). Resource manager:
one download and one song at a time, each with exactly one answer, and a state
that says truly what is going on. Inbox: what is posted is served in order, and
no wakeup leaves messages behind. Lists: a list is the sequence of what was put
into it, and no node is lost. Player and jukebox: every song ends, is reported,
and the next one follows. Connections: each is answered in order, closed once,
and its memory freed once. Updates: everybody else is told once. Downloads: a
file that is ready is the song, and a download that ends, ends with its file and
socket closed.

## Modules

| Module | Models | Extends |
| --- | --- | --- |
| `JobPool` | what the pool, and the inbox, promise, without locks and threads | |
| `ThreadPool` | `gthreads.c` with the queue operations it uses | |
| `Inbox` | `postMsgToRmQueue` and the loop of `runResourceManager` | |
| `SeqList` | what a linked list is to its users | |
| `LinkedList` | `list.c` with its pointers, and `queue.c` over it | |
| `PlayList` | `playlist.c` with the list operations it uses | |
| `MusicPlayer` | the player's jobs and the jukebox's flag, as `ResourceManager` needs them | |
| `ClientDb` | `clientdb.c` | `PlayList`, `MusicPlayer` |
| `ResourceManager` | `resourceManager.c`, the jobs, the clients | `ClientDb` |
| `Dropping` | the scheduling slots while workers drop clients, in the steps of threads | |
| `ClientTable` | registration, deregistration and `playListLock`, in the steps of threads | |
| `Playback` | the handle, file name and stop flag that `playSong` jobs share | |
| `JukeBox` | the search for a random song | |
| `Packet` | `packet.c`, byte for byte | |
| `Updates` | what all clients are told of each other | `Packet` |
| `Connection` | a connection from accept to close: `server.c`, `handleClient`, the answers | |
| `Download` | `getMP3FileFromClient` call by call, its file and its sockets | |
| `MCThreadPool`, `MCResourceManager`, `MCDropping`, `MCThreads`, `MCTransfers` | instances for TLC | |
| `ThreadPoolProofs`, `ResourceManagerProofs`, `SlotProofs`, `ServerProofs`, `ThreadsProofs`, `ListProofs`, `TransferProofs`, `ConnectionProofs` | proofs | |

`PlayList`, `MusicPlayer` and `ClientDb` declare variables and one action per
operation; `ResourceManager` composes them and holds the next-state relation:
it is the whole server, with each operation in one step, as long as no worker
drops a client. The other modules each look into one thing that is a step, or is
left out, there: the workers that drop clients, the inside of a list, the threads
inside a registration, the bytes of a packet, the calls of a download. Definitions keep the names of the functions. Operators whose name
extends that of another (`addToPlayListUncounted`, `ReadEndless`, ...) or that
are commented "Variant" are faulty forms of it: each is substituted for the
original to see that a property fails.

**ThreadPool.** One step for each lock operation. `pthread_cond_wait` is three:
give up the lock and wait (`Wait`), be woken (`Broadcast` or
`SpuriousWakeup`), take the lock again (`Relock`). `addJobToQueue` is two steps
because no lock spans the enqueue and the broadcast. The dequeue after the wait
and the unlock after it are one step: the unlock only enables others later.
Each call of `addJobToQueue` is a member of `Job`, made by a thread of its own,
so that a job run by a worker can add jobs.

**PlayList.** A list is the sequence of its nodes, with `totalNode` beside it
because `list.c` lets them diverge. Every operation is one critical section of
`playListLock` and so one step, enabled while the lock can be taken; the test
for a full list is read before the lock in `addToPlayList`, which only the
resource manager calls, and nobody increases the size in between.
`x = c ? x-- : x` is read as what the compiler makes of it, storing the old
value. `CharIsSigned` selects what a plain `char` that was assigned -1 compares
as; `U32` is the modulus of the unsigned counters.

**ClientDb, ResourceManager: the scope.** The operations of the client database
take no lock: they test a status and set it later. That is one step only if one
thread calls them. Here it is the resource manager: these two modules are the
server as long as no job of the pool drops a client, that is, as long as every
connection that a download or an update job makes succeeds. What the resource
manager itself fails to connect to, it drops (`NotifyConnectFails`). What the
workers do to the database when their connections fail is in `Dropping` and
`ClientTable`, where the operations are cut where threads can be interrupted.

**ClientDb.** Each operation is one step with at most one playlist operation in
it. Uninitialised `schData[1]` reads as zero, the object being the first
allocation of the process, as `NoToken`.

**ResourceManager.** A message goes through
`drain -> serve -> (notify) -> run -> (schedule) -> drain`: `serve` is
`servRequest` up to the table, `notify` is the message to the client that
`setPlayingStatus` and `setDownloadingStatus` send from the resource manager's
own thread, `run` is the entry of `rmRunState`, `schedule` is `callSchedular`.
A client that registers again takes a step more, for the end of its old
session. Between these steps the jobs run: `handleClient`, `playSong...`,
`downloadEnds`, `sendAll...`. The jobs that only tell clients something change
no state here and are in `Updates`. The client that is notified may be gone, and
its slot empty or taken by another; the code connects all the same, to 0.0.0.0 if need
be, and frees its data twice if the send fails then (`NotifySendFails`).
Undefined behaviour that ends the process sets `fault`, and nothing follows it
(`Alive`).

**Dropping.** `deregisterClient` and `checkAndDeleteCurrentList` in their steps:
the test of the client's state, of the owner of a slot, the read of its status,
the write of `PL_NONE`, the deletion of the songs, the clearing of the state.
Each worker that could not connect takes them, while the resource manager
registers, adds, deletes, answers, plays and schedules in steps of its own:
`addToQueue` tests the client and then adds the song, `setDownloadingStatus`
finds the slot and then sets it, `getRequestForPlaying` finds it, sets it,
tests the client and sets it active. The other operations are one step because
no write of a worker between their parts is told apart from one before or after
them. Which of the waiting songs the scheduler takes, or that it takes none, is
left open, so the slots are those it reaches and no tokens are needed: there is
one download at a time. An update job may connect to each client at any time;
`updates` counts the jobs that have yet to, up to the number of failures. Left
out are the player, `unlink`, names and addresses, the double free after a send
that fails, and the `connectToClient` of `sendAllUpdateToClient`, which holds
`playListLock` and so stops at its own lock after what the first deregistration
of an update does to the slots. A client that registers again is one that
deregisters and registers. No end of a song reaches the database, as built.

What workers can do to the slots is one thing. Two of them fail to connect to a
client whose song has just become ready, and both read `PL_READY` there. One
clears the slot; the resource manager finds nothing ready, goes idle, and
schedules the next song into the other slot; that download fails, and the
one after it is given the first slot. Now the second worker writes `PL_NONE`, and
the answer to that download finds no slot (`answer_without_slot`). `stale` says
that such a write has happened. `OnlyStaleClearsHurt` says that as long as it has
not, the slots agree with the state machine and every answer has its slot,
whatever else the workers interrupt; `OneAnswerIsAwaited` holds even then, since
the state machine runs on the message and not on the slot.

`StopClearsActive` deserves a word. `resourceManager.c:166` reads
`rm->JBPlayer->isActive == 0;` where an assignment is meant. `FALSE` is the code
as it is; all runs but one use it. With it the state machine never hears of the
end of a song, so `rm_Playing_Downloaded` and the end of a client's song are out
of reach. The run `flag_cleared` sets it to `TRUE` to check the rest of the
machine, which is in the code and is what runs once that line is repaired.

**Inbox.** `rmLock` is taken by nobody but the resource manager, so it is no
variable. As in the pool, enqueue and signal are two steps, and the wait looks
at nothing first: a message may stay in the queue until the next one is posted.
What holds is `WakeupServesAll`: once the resource manager is awake, or a signal
that will find it waiting is on its way, everything in the queue is served.

**ClientTable.** A thread is interrupted between the test of a slot, the deletion
of its songs, the clearing of its address and that of its state. Only the songs
are under a lock. The model has one slot of `i` per thread because each call
works on one slot at a time. `SelfDeadlock` is a state the code can reach:
`sendAllUpdateToClient` holds `playListLock` when `connectToClient` deregisters
the client that does not answer, and `deleteFromPlayList` takes it again.
`OperationsEnd` says that nothing else stops a thread.

**Playback.** `mp->fileName` points into the jukebox's buffer or a slot's and is
read when the job opens it, not when it was queued; the handle is opened, read
and closed by whichever job comes. In `MusicPlayer` the test and the clearing of
`stop` are one step, here they are two. Mistaken closes are possible and only
end songs early: `mpg123_read` on a closed handle fails and so ends the loop,
which is what `EveryJobEnds` rests on. It speaks of a job that a worker has begun
(`Picked`); that the pool picks a queued job is not certain
(`thread_pool_lost_wakeup`).

**JukeBox.** A tree of directories, songs and other files, any tree in the
initial state. `oldDir` remembers one directory; so a directory that has no song
below it but does have subdirectories is never left, and `SearchEnds` is stated
for trees without one.

**LinkedList, SeqList.** `malloc` gives any free node. `Walk` is the sequence
that following `next` from `first` visits. `totalNode` is part of
what a list is to its users, since `deleteOneFromListHaving` leaves it unchanged
unless the first node goes, and `playlist.c` walks by that count.

**Packet, Updates.** A `u32` is its four bytes. `encodeHeader` swaps size and
token of the message it is given; `encodePacket` sets the size again, nothing
sets the token again, and so every second client that is sent an update gets
the token with its bytes reversed (`PacketsArrive` says exactly that). The
model also keeps that the message for an added song goes out as `resOk_m`
(`resourceManager.c:275`), with a signature nobody set, and that the one for a deleted song is
named after whatever the freed request holds (`resourceManager.c:318`).

**Connection.** Descriptors and addresses are used again as soon as they are
free, so that a late close or a second free would hit another connection. The
read of a request that was handed back (`resourceManager.c:318`) changes nothing
here and is in `Updates`.

**Download.** A file is the sequence of what was written to it. It is opened
without `O_TRUNC`; `kept` are the names whose file was left behind, by a song
that was played (which is not unlinked) or by a crash. `write` may store less
than it is given, which the code does not look at. `createClientSocket` does not
close its socket when the connection fails; `unreached` counts these, and
`DescriptorsAreClosed` is about the others. Where the code posts the error before
it closes (`serverRoutine.c:252-253`, `259-262`, `269-270`, `278-280`, `286-287`)
the two are one step.

**MCThreads, MCTransfers.** The parts share no variable here, so they are
checked side by side: a behaviour is one of a single part, chosen in the initial
state in `part`, with the others at rest. A property of one part holds trivially
in the behaviours of the others and is checked in its own, in all its states.

## Runs

| Run | Bounds | Shows |
| --- | --- | --- |
| `thread_pool` | 2 workers, 3 jobs | no job is lost, run twice or out of order; refinement of `JobPool`; a job is run if a worker is awake or was waiting when it was announced |
| `thread_pool_lost_wakeup` | 2 workers, 2 jobs | *violated*: an added job is picked up |
| `as_built` | 3 slots, 2 addresses, 2 tokens, 4 client messages of all kinds, 1 failed connection of the resource manager | one answer per download, slots that agree with the state machine and the playlist, clients that stay separate, a bounded number of songs in the player; no worker drops a client |
| `flag_cleared` | 3 slots, 2 addresses, 1 token, signed `char`, 5 messages (register, add) | the whole state machine, with `StopClearsActive`; turns |
| `threads` | inbox: 3 messages; table: 2 slots, 2 addresses, 1 worker, 3 requests, 2 failed connections; player: 3 songs of 2 reads, 2 client messages; search: every tree of 4 directories, 2 songs, 1 other file | messages are served in order and after a wakeup; no two sessions of one address; every operation, begun song and search ends |
| `transfers` | list: 3 nodes, count up to 4; updates: 3 clients, 2 messages, 1 failure; connections: 2 clients, descriptors, messages and workers, 3 requests; downloads: 3, of songs of 5 and 3 units in blocks of 2 under one name, 1 crash; slots: 2 clients, 2 workers, 4 requests, 1 failed connection | lists implement sequences; every client is told, and what; memory, sockets and files are given back; a ready file is its song; workers that drop clients hurt the slots by stale statuses only |
| `answer_without_slot` | slots: 2 clients, 2 workers (alike), 5 requests, 2 failed connections | *violated*: every answer finds its slot |
| `played_song_stays` | 1 client, 1 song | *violated*: a played song is removed |
| `last_client_waits` | 2 slots | *violated*: every client is tried by the scheduler |
| `empty_position_unused` | 1 client, 2 songs | *violated*: nothing is scheduled only when no position is empty |
| `empty_list_walked` | 1 client, 2 tokens | *violated*: an empty list is skipped when lists are sent |
| `full_without_songs` | 1 client, 7 messages | *violated*: a full playlist has songs |

The violated runs are disagreements between a comment or log message of the code
and the code, quoted in `PROJECT.json` under "findings".

Bounds. Two workers give every combination of a waiting, a woken and a draining
worker, three jobs one in each place. Three client slots give two slots the
scheduler reaches and the last, which it does not (`% (MAX_CLIENT-1)`). Two
addresses allow a client to register again, two tokens allow a token to be
reused. `MaxMsgs` bounds the messages clients send, `MaxWaiting` the client
messages waiting at a time (player and download messages are not bounded, and
queue up behind them), `MaxDrops` the failed connections. Four messages are a
registration and three requests, enough for one song to play, one to be
downloaded and one to wait or be deleted; `flag_cleared` has five, so that two
clients can wait for their turn while a song of one of them is downloaded, and a
client that registers again stands for every deregistration. `U32` is 16 in the runs, so that a
counter that goes below zero is seen to be large; no bound lets one reach 16
upwards. Deadlock is not checked in the server's runs: a fault stops the server,
and bounded clients fall silent.

In `threads`, one worker beside the resource manager gives every pair of an
operation and a deregistration that cuts into it; three requests are a
registration, a second one of the same address and one that adds, schedules or
deregisters; the proofs in `ThreadsProofs` need no bound. Three player jobs
are the jukebox's song, the client's and the one after the first that ends. Four
directories are a root, a dead end, one below it and one beside it. In
`transfers`, three nodes are a first, a middle and a last, and a count of four is
one more than the nodes, so that it drifts; three clients are the one told about, one
that is told before and one after a failure; two descriptors and addresses are
reused by the third request's connection; songs of five and three units end
inside a block and leave the longer one's end under the shorter one. Two clients
are one that is dropped and one whose songs take its slots; four requests are
two registrations and a song of each. That an answer finds no slot needs five
requests and two failures and is left to `answer_without_slot`; in `transfers`
the branch for it is not taken, and the proofs need no bound.
Requests, updates, downloads and failures are bounded, so both runs may stop:
deadlock is not checked.

Between them the passing runs take every action of `ResourceManager`:
`as_built` those of the machine as it is and of failed connections,
`flag_cleared` those of the end of a client's song.

Every property was also seen to fail when one definition of the model is
replaced by a faulty variant ("mutants" in `PROJECT.json`).

## Fairness

`ThreadPool!FairSpec`: every worker that can step does so in the end, and a
thread that has enqueued a job broadcasts; this is what the scheduler of the
operating system gives running threads, and a job's function returns because
every socket call has a time limit (three seconds, `gsocket.c`). Nobody has to
submit jobs and no wakeup has to be spurious. `ResourceManager!FairSpec`: the
resource manager, the players and the downloads make progress. It assumes that
the pool runs their jobs, which `thread_pool_lost_wakeup` shows it need not;
the run that uses it is refuted even so.

`Inbox!FairSpec`: the resource manager steps when it can, and who enqueued a
message signals. `ClientTable!TableFairSpec`: a thread inside an operation goes
on; fairness is strong because `playListLock` may be free again and again
without being free for ever, and a mutex lets every thread in at some time.
No message and no failure has to happen. `Playback!FairSpec`: a job that a worker
has begun goes on. That the pool picks one up, or that the resource manager is woken
for a message of the player, is not assumed. `JukeBox!FairSpec`: an entry of a directory that is listed
again and again is chosen at some time (strong fairness for each entry); the
choice is `rand`, seeded with the time. `ThreadsSpec` states each of these for the part that
runs. `MCTransfers` states none and checks safety only.

## Proofs

TLAPS proves the following for every value of the constants that the ASSUMEs
of the modules allow (at least two client slots, `MAX_PLAYLIST` positive and
below the modulus, a `NoJob` that is not a job and the like).

* `ThreadPoolProofs`: `PoolTypeCorrect`, `WorkerLockExcludes`,
  `JobsAreConserved` and the refinement `PoolImplementsJobPool`. The inductive
  invariant adds to the checked ones that a worker has a job exactly while it
  runs one (`JobHeldWhileRunning`): without it, finishing a job could clear the
  job of a worker that still runs it.
* `ResourceManagerProofs`: `TypeCorrect`. One lemma per operation of the
  playlist and the client database, then one per group of steps. The content is
  in the counters, which stay in range only because they wrap; in the scheduler,
  which returns a node that is there; and in the messages, whose kind says what
  they carry. And `DownloadsAnsweredOnce`, that `OneAnswerPerDownload` is
  invariant. The invariant is made inductive by the fact that the scheduler is
  called in `rm_Idle` and `rm_Playing` only (`DownloadInv`). The lemmas on
  `Answers` say what posting and taking a message does to the answers in the
  queue; `RunPhase` is the heart: the table handles an answer in every state in
  which one can arrive, and no other message begins or ends a wait.
* `SlotProofs` and `ServerProofs` are about `ResourceManager`, and so hold as long
  as no worker drops a client; for workers that do, see `TransferProofs`.
* `SlotProofs`: `SlotsAgreeWithState` (`SlotsFollowState`), `AnswersFindSlots`
  (`DownloadsHaveSlots`), `DownloadSlotIsSafe`, `ActiveClientHasSlot` and
  `DeleteDownloadingIsRight`. The first two hold only together (`SlotInv`, on
  top of `DownloadInv`): an answer finds its slot because no other slot has been
  given the same status, and a ready slot is only made from the slot of an
  answer. The steps that drop a client or delete a song free only slots that
  are ready (`OnlyReadyDropped`), which is all that the two invariants have to
  know of them; `SlotStep` then has the few steps that move a slot on. That a
  slot that is being downloaded into is left alone needs types only: it is the
  guard of those operations. `DeleteDownloadingIsRight` follows the one song
  with the status `PL_DOWNLOADING` through deletions in front of it
  (`RemoveAtElements`).
* `ServerProofs`: `ClientsStaySeparate` (`ClientsAreSeparate`), where what is
  missing to be inductive is that a registered client has an address, so that
  the next one cannot be given the same; `PlayerBalanced` (`PlayerBalance`);
  `TurnsAreTaken` (`NoSecondTurn`); and `SongsAreCounted` (`EverySongIsCounted`). `PlayerBalance` counts messages in a queue,
  so it rests on lemmas on what posting and taking a message does to the number
  of a kind (`QueuedPost`, `QueuedTake`). It is inductive with two facts more
  (`PlayerInv`): the jukebox is not active before it is started, and a message
  of the player that gets as far as the table found the jukebox not active. From
  them follows that the table is in a playing state then, since somebody has to
  have expected the song. `TurnsAreTaken` is arithmetic: the probes of the
  scheduler reach every other client it looks at before they come back
  (`ProbesReach`, `SecondTurn`), and no other step starts a download.
  `SongsAreCounted` holds as long as no count has come near the modulus
  (`CountsInRange`), which is a hypothesis of the theorem and not an assumption
  on the constants: `addToPlayList` counts each song and most deletions leave
  `totalNode` too large, so that after 2^32 requests it would wrap to less than
  the list holds.
* `ListProofs`: `ListLosesNoNode` (`NoNodeIsLost`) and the refinement of
  `SeqList`, `ListImplementsSeqList` (`ImplementsSeqList`). The invariant
  (`ListInv`) is that some sequence of the allocated nodes, each in it once, is
  linked by `next` from `first` to `last` (`Links`); each operation says what
  the sequence is afterwards (`AddedLast`, `DeletedFirst`, `Unlinked` and so
  on). That a walk is that sequence and no other (`WalkIs`) is an induction
  along the list. The library's induction theorems cannot be used, so `LeastOf`
  takes the least element of a set of positions, the first where two walks
  would differ, from the well-foundedness of the order.
* `ThreadsProofs`: `AddressesAreUnique`, that `OneSessionPerAddress` is
  invariant although no lock protects it, and `TableTypeCorrect`. Uniqueness is
  not inductive: a deregistered slot keeps its place, and a worker may clear an address whose
  slot stays registered for a step, or set back a slot that has just been
  taken. What makes it inductive is `FirstOfAddress`, that of the slots holding
  an address a registered one comes first, and `Searched`, what the two loops of
  `registerClient` have found out so far and no worker can undo: workers only
  clear. The assumptions on the constants are in `TableAssumption`.
  And `MessagesServedInOrder`, the refinement of `JobPool` by `Inbox`
  (`ServesInOrder`), over an invariant that says that what is queued, served
  or done was posted, and that `rmsg` is set exactly while a message is served.
  `NoFileStaysOpen` (`OpenFileIsRead`) is about the player: every step of a job
  leaves the file to a job in its loop (`JobGoesOn`) or closes the handle and
  posts a message (`JobReturns`).
  `ThreadsTypeCorrect` (`ThreadsTypeOK`) adds the types of the player's files
  and of the jukebox's search, whose path is a directory or a song because only
  a directory lists anything.
* `TransferProofs`: `DescriptorsAreGivenBack`, where `OpenWhileUsed` says for
  each point of `getMP3FileFromClient` which descriptors are open, and
  `ReadyFileIsRight` (`ReadyFileIsSong`). The file is followed while it is
  written (`Filling`): if no write fell short, the file's offset is what has
  been read, the file begins with that much of the song, and it goes on only if
  its name is in `kept`. For that, every file with something in it but that of
  the slot has to be in `kept` when the next download opens it
  (`OthersAreKept`). The assumptions are in `DownloadAssumption`: a size is
  positive, since `getMP3FileFromClient` refuses 0.
  `EveryoneIsTold` (`EveryoneElseIsTold`) and `PacketsAreRight`
  (`PacketsArrive`) are about `Updates` and `Packet`. `PacketRight` shows that
  decoding what `encodePacket` made gives the message back, for every payload: where
  each byte is (`LaidOut`), and that `Swap` undoes itself. `EncodedIs` is what
  encoding does to the message meanwhile. The invariant of an update (`Good`)
  says that the loop has been at the slots below `i` and told each of them that
  is owed the update once, that the audience is registered, and that the token
  in the header is the one queued or its reverse by the number of encodings so
  far. The first part is not inductive without the second: a slot is passed over
  when it is not registered.
  `OneAnswerAwaited` (`OneAnswerIsAwaited`) and `StaleClearsHurt`
  (`OnlyStaleClearsHurt`) are about `Dropping`. The first is inductive with where
  each thread can be (`ThreadPlaces`), that at most one worker is to post the
  error of a download (`OnePosts`), and the state the machine is in at each point
  of the resource manager (`Machine`); it needs nothing of the slots. The second
  rests on it: `SlotsAgree` names the slot of the download, which is the one
  `scheduleIndex` is not at, and the song the resource manager has found. All
  that it has to know of the workers is in `DeregisterKeepsSlots`: a step of a
  deregistration writes `PL_NONE` to a slot that is not downloaded and does not
  play, or `stale` is set.
* `ConnectionProofs`: `ConnectionStaysOwned` (`ConnectionsAreOwned`) and
  `AnswersComeInOrder` (`AnswersFollowRequests`). The invariant (`TalkInv`) has
  four parts, each resting on the ones before. A message that is allocated is in one
  place: the work queue, a worker, the resource manager's queue or the resource
  manager (`HeldOnce`); every step but `malloc` and `freeClientMsg` moves it
  from one to the next. The messages whose socket is not closed and the
  open descriptors are in one-to-one correspondence (`Connected`), so that closing
  one leaves the connections of the others alone. A message waiting for a packet has no
  payload (`Blank`), so that `decodePacket` does not overwrite a pointer that is
  still needed. And a request that is not answered yet is the last one read from
  its client (`IsNext`): nobody reads from a connection while its message is
  with the resource manager, and no other message leads to the same client.
  `TransfersTypeCorrect` (`TransfersTypeOK`) adds the bounds on numbers to the
  types (`ListBound`, `TellingBound`, `TalkBound`). Most bounds are guards; that
  no packet and no answer has a number beyond the requests that were sent is not:
  a client's requests and the packets it has sent are counted as pairs
  (`RoomForPacket`), for which `TransfersAssumption` has the clients finite.

The parts of `MCThreads` and `MCTransfers` are proved about one by one. A
behaviour of `ThreadsSpec` or `TransfersSpec` is a behaviour of the specification
of each part, since the parts that do not run stay in their initial states
(`ThreadsBehave`, `PartsBehave`); so `ThreadsAreSafe` and `TransfersAreSafe` state,
for the very specifications the runs check and for every value of the constants,
all their safety properties together.

Every safety property that a passing run checks is stated by one of these
theorems (`EverySongIsCounted` under `CountsInRange`). Only model-checked:

* Liveness (`AwakeWorkerServesQueue`, `AnnouncedToSleeperRuns`, `WakeupServesAll`,
  `OperationsEnd`, `EveryJobEnds`, `SearchEnds`) is beyond the prover.
* What the runs find violated is violated; the theorems hold of the code as it
  is, those findings included. `PlayerBalanced` holds for both values of
  `StopClearsActive`.

## Not modelled

Packets that are malformed or carry values outside the arrays, client and file
names, and the content of what `sendAllUpdateToClient` sends; `malloc`,
`encodePacket` and `enqueue` are taken to succeed, and with them the double free
at `serverRoutine.c:96` is left out; so is the descriptor that is lost when
`fcntl` fails on a new socket (`gsocket.c:108-112`). Not used by the program, and left out:
`getOneForPlaying`, the circular queue, `deleteLast` (only `listTest.c` calls
it), `getIPAddress`. `createServerSocket`, the configuration and the log are
input and output only. `getNewToken` increments a counter in
`sendAllUpdateToClient` only, under `playListLock`. At startup main sleeps a second per worker and
one for the server thread, and the singletons are taken to exist before the
first client connects. `list.c` does not free the data of a last node it
removes (`list.c:245`); data is not allocated in `LinkedList`.

`ResourceManager` takes a message whenever there is one: the wait that can miss
one is in `Inbox`. `Playback` has the player as the code drives it, with the
jukebox's flag never cleared; the machine with the flag cleared is in
`ResourceManager` only.

## Plan

Done: the inventory; the thread pool with its refinement; the server around the
resource manager; the inbox, the client table, the player, the jukebox, lists,
packets, updates, connections and downloads; the slots while workers drop
clients; and the proofs of their safety
properties. What is left is `Pipeline`, an abstract machine (one song
downloading, one ready, one playing) that `ResourceManager` implements, and the
proof of it; and the hazards in `PROJECT.json` that no property covers, each with
the reason.

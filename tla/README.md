# HashNet in TLA+

HashNet is a Bitcoin mining pool of a special kind: a C++ server takes a job from
a solo mining pool, cuts it into chunks of nonces and hands the chunks to
miners (a Linux/Windows program, an ESP32 sketch), preferring the extranonce2
values whose hashes have come closest to the target. This directory holds the
specifications of that code, the TLC configurations that check them on small
instances, and the TLAPS proofs of theorems about every component modelled and
about the system as a whole.

References of the form `CServer.cpp:427` are to `src/Server/`,
`hashnet.cpp` and `CMiner.cpp` to `src/Miners/LinuxW32/`, `ESP32.ino` to
`src/Miners/ESP32/`.

## 1. Inventory

| Part | State | Operations | Correct when |
|---|---|---|---|
| Work distribution: `tCurrentJob` (CServer.h:121-260), the work fields of `CClient`, the distribution block of `CServer::Tick` | current job, best distance and last nonce per extranonce2; chunk, job and difficulty per session | hand out, `stats`, `completed`, clean job, loss of the pool, arrival and end of sessions | no pair (extranonce2, nonce) of a job is searched twice or skipped; reports and chunks of an old job do not leak into the new one |
| Session table and main loop: `CServer::Tick`, accept block, `DisconnectIP`, throttle, timeouts, `Stop` | `m_vpSessions`, socket, address and heartbeat per session, `m_mThrottleIP` | two sweeps, accept, refusal, commands, SIGINT | sessions and descriptors correspond one to one, sessions end for a reason, places are reclaimed, the queue of connections moves |
| Pool link: `POOL_Connect`, `POOL_Connected`, `POOL_Receive`, `POOL_Send`, the pool block of `Tick` | `m_PoolSocket`, `m_mMapping`, the job | connect and subscribe, read a notification, submit a block, notice a lost link | the job is of the connection in use and never goes back; a lost link is noticed; every new job is taken |
| Miner session: `CClient::Tick` and the messages of `hashnet.cpp` | `m_strBuffer`, `m_vCommands`, the bytes under way | frame lines, exchange work against `completed`, time out | lines arrive whole, once and in order; no miner waits forever; no chunk is replaced under a miner at work |
| Nonce search: `main` of `hashnet.cpp`, `CMiner::Tick` | chunk, nonce, best distance | search, compare, report | no block is passed over; the reported distance is the best of the chunk |
| ESP32 miner: `setup`, `loop`, `MiningTask` on two cores, update over the air | the chunk, two flags, shared distance and connection, the firmware's version | connect, split, search on both cores or (DUCOSHA1) in `loop`, wait, report, restart, update | the halves cover the chunk, no task survives its chunk, every chunk is reported |
| Statistics: `tStatistics`, `stats.json` | counters, sums in uint32, dated distances, a ring of 24 entries | count, reset, dump once a second | what is published fits together although its parts are reset by different events and the clock moves while it is written |
| Whole system: the server, its miners and the script that starts them again (`raspberry.sh`) | the work distribution, messages under way, what each miner searches | the operations above, the end and restart of a miner or of the server, closed sessions, missed messages | no pair is searched twice, nothing handed out is lost without a failure, miner and session never disagree about the chunk, every miner gets work again and again |
| Hex/SHA/Merkle helpers, dashboard, helpers nothing calls | | | not modelled, see 7 |

How the parts interact. `main` (Server/main.cpp:45) calls `CServer::Tick` in an
endless loop; one call runs, in this order, the timeout sweep, the sweep that
reads every session's socket, the pool block, the accept block and the handling of
commands with the distribution block. The server is one thread and shares
nothing with the miners but TCP streams; SIGINT interrupts it anywhere. The
pool is a second TCP stream, read in the pool block and, for the answer to a
submission, from inside the handling of a `found` command. Two of its reads wait
without a timeout, and with them the whole server: the one for the answer to
`mining.subscribe` (CServer.cpp:212) and the one for the answer to a submission
(CServer.cpp:370). A miner process is
sequential: it waits for `work`, searches, sends `stats` once a second and
`completed` at the end. The ESP32 has a third form of concurrency, two tasks and
`loop()` on shared variables without a lock. A miner that ends is started
again by a script, a server that ends is started again by hand.

What is hard: the uint32 arithmetic of chunks across sessions of different
difficulty; state that survives a change of job; sessions closed while others
are iterated over; descriptors reused after a close; one thread that a silent pool can stop; TCP cutting and merging
messages on both links; a link that is lost without an error; the comparison that
is left out for hashes that do not progress; two tasks and one distance; a miner
that searches on after its session has ended, because it reads its socket only
between two chunks; a server that books every `completed` on the chunk its
session holds, without comparing the job and the nonces the message carries.

Versions. The server of this repository is 1.2 and talks to `hashnet.cpp`, also
1.2. `CMiner.cpp` and the ESP32 sketch are 1.3: they leave, or update
themselves, when the server's version differs. Their search loops are modelled
as code of the repository; the session model uses the messages of `hashnet.cpp`.

## 2. Modules

| Module | Models | Lines of code it stands for |
|---|---|---|
| `WorkLedger` | abstract: what the distribution of work promises | |
| `WorkChunks` | work distribution | CServer.h:128-253, CServer.cpp:117-202, 296-313, 375-478 |
| `WorkChunksProofs` | proofs about `WorkChunks`, among them that it implements `WorkLedger` | |
| `HashNet` (extends `WorkChunks`) | the distribution of work with the miners at the other end of its sessions, several sessions, failures and restarts | CServer.cpp:60-93, 296-478, 629-717, hashnet.cpp:205-447, raspberry.sh |
| `HashNetProofs` (extends `WorkChunksProofs`) | proofs about `HashNet`: it stays in step, searches nothing twice, loses nothing before the first failure and implements `WorkLedger` | |
| `Sessions` | table of sessions, descriptors and the phases of `Tick` | CServer.cpp:60-112, 195-425, 642-717, 782-864, CClient.cpp:7-28, 164-167 |
| `SessionsProofs` | proofs about `Sessions` | |
| `PoolLink` | link to the pool | CServer.cpp:102-260, 340-373, 729-786 |
| `PoolLinkProofs` | proofs about `PoolLink` | |
| `MinerSession` | framing and exchange of one session | CClient.cpp:93-153, CServer.cpp:325-478, hashnet.cpp:218-447 |
| `MinerSessionProofs` | proofs about `MinerSession` | |
| `HashChecks` | operators: `checkValid`, distance, target decoding | hashnet.cpp:37-50, 91-130 |
| `NonceLoop` (extends `HashChecks`) | search of a chunk, for the three kinds of job of `CMiner.cpp` and the one of `hashnet.cpp` | hashnet.cpp:296-447, CMiner.cpp:28-436 |
| `NonceLoopProofs` | proofs about `NonceLoop`, and about the functions of `HashChecks` against their reference definitions in `MCHashChecks` | |
| `ESP32Tasks` | `setup()`, `loop()`, the two tasks, the update | ESP32.ino:519-791 and the parts of `setup` and of the update before it |
| `ESP32TasksProofs` | proofs about `ESP32Tasks` | |
| `Statistics` | counters of server and sessions, the dump of `stats.json` | CServer.h:40-118, CServer.cpp:480-610 |
| `StatisticsProofs` | proofs about `Statistics` | |
| `MC...` | instances for TLC: symmetry sets, and for `HashChecks` the reference definitions and a variable `input` that holds the arguments of its three functions | |

How state and actions correspond to the code:

* **WorkChunks.** A session's visit handles its commands in order and then the
  distribution block, which does nothing while the session holds an
  extranonce2; so one action per command (`Report`, `Complete`) and one for the
  idle session (`HandOut`) are all a visit can do. `completed` and the
  distribution that follows it are one action because the code does both in
  one visit. The dice and the random generator are a free choice among
  `Extranonce2s`. `NonceSpace` is the 2^32 of uint32_t, and the arithmetic wraps as
  it does there. `link` distinguishes a session whose socket is closed and which
  is still in the table ("dead"): the code goes on serving it until the next
  sweep. `issued` and `handed` are history variables.
* **WorkLedger.** A ledger of pairs handed out in the current job, and what each
  worker holds of them. `WorkChunks` maps its chunks to sets of pairs; a chunk of
  an earlier job maps to nothing.
* **Sessions.** One action per sweep, pool block and accept block of `Tick`:
  within a sweep the result does not depend on the order of the sessions. In the
  handling of commands one action per command (`HandleGood`, `HandleBad`,
  `HandleFound`), since two things stop `Tick` in the middle of it or of the pool block: after
  `mining.subscribe` and after a submission it sits in recv ("subscribing",
  "submitting") until the pool sends something (`Subscribed`, `Submitted`). Peers and
  clock go on between any two steps. `Stop`, on SIGINT, reaches any subset of the
  sessions, because the handler may find `m_vpSessions` half changed; after it, and after
  `Ends` (exit on a message of the pool, an exception, SIGPIPE), the phase is
  "stopped" and nothing more happens. The kernel appears as what the code observes:
  open descriptors (`socket` and `accept` return the lowest free one, so numbers
  are reused), the next result of recv, the length of the queue of `listen`, whose
  connections show their address only to accept. The pool link
  takes a descriptor with every reconnection and gives none back; `poolFd` and
  `leaked` keep account of them.
* **HashNet.** A miner is a process of its own: `Connect` is its
  `connect_to_pool` together with the server's accept block, `Receive` to
  `SendCompleted` are its loop. The server's actions are those of `WorkChunks`
  conjoined with what they read from and write to the streams: `ServeStats`
  contains `Report`, `ServeCompleted` contains `Complete`, and so on. A stream
  is a sequence of whole messages; `MinerSession` says what cutting does to
  it, here a work message can be missed as a whole (`PassOver`) and `found`
  closes the session (`ServeMisread`). A miner whose connection was closed
  notices when it reads (`NoticeClosed`) or dies of SIGPIPE when it
  sends (`SendIntoVoid`). `failures` counts what goes wrong, so that properties can
  say what holds as long as nothing has. After `ServerRestart` the numbers of
  jobs go on: jobs of two pool connections differ by their extranonce1.
* **PoolLink.** The pool's messages are a stream; a recv takes any nonempty
  prefix, also one that ends within a message. The code parses what one recv
  returns as one value: only a notification alone and whole is understood. A notification has
  `clean_jobs` true, or false, or is too short to have it, in which case the flag
  of the one before decides (`FlagAfter`). `Reconnect` leaves the server waiting for
  the answer to `mining.subscribe`; a wrong answer, and a job whose Merkle branch or
  nbits are wrong, end the process. The state of the socket is what `getsockopt`, `select` and `recv` make of it.
* **MinerSession.** Messages are tokens, with carriage return and line feed as
  tokens of their own, so that TCP can cut between the two. `Lines` and
  `Remainder` are the loop of `CClient::Tick`. `stalled` says that the server waits for
  the pool in some other part of `Tick`, where it does nothing for this session
  while its clock goes on.
* **HashChecks, NonceLoop.** Numbers are functions from positions to bytes. The
  hash is an arbitrary function of the nonce. The kinds of job differ in what
  they look for (`IsBlock`), in whether a find ends the search (not for BLAKE3) and
  in whether the comparison depends on the best distance (DSHA256 only). `Strict`
  selects the `>` of hashnet.cpp:402 or the `>=` of CMiner.cpp:384. A job of an
  unknown kind is reported with nonces nobody assigned: any two. `accepted` says
  which nbits the loops start with: `nbitsToBETarget` of hashnet.cpp ends the process on the others,
  that of CMiner.h:144-166 goes on with whatever is in the target. The nonce of the
  DUCOSHA1 loop is hashed as the text of an int, negative from 2^31 on; a function
  of the nonce all the same, but only for chunks that end before does the loop
  search what the server counts. The `stats` of the BLAKE3 loop show 0 in place of the best score
  (CMiner.cpp:301): `DistanceIsBest` is about the score the loop keeps.
* **ESP32Tasks.** A task reads the shared distance (`Compare`) and writes it
  (`Store`) in separate steps, since nothing prevents the other core from acting
  between the two. A hash is its distance. `setup`, the DUCOSHA1 loop, restarts of the chip
  and the update of the firmware are the other places of `loop`. A task for which
  there is no memory does not exist and `loop` waits for it forever ("failed");
  work that is not readable restarts the chip (`ReceiveUnreadable`).
* **Statistics.** The dump is four steps because it reads the clock several
  times: the entry, the decision to push it, the stamp of the push and the time of
  the file. It is taken to last less than a second, so the second changes
  within it at most once. Nothing is counted in the middle of it: the server is
  one thread. Sums of rates wrap in uint32.

Operators whose names say how they depart from the code, each marked
"Mutant" in the modules (`GetNextWorkChunkOverlapping`, `ProgressesStrictly`, ...),
are plausible slips. Each property is violated when one of them takes the place
of the definition after it: they show that the property depends on the code.

## 3. Runs

Every run finishes within two minutes.

| Run | Configuration | Question and answer |
|---|---|---|
| `work_chunks` | `MCWorkChunks.cfg` | No nonce is handed out twice or skipped in a job and extranonce2, and sessions at work on the same pair of job and extranonce2 search disjoint ranges, through disconnections, completions, clean jobs and losses of the pool. Also checks the inductive invariant of the proofs. Holds. |
| `best_of_old_job` | `MCBestIsFromCurrentJob.cfg` | Is a best distance always of the current job? No, see 5. |
| `hashnet` | `MCHashNet.cfg` | With a failure at any point (a process that ends, a session closed or timed out early, a message missed, a block found, a server started again): miner and session stay in step, no pair is searched twice, without a failure everything handed out is searched, the distribution implements `WorkLedger`, and every miner is given work again and again. Holds. |
| `sessions` | `MCSessions.cfg` | Every open descriptor has one owner, a session or the pool link; a throttled address never has two live sessions; closed sessions are swept before accept; every closing has its reason; as long as the pool answers whenever `Tick` waits for it, a silent session loses its place and waiting connections are accepted or turned away while there are descriptors. Holds. |
| `pool_link` | `MCPoolLink.cfg` | Job and extranonce1 are of the current connection; jobs never go back, and a notification without `clean_jobs` never becomes the job, whatever flag was left. Also checks the inductive invariant of the proofs. Holds. |
| `pool_close_unnoticed` | `MCCloseIsNoticed.cfg` | Is the closing of the link noticed? No, see 5. |
| `miner_session` | `MCMinerSession.cfg` | However the stream is cut, lines are handled once and in order, none is held back, a chunk is not replaced under a miner at work, a session ends for a reason, and waiting for work ends as long as the server's own waits do. Holds. |
| `found_is_glued` | `MCLineIsAMessage.cfg` | Is a line one message? No, see 5. |
| `hash_checks` | `MCHashChecks.cfg` | `checkValid`, the distance and the target decoding agree with the values of the numbers. Holds. |
| `nonce_loop` | `MCNonceLoop.cfg` | `CMiner.cpp` sends every block of a chunk up to the one that ends the search, for each kind of job, and its best score is that of the chunk. Also checks the inductive invariant. Holds. |
| `esp32_tasks` | `MCESP32Tasks.cfg` | The halves cover the chunk without overlap, no task outlives its chunk, every chunk is reported if its tasks could be created, and every update ends. Holds. |
| `statistics` | `MCStatistics.cfg` | Whenever `stats.json` is written, chunk counts fit together, the distances shown are dated, and time entries are in order and a period apart. Holds. |

`work_chunks`, `best_of_old_job` and `hash_checks` check for
deadlock. The others do not, because the system may stop: the server on SIGINT, on
an unexpected answer of the pool or on an uncaught exception; a miner when it is
stopped; a search when the program exits; `hashnet` and `statistics` when their bounds are
reached.

## 4. Bounds, and why they suffice

* *Work distribution.* Two sessions and two extranonce2 values are what
  disjointness relates; a chunk has 2 nonces, or 3 after one step of difficulty,
  so chunks of different size meet in every order; 8 nonces hold several chunks,
  and `MaxIssued` = 10 goes past the wrap. Two jobs give an old and a new one.
  Chunk times 59 and 60 lie on both sides of `DIFFICULTY_INCREASE_THRESHOLD`.
  `Distances` = {0} in the run about chunks, since the distance does not influence
  the nonces, {0, 4} where distances matter.
* *Whole system.* Two miners and two places: a place is taken over while the
  miner that had it searches on. Two jobs, an old and a new one. The one
  extranonce2 has four nonces, two chunks of two, so every chunk meets its
  neighbour. One failure of any kind at any moment, after it
  everything must recover. Nonces stay within `NonceSpace`, the assumption of the
  theorems. Liveness makes an exception for a miner that waits when no chunk can
  be cut within the bound any more (`AtTheBound`). The inductive invariant of the
  proofs, `SearchInv`, and the one for `HandedIsSearched`, `DeliveryInv`, were
  checked on the same instance.
* *Sessions.* Two places and three descriptors, of which the pool link takes
  one with each reconnection: accept can fail for want of a
  descriptor, the table can be full, a descriptor can be reused while another
  session lives. One address besides the exempt 127.0.0.1. Two connections
  wait at once, so that one waits behind another, and two commands of a session
  arrive at once, so that a bad one can follow a good one. The timeout is one second: a session is heard in
  this second or old in the next. `BacklogMoves` excepts
  the server that has no descriptor left: there `accept` may fail forever, which is
  the limit of the system.
* *Pool link.* Two connections, four jobs, three messages under way: enough for two jobs on each connection, and for a cut, a merge and a
  foreign message in one stream.
* *Miner session.* `MaxBuffer` = 4 tokens. A line that has not ended yet has at most
  three (`found`, `completed` and a carriage return), which therefore fit in, as
  the some hundred bytes they stand for fit into the 2048 of `CLIENT_MAX_BUFFER`;
  but two lines do not, so a recv can leave part of one behind. 19 tokens are two
  chunks with reports. The inductive invariant of the proofs, `IndInv`, was checked
  on the same instance.
* *Search.* Three-byte (four-byte) numbers over two byte values, with every hash
  function on three nonces: a zero byte, an equal distance and a hash on each side of the
  target occur. The exponent of nbits takes all its 256 values.
* *ESP32.* Four nonces, chunks that wrap and chunks that are empty, two chunks in
  a row, restarts in between.
* *Statistics.* Two sessions, a ring of two entries and time for three, a period
  of two seconds, rates whose sum exceeds the uint32 (2 values for 2^32). The inductive invariant of
  the proofs, `StatInv`, was checked on the same instance.

## 5. Where code and text disagree

Three disagreements have a run of their own.

1. **A found block does not reach the pool** (`LineIsAMessage`, hashnet.cpp:416).
   The `found` message is sent without `\r\n`, so the server takes it together
   with the `completed` that follows as one line, a parse error. The
   block is lost and the miner's address throttled. CClient.cpp:142 says "we got a full message,
   grab it".
2. **A closed pool connection is not noticed** (`CloseIsNoticed`, CServer.cpp:769).
   `SO_ERROR` is 0 after an orderly close: `POOL_Connected` stays true, the
   server reads an empty string in every `Tick`, keeps its job and never
   reconnects. CServer.cpp:761 says "Check if the socket is still connected". The run
   assumes that the pool block runs again and again, nothing more.
3. **Best distances of the old job enter the new one** (`BestIsFromCurrentJob`,
   CServer.cpp:392). The map is cleared on a clean job, but sessions keep
   searching the old chunk and their next `stats` enters its extranonce2 again.
   CServer.cpp:141 says "Clear the best extranonce2's for the job - as we've got
   new job coming in".

Others are kept as formulas in the modules with a configuration that refutes
each, for whoever works on that code
(`tlc -config MC<name>.cfg MC<module>.tla`):

| Formula, module | What the counterexample shows |
|---|---|
| `ChunkIsARange`, WorkChunks | after 2^32 nonces of one extranonce2 in one job a chunk ends before it begins, and miners leave it at once (CServer.h:186) |
| `BestTracksReports`, WorkChunks | of two sessions on one extranonce2 the one that reports last overwrites a better distance (CServer.cpp:392) |
| `PoolHoldsOneDescriptor`, Sessions | each reconnection keeps the descriptor of the one before (CServer.cpp:736); in the end there is none left for sessions or the pool |
| `NoMissedBlock` with `Strict`, NonceLoop | hashnet.cpp:402 passes over a block whose distance equals an earlier one; CMiner.cpp:384 does not |
| `WholeChunkHashed`, NonceLoop | the last nonce of a chunk is counted as checked and never hashed: `nonce_end` is inclusive at CServer.h:190 and exclusive at hashnet.cpp:387 |
| `CleanJobIsTaken`, PoolLink | a clean job that shares a recv with another message, or is cut, is lost (CServer.cpp:114-120) |
| `FailedIsNotConnected`, PoolLink | a socket whose `connect` failed passes `POOL_Connected`; the next read ends the process (CServer.cpp:743-786) |
| `SubmissionIsALine`, PoolLink | `mining.submit` is sent without a newline (CServer.cpp:368) |
| `SilentPlaceIsFreed`, Sessions | a pool that does not answer a subscription or a submission holds the server in recv (CServer.cpp:212, 370): no session is swept any more and no connection accepted |
| `WaitIsOver`, MinerSession | the same for a miner that waits for work: neither work nor the timeout comes (CServer.cpp:370) |
| `BestOfBothTasks`, ESP32Tasks | the task with the lower distance stores last (ESP32.ino:550-551) |

Two more, met while modelling, have no formula. The server's `work` message has
no "name", so a miner of version 1.3 would take every job for one of an unknown
kind and report it as completed at once, were it not for the version check. A
`hashnet.cpp` whose `connect` fails leaves its descriptor open
(hashnet.cpp:211): after about an hour and a half without a server it has none left
and tries in vain; `EveryMinerWorks` takes the server to be back before.

## 6. Fairness and proofs

*Fairness.* `Sessions`: weak fairness of the steps `Tick` takes by itself (main's
endless loop) and of the clock. The end of a wait for the pool, `Subscribed` and `Submitted`, is
not among them: nothing makes the pool answer. So `PlaceIsReclaimed` and
`BacklogMoves` have that as their hypothesis, `[]<> ~ AwaitsPool`, and the first without it,
`SilentPlaceIsFreed`, is refuted (5). `PoolLink`: weak fairness of the pool block,
which every `Tick` runs while it does not wait; none of the answers.
`HashNet`: the server visits every session in each `Tick`, so what it can do for a
session it does, the sweep included; a miner's process runs, connects and reads
what is there. Nothing is assumed of failures or of the reports, nor of the pool,
whose silence `EveryMinerWorks` survives for two reasons: while the server waits for the
answer to a subscription it has no job (`~ Ready`: the job is cleared at
CServer.cpp:198, before the recv of line 212), and the recv of line 370 is not
reached with miners of `hashnet.cpp`, whose `found` is a parse error (5). With
miners that end that message properly a silent pool would hold up everybody, as in
`Sessions`.
`MinerSession`: of the miner's recv, which returns once data is there, of the clock, and
strong fairness of the server's visits to the session: waits for the pool may come
between two of them again and again, a finite number in each round of `Tick`, and a visit
is made in every round. None of the pool's answer (`WaitingEnds` has
`[]<> ~ stalled` as its hypothesis), of the miner going on or of the pool having a job. `NonceLoop`: of the loop. `ESP32Tasks`: of each task,
which has a core for itself, and of `loop()`: of the DUCOSHA1 search, the report, the restart and
the update. That `xTaskCreatePinnedToCore` succeeds, whose result the code ignores
(ESP32.ino:737-755), is the hypothesis of `ChunkIsReported`. `WorkChunks` and `Statistics` need none.

*Proved*, for every value of the constants, from the named assumptions on the
constants in the modules:

| Theorem | Statement |
|---|---|
| `WorkChunksProofs!Invariance` | `Spec => []IndInv` |
| `TypeCorrect`, `ChunksAreDisjoint`, `NoNonceIsSkipped`, `LiveWorkIsDisjoint` | the properties of `work_chunks` |
| `WorkChunksProofs!Refinement` | `Spec => ImplementsLedger`, assuming `Fits` (no more nonces are handed out than there are) |
| `WorkChunksProofs!Exclusivity` | hence no pair is searched by two sessions at once, assuming `Fits` |
| `HashNetProofs!SystemInvariance`, `SystemTypeCorrect`, `AllInStep` | `HashNetSpec => []StepInv`, `[]HashNetTypeOK`, `[]InStep`, for any number of miners, sessions, messages and failures |
| `HashNetProofs!SystemRefinement` | `HashNetSpec => ImplementsLedger`, assuming `Fits` |
| `HashNetProofs!NoPairTwice` | `HashNetSpec => []SearchedOnce`, assuming `Fits` |
| `HashNetProofs!NothingHandedIsLost` | `HashNetSpec => []HandedIsSearched`: before the first failure, every nonce handed out, but the last of its chunk (see 5), was searched or lies before a miner |
| `SessionsProofs!SocketsAreOwned`, `ThrottleHoldsAlways`, `SweptWhenAccepting`, `ClosingHasAReason`, `SessionsTypeCorrect` | the safety properties of `sessions`, for any size of the table, number of descriptors and set of addresses |
| `NonceLoopProofs!LoopInvariance`, `NoBlockIsMissed`, `ScoreIsBest`, `LoopTypeCorrect` | `Spec => []LoopInv` and what follows from it, assuming equal distances are compared (the `>=` of `CMiner.cpp`) |
| `NonceLoopProofs!ValidIsNumeric`, `DistanceIsMonotonic`, `TargetIsItsNbits` | the properties of `hash_checks`: `checkValid` is the comparison of the numbers, a greater distance is a smaller number, a target is the value of its nbits; for any base, length of number and largest exponent |
| `PoolLinkProofs!JobIsOfThisConnection`, `JobsOnlyMoveForward`, `LinkInvariance` | the properties of `pool_link`, for any number of connections, jobs and messages in flight (at least one) |
| `MinerSessionProofs!NothingIsHeldBack`, `LinesAreIntact`, `WorkIsAlwaysAwaited`, `SessionsEndForAReason`, `TypeCorrect`, from `Invariance` | the safety properties of `miner_session`, for any length of the stream, wherever TCP cuts it |
| `ESP32TasksProofs!NoTaskOutlives`, `HalvesAreTheChunk`, `TypeCorrect` | the safety properties of `esp32_tasks`, for any nonce space and distances |
| `StatisticsProofs!WhatIsPublishedFits`, `StatisticsTypeCorrect`, from `StatisticsInvariance` | the properties of `statistics`, for any number of sessions, chunks and entries |

The argument for the chunks. Neither disjointness is inductive by itself: a
stored `lastEndNonce` could lie inside a chunk handed out. `IndInv` adds that
the chunks of an extranonce2, in terms of the unbounded count `issued`, lie one after the other below
the count (`ChunkOrderInv`), that up to the wrap the uint32 values equal the
counted ones (`ChunkNoncesInv`), that a session at work on the current job holds a chunk
of the ledger (`HeldInv`), and that job numbers only grow (`JobsInv`), so that
an old chunk is never mistaken for one of the new job. The lemma
`NextWorkChunk` is the arithmetic of one chunk modulo `NonceSpace`;
`DistributeStep` does the one hard action, `Forget` the clean job and the lost
pool. The refinement uses `IndInv` before and after a step: distribution maps to
`Issue`, the end of a session or of a chunk to `Release` or a stutter, a clean
job to `Reset`.

The argument for the whole system. That miner and session agree is far from
inductive: it rests on whose turn it is. `StepInv` says of each session that a
message after which the server answers is the last one under way, and that each
message is about the chunk on record (`SessionInv`); of each connected miner
that either the server has its turn, or work is under way, or the miner searches the chunk on
record and has sent nothing but `stats`, or its last word is under way
(`TurnInv`); of a miner that lost its session only that what it searches was
work once (`MinerInv`); and that no two miners share a session (`ConnInv`). So
a `completed` can be about nothing but the chunk on record, which the server does not
compare. Nor can a `stats` or `completed` reach a session that holds no extranonce2, which the server would
not notice either (CServer.cpp:392, 399): `Report` and `Complete` of `WorkChunks` presuppose it, and
`InStep` says that what arrives satisfies it. A step has a lemma each; a miner or session a step does not touch is
covered by `MinerKeeps` and `SessionKeeps`, a miner that is cut off by
`MinerIsCutOff`.

That no pair is searched twice adds `HandedInv`: what was searched, or lies before
a miner, is of a job the server had and, if that is the current one, was handed
out. A turn of the nonce loop moves a pair from before a miner to the searched ones
(`Searching`); a new chunk goes to a miner that has nothing before it and is
disjoint from everything handed out (`Giving`, `NewWork`, which takes it from the
ledger's `Issue`); a new job, the loss of the pool and a restart of the server make
all of it a matter of an earlier job (`JobsPass`). The refinement maps
`ServerRestart` to `Reset` and takes every other step from `WorkChunksProofs`.

That nothing handed out is lost holds only until something goes wrong, and is proved for
the states before that. `CalmInv` says what those have in common: every live session
has the miner that opened it, no miner holds a socket the server has closed,
and no `found` is under way that would be misread. Work that the server sends then
reaches a miner that waits and has no other message (`WorkIsCovered`): a session
that completes its chunk has a miner that waits (`CompletedMinerWaits`), and so has
one that holds none, by `StepInv`. What such a miner has before it is handed and not
yet searched; a turn of its loop only moves one nonce to the searched ones.
`DeliveryInv` is inductive because a failure counted ends the claim.

The argument for the sessions. The three invariants are inductive together with
their types, once `SweptBeforeAccept` is strengthened to the phases
between the read sweep and the accept block, the wait for the answer to a
subscription among them (`SweptInv`), and once the answer to a submission is known to belong to a command not
yet done (`SubmittingInv`). All closings are one
lemma, `CloseKeepsOwners`: what is closed belonged to one session of the table,
so no other session, nor the pool, loses its descriptor. `AdmitStep` and `PoolStep` use that the
descriptor they get was free.

The argument for the ESP32. `FlagsInv` says that a flag is set by the end of its
task and by nothing else while `loop` waits; `ProgressInv` relates the nonces each task has hashed to its place
and its bounds. The lemma `MiddleIsInside` is the uint32 arithmetic of the middle, which
lies within a chunk that does not wrap.

The argument for the search. `LoopInv` says that every block hashed so far was
sent, that there is none yet when a block ends the search, and that the best
distance is that of a hash compared before. A DSHA256 hash that is not compared has a smaller distance than such a hash `n`; `n` is not a block, so
neither is the new one, because fewer zero bytes mean a greater number (lemma
`MoreZerosIsValid`).

The argument for the arithmetic of the search. The functions of `HashChecks` and
the values they are compared with are recursions over positions. What a recursion
computes is shown by its least counterexample: a set of naturals at which it
would fail has a least element (`LeastNatural`), and the step before that one refutes it. So
`RecursionIsHorner` replaces the recursive value by equations between
neighbouring positions, and `HornerAgree` shows that the equations have one solution. Two
numbers are compared at the first byte at which they differ
(`FirstDifferenceDecides`): what follows that byte is less than one unit of its place. For the
target, `byteIndex` is a uint32 subtraction read as an int; the assumption on
`WordSize` says that the shifts of the exponents up to `MaxExponent` do not wrap. It
includes `MaxExponent >= 1`: the proof showed that with 0 the subtraction could
come out within the array by accident. The real values, 255, 32 bytes and 2^32, satisfy it.

The argument for the miner's session. The stream is never looked at as a whole by
the code; the invariant does. It divides what the miner sent at positions
h <= p <= m <= q: up to h the lines handled, to p those framed and not yet handled, to
m what the buffer keeps, and from there what is under way (`StreamInv`). Framing goes on where
it stopped because the lines of a stream are those of its first part
followed by those of what remains and the rest (`LinesConcat`), wherever the cut is, also between
carriage return and line feed. What remains has no line end, so it is a line
that has not ended: three tokens at most, and the limit at which
the code ends the session is never reached (`MaxBuffer >= 3`). That no chunk is
replaced under a miner at work rests on its having at most one `completed`
unanswered (`ExchangeInv`, over all that is sent and not yet handled).

The argument for the statistics. The sums over the sessions are folds. `FoldExists`
and `AnyElementFirst` show by a smallest failing set that they do not depend on the
order, so that a report, a session that leaves or one more chunk changes one term
(`AcceptCounts`, `LeaveCounts`, `CompletedCounts`). Chunks done in total are those of the
sessions plus those of sessions that left; a session that is absent has done
none. The entries are a period apart although each is stamped up to a second after
the decision to push it: `ClockKeepsAhead` says that the reading of the clock exceeds
the n-th entry before the last by at least n periods, so the slack does not add up.

The argument for the pool link. That jobs move forward is not inductive: a
message still on its way could carry an old job. `StreamInv` adds that the
notifications in the stream are in increasing order, all later than the current job and
none later than the pool's last, and `SubscribedInv` that a socket from which a job
can come has been subscribed on, and that there is no job while the answer to
the subscription is awaited. Whatever one recv takes off
the stream, the order stays (`ReceivedKeepsOrder`); a job taken is the first of the
stream, so the rest come after it (`TakeJob`); a new connection starts with
a job cleared and at most one message (`ClearedLinkInv`).

*Assumptions on the constants* are those the code justifies, each named in the
module that declares the constant. Those that a proof needs beyond types: the limit of the buffer
holds an unfinished line (`MaxBuffer >= 3`), the word holds the shifts of the
exponents (above), there is some extranonce2 and finitely many of them, the clock's bound
allows at least one period (`MaxTime >= Period`). `Fits` is a hypothesis of
theorems rather than an assumption: the run `work_chunks` goes past it, and section 5
says what happens there.

*Only model-checked*: all liveness (`PlaceIsReclaimed`, `BacklogMoves`,
`WaitingEnds`, `ChunkIsReported`, `EveryMinerWorks`), which needs fairness and ENABLED, beyond the proof
system; and the formulas of section 5, which are false. Every safety property of a
passing run is a theorem. The library's induction theorems take an operator as their
parameter and cannot be instantiated, hence the least counterexamples and smallest failing sets
above.

## 7. Not modelled

* SHA-256, Merkle root and header construction, hex conversion: functions of
  byte strings, abstracted to an arbitrary hash.
* The ESP32's configuration dialogue on the serial line and its LED; the data race
  inside Arduino's `String` and `WiFiClient` when both tasks use them.
* Logging, the text of `stats.json` and its reading by the dashboard, which may find
  the file half written; the download in the release script.
* `POOL_Disconnect`, `Increment`/`DecrementExtranonce2`, `DisconnectAll`,
  `GetClientByIdent`: nothing calls them.
* What undefined behaviour makes of the process when SIGINT interrupts a change of
  `m_vpSessions` (main.cpp:14-20): `Stop` of `Sessions` closes any of the sessions, and nothing
  follows it.
* The descriptors of a miner (see the end of 5).

## 8. Plan

Done, in this order: the distribution of work with its ledger and proofs;
the search and its proof; sessions; the pool link and its proof; framing; the
ESP32; the whole system with its proofs; statistics; the descriptors of the pool
and the proofs about sessions and the ESP32; the proofs about framing, statistics,
the arithmetic of the search and the delivery of work.

What is left, by importance:

1. An abstract specification of a link that delivers jobs in order, and
   `PoolLink` shown to implement it; one of a stream of lines, and `MinerSession`
   shown to implement it (its invariant has the mapping already).
2. The descriptors of a miner that cannot connect, and the server's absence for
   longer than they last.

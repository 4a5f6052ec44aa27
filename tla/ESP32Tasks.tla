------------------------------ MODULE ESP32Tasks ------------------------------
(***************************************************************************)
(* The ESP32 miner.  setup() connects, loop() receives work.  For a DSHA256   *)
(* job it starts MiningTask once on each core and waits for both; a DUCOSHA1  *)
(* job it searches itself; work of another version of the server makes it    *)
(* update its firmware.  Whatever goes wrong ends in a restart of the chip.   *)
(*                                                                         *)
(* The tasks share iLastZeroBitsDistance and the connection without a lock;  *)
(* each task reads and writes them in separate steps.  A hash is abstracted  *)
(* to its distance.                                                        *)
(***************************************************************************)
EXTENDS Integers

CONSTANTS
    NonceSpace,     \* 2^32 in the code: nonces are uint32_t
    MaxDistance,    \* bound: the distance of a hash
    TargetDistance, \* the zero bytes of the target
    MaxWorks        \* bound: chunks received

ASSUME ESP32Assumption ==
    /\ NonceSpace \in Nat \ {0}
    /\ MaxDistance \in Nat
    /\ TargetDistance \in Nat
    /\ MaxWorks \in Nat

VARIABLES
    loop,           \* "setup", or in loop(): "receive", "wait" in the inner
                    \* while, "search" in the DUCOSHA1 loop, "update" in OTA
    upToDate,       \* strVersion is the version of the server
    shaNonce,       \* uiNonce of the DUCOSHA1 loop
    works,          \* number of chunks received
    connected,      \* client.connected()
    nonce_start,
    nonce_end,
    iLastZeroBitsDistance,
    bTaskCompleted, \* bTask0Completed and bTask1Completed
    pc,             \* a task: "none", "created", "hash", "compare", "store", "check",
                    \* or "failed" when there is no memory for it
    uiNonce,
    uiEndAt,
    leadingZeroBits,
    distance,       \* the distance of each nonce's hash
    hashed          \* history: the nonces hashed by each task for this chunk

loopVars == <<loop, works, nonce_start, nonce_end>>
device == <<upToDate, shaNonce>>
taskVars == <<uiNonce, uiEndAt, leadingZeroBits>>
vars == <<loopVars, device, connected, iLastZeroBitsDistance, bTaskCompleted, pc, taskVars,
          distance, hashed>>

Tasks == {0, 1}
Nonces == 0 .. NonceSpace - 1
Distances == 0 .. MaxDistance

TypeOK ==
    /\ loop \in {"setup", "receive", "wait", "search", "update"}
    /\ upToDate \in BOOLEAN
    /\ shaNonce \in Nonces
    /\ works \in 0 .. MaxWorks
    /\ connected \in BOOLEAN
    /\ nonce_start \in Nonces /\ nonce_end \in Nonces
    /\ iLastZeroBitsDistance \in Distances
    /\ bTaskCompleted \in [Tasks -> BOOLEAN]
    /\ pc \in [Tasks -> {"none", "created", "hash", "compare", "store", "check", "failed"}]
    /\ uiNonce \in [Tasks -> Nonces]
    /\ uiEndAt \in [Tasks -> Nonces]
    /\ leadingZeroBits \in [Tasks -> Distances]
    /\ distance \in [Nonces -> Distances]
    /\ hashed \in [Tasks -> SUBSET Nonces]

Init ==
    /\ loop = "setup"
    /\ works = 0
    /\ connected = FALSE
    /\ upToDate \in BOOLEAN
    /\ shaNonce = 0
    /\ nonce_start = 0 /\ nonce_end = 0
    /\ iLastZeroBitsDistance = 0
    /\ bTaskCompleted = [t \in Tasks |-> FALSE]
    /\ pc = [t \in Tasks |-> "none"]
    /\ uiNonce = [t \in Tasks |-> 0]
    /\ uiEndAt = [t \in Tasks |-> 0]
    /\ leadingZeroBits = [t \in Tasks |-> 0]
    /\ distance \in [Nonces -> Distances]
    /\ hashed = [t \in Tasks |-> {}]

-------------------------------------------------------------------------------
(***************************************************************************)
(* loop().                                                                 *)
(***************************************************************************)

\* WiFi.begin and client.connect, repeated until they succeed.
Setup ==
    /\ loop = "setup"
    /\ loop' = "receive"
    /\ connected' = TRUE
    /\ UNCHANGED <<works, nonce_start, nonce_end, device, iLastZeroBitsDistance, bTaskCompleted,
                   pc, taskVars, distance, hashed>>

\* A line arrives that holds a "work" message.
Arrives ==
    /\ loop = "receive" /\ connected
    /\ works < MaxWorks
    /\ works' = works + 1

\* xTaskCreatePinnedToCore, whose result is ignored, creates a task or not.
CreateTasks == pc' \in [Tasks -> {"created", "failed"}]

\* Mutant: "Clear out the work" leaves the flags as they are.
ReceiveFlagsKept ==
    /\ Arrives /\ upToDate
    /\ nonce_start' \in Nonces /\ nonce_end' \in Nonces
    /\ iLastZeroBitsDistance' = 0
    /\ CreateTasks
    /\ hashed' = [t \in Tasks |-> {}]
    /\ loop' = "wait"
    /\ UNCHANGED <<device, connected, bTaskCompleted, taskVars, distance>>

\* DSHA256: "Clear out the work", then both tasks are created.
Receive ==
    /\ Arrives /\ upToDate
    /\ nonce_start' \in Nonces /\ nonce_end' \in Nonces
    /\ bTaskCompleted' = [t \in Tasks |-> FALSE]
    /\ iLastZeroBitsDistance' = 0
    /\ CreateTasks
    /\ hashed' = [t \in Tasks |-> {}]
    /\ loop' = "wait"
    /\ UNCHANGED <<device, connected, taskVars, distance>>

\* DUCOSHA1: the search is part of loop.
ReceiveDUCOSHA1 ==
    /\ Arrives /\ upToDate
    /\ nonce_start' \in Nonces /\ nonce_end' \in Nonces
    /\ shaNonce' = nonce_start'
    /\ hashed' = [t \in Tasks |-> {}]
    /\ loop' = "search"
    /\ UNCHANGED <<upToDate, connected, iLastZeroBitsDistance, bTaskCompleted, pc, taskVars,
                   distance>>

\* BLAKE3 and unknown names: "completed" at once, with the nonces of before.
ReceiveOther ==
    /\ Arrives /\ upToDate
    /\ UNCHANGED <<loop, nonce_start, nonce_end, device, connected, iLastZeroBitsDistance,
                   bTaskCompleted, pc, taskVars, distance, hashed>>

\* Version mismatch: client.stop().
ReceiveMismatch ==
    /\ Arrives /\ ~ upToDate
    /\ connected' = FALSE
    /\ loop' = "update"
    /\ UNCHANGED <<nonce_start, nonce_end, device, iLastZeroBitsDistance, bTaskCompleted, pc,
                   taskVars, distance, hashed>>

\* A nonce of the DUCOSHA1 loop that is not the one sought.
SearchOn ==
    /\ loop = "search"
    /\ shaNonce < nonce_end
    /\ shaNonce' = shaNonce + 1
    /\ UNCHANGED <<loopVars, upToDate, connected, iLastZeroBitsDistance, bTaskCompleted, pc,
                   taskVars, distance, hashed>>

\* The DUCOSHA1 loop finds its nonce, sends "found" and returns from loop, or
\* comes to its end and goes on to "completed".
SearchEnds ==
    /\ loop = "search"
    /\ loop' = "receive"
    /\ shaNonce' = 0
    /\ UNCHANGED <<works, nonce_start, nonce_end, upToDate, connected, iLastZeroBitsDistance,
                   bTaskCompleted, pc, taskVars, distance, hashed>>

\* Both tasks are done: "completed" is printed to the client, which drops it
\* when a task has stopped the connection.
Report ==
    /\ loop = "wait"
    /\ \A t \in Tasks : bTaskCompleted[t]
    /\ loop' = "receive"
    /\ UNCHANGED <<works, connected, nonce_start, nonce_end, device, iLastZeroBitsDistance,
                   bTaskCompleted, pc, taskVars, distance, hashed>>

\* ESP.restart: nothing in memory is left.
Boot ==
    /\ loop' = "setup"
    /\ connected' = FALSE
    /\ nonce_start' = 0 /\ nonce_end' = 0
    /\ shaNonce' = 0
    /\ iLastZeroBitsDistance' = 0
    /\ bTaskCompleted' = [t \in Tasks |-> FALSE]
    /\ pc' = [t \in Tasks |-> "none"]
    /\ uiNonce' = [t \in Tasks |-> 0]
    /\ uiEndAt' = [t \in Tasks |-> 0]
    /\ leadingZeroBits' = [t \in Tasks |-> 0]
    /\ hashed' = [t \in Tasks |-> {}]
    /\ UNCHANGED distance

\* Without WiFi or without a connection loop() restarts the chip.
Restart ==
    /\ loop = "receive" /\ ~ connected
    /\ Boot
    /\ UNCHANGED <<works, upToDate>>

\* nbits that is none (exit), or nonces that are no numbers (std::stoull throws):
\* the chip restarts.
ReceiveUnreadable ==
    /\ Arrives /\ upToDate
    /\ Boot
    /\ UNCHANGED upToDate

\* OTA fails, or installs the latest release, which need not be the server's
\* version; the chip restarts in either case.
Update ==
    /\ loop = "update"
    /\ Boot
    /\ upToDate' \in BOOLEAN
    /\ UNCHANGED works

\* The server, or the network, ends the connection.
Disconnected ==
    /\ connected
    /\ connected' = FALSE
    /\ UNCHANGED <<loopVars, device, iLastZeroBitsDistance, bTaskCompleted, pc, taskVars, distance, hashed>>

-------------------------------------------------------------------------------
(***************************************************************************)
(* MiningTask.                                                             *)
(***************************************************************************)

\* Mutant: the sum is computed in 64 bits.
MiddleWide == nonce_start + ((nonce_end - nonce_start) % NonceSpace) \div 2

\* nonce_start + (nonce_end - nonce_start) / 2, in uint32 arithmetic.
Middle == (nonce_start + ((nonce_end - nonce_start) % NonceSpace) \div 2) % NonceSpace

\* Mutant: the second half begins one nonce late.
BeginApart(t) ==
    /\ pc[t] = "created"
    /\ bTaskCompleted' = [bTaskCompleted EXCEPT ![t] = FALSE]
    /\ uiNonce' = [uiNonce EXCEPT ![t] = IF t = 0 THEN nonce_start
                                         ELSE (Middle + 1) % NonceSpace]
    /\ uiEndAt' = [uiEndAt EXCEPT ![t] = IF t = 0 THEN Middle ELSE nonce_end]
    /\ pc' = [pc EXCEPT ![t] = "hash"]
    /\ UNCHANGED <<loopVars, device, connected, iLastZeroBitsDistance, leadingZeroBits, distance, hashed>>

Begin(t) ==
    /\ pc[t] = "created"
    /\ bTaskCompleted' = [bTaskCompleted EXCEPT ![t] = FALSE]
    /\ uiNonce' = [uiNonce EXCEPT ![t] = IF t = 0 THEN nonce_start ELSE Middle]
    /\ uiEndAt' = [uiEndAt EXCEPT ![t] = IF t = 0 THEN Middle ELSE nonce_end]
    /\ pc' = [pc EXCEPT ![t] = "hash"]
    /\ UNCHANGED <<loopVars, device, connected, iLastZeroBitsDistance, leadingZeroBits, distance, hashed>>

Hash(t) ==
    /\ pc[t] = "hash"
    /\ uiNonce[t] < uiEndAt[t]
    /\ leadingZeroBits' = [leadingZeroBits EXCEPT ![t] = distance[uiNonce[t]]]
    /\ hashed' = [hashed EXCEPT ![t] = @ \cup {uiNonce[t]}]
    /\ pc' = [pc EXCEPT ![t] = "compare"]
    /\ UNCHANGED <<loopVars, device, connected, iLastZeroBitsDistance, bTaskCompleted, uiNonce, uiEndAt,
                   distance>>

\* The shared distance is read here and written in Store.
Compare(t) ==
    /\ pc[t] = "compare"
    /\ IF leadingZeroBits[t] > iLastZeroBitsDistance
       THEN pc' = [pc EXCEPT ![t] = "store"] /\ UNCHANGED uiNonce
       ELSE /\ pc' = [pc EXCEPT ![t] = "hash"]
            /\ uiNonce' = [uiNonce EXCEPT ![t] = @ + 1]
    /\ UNCHANGED <<loopVars, device, connected, iLastZeroBitsDistance, bTaskCompleted, uiEndAt,
                   leadingZeroBits, distance, hashed>>

Store(t) ==
    /\ pc[t] = "store"
    /\ iLastZeroBitsDistance' = leadingZeroBits[t]
    /\ pc' = [pc EXCEPT ![t] = "check"]
    /\ UNCHANGED <<loopVars, device, connected, bTaskCompleted, taskVars, distance, hashed>>

\* checkValid: more zero bytes than the target's is a block, fewer is none.
\* A block is sent and the connection stopped; the search goes on.
Check(t) ==
    /\ pc[t] = "check"
    /\ \/ leadingZeroBits[t] >= TargetDistance /\ connected' = FALSE
       \/ leadingZeroBits[t] <= TargetDistance /\ UNCHANGED connected
    /\ pc' = [pc EXCEPT ![t] = "hash"]
    /\ uiNonce' = [uiNonce EXCEPT ![t] = @ + 1]
    /\ UNCHANGED <<loopVars, device, iLastZeroBitsDistance, bTaskCompleted, uiEndAt, leadingZeroBits,
                   distance, hashed>>

\* Mutant: both tasks set the flag of the first.
EndFirstFlag(t) ==
    /\ pc[t] = "hash"
    /\ uiNonce[t] >= uiEndAt[t]
    /\ bTaskCompleted' = [bTaskCompleted EXCEPT ![0] = TRUE]
    /\ pc' = [pc EXCEPT ![t] = "none"]
    /\ UNCHANGED <<loopVars, device, connected, iLastZeroBitsDistance, taskVars, distance, hashed>>

End(t) ==
    /\ pc[t] = "hash"
    /\ uiNonce[t] >= uiEndAt[t]
    /\ bTaskCompleted' = [bTaskCompleted EXCEPT ![t] = TRUE]
    /\ pc' = [pc EXCEPT ![t] = "none"]
    /\ UNCHANGED <<loopVars, device, connected, iLastZeroBitsDistance, taskVars, distance, hashed>>

MiningTask(t) == Begin(t) \/ Hash(t) \/ Compare(t) \/ Store(t) \/ Check(t) \/ End(t)

Next ==
    \/ Setup \/ Receive \/ ReceiveDUCOSHA1 \/ ReceiveOther \/ ReceiveMismatch
    \/ ReceiveUnreadable \/ SearchOn \/ SearchEnds \/ Report \/ Restart \/ Update \/ Disconnected
    \/ \E t \in Tasks : MiningTask(t)

\* Each task has a core; loop() runs on one of them at the same priority.
Spec == Init /\ [][Next]_vars
        /\ \A t \in Tasks : WF_vars(MiningTask(t))
        /\ WF_vars(SearchOn) /\ WF_vars(SearchEnds /\ shaNonce >= nonce_end)
        /\ WF_vars(Report) /\ WF_vars(Restart) /\ WF_vars(Update)

-------------------------------------------------------------------------------
(***************************************************************************)
(* Properties.                                                             *)
(***************************************************************************)

BothDone == loop = "wait" /\ \A t \in Tasks : bTaskCompleted[t]

\* The two tasks hash every nonce of the chunk once: their halves neither
\* overlap nor leave a gap, for every chunk that does not wrap.
HalvesCover ==
    nonce_start <= nonce_end =>
        /\ hashed[0] \cap hashed[1] = {}
        /\ BothDone => hashed[0] \cup hashed[1] = nonce_start .. nonce_end - 1

\* No task runs unless loop() waits for it: the flags of one
\* chunk are never taken for those of the next, and a task never reads the
\* nonces or the header of a chunk that is not its own.
NoTaskOutlivesItsChunk == loop # "wait" => \A t \in Tasks : pc[t] = "none"

\* Every search and every update ends, and the miner is ready for work again
\* or connects anew, as long as both tasks could be created each time: loop waits
\* forever for one that was not.
ChunkIsReported ==
    [](\A t \in Tasks : pc[t] # "failed") =>
        (loop \in {"wait", "search", "update"} ~> loop \in {"receive", "setup"})

\* README.md:16: "Each miner tries to find the best "score"".  When both tasks
\* are done, the distance to report is the best of the nonces hashed.
BestOfBothTasks ==
    BothDone => \A n \in hashed[0] \cup hashed[1] : distance[n] <= iLastZeroBitsDistance

-------------------------------------------------------------------------------
(***************************************************************************)
(* The inductive invariant behind the theorems of ESP32TasksProofs.         *)
(***************************************************************************)

\* The part of a chunk that is a task's.
From(t) == IF t = 0 THEN nonce_start ELSE Middle
Until(t) == IF t = 0 THEN Middle ELSE nonce_end

\* A flag is set by the end of its task and by nothing else.
FlagsInv ==
    /\ loop # "wait" => \A t \in Tasks : pc[t] = "none"
    /\ loop = "wait" => \A t \in Tasks : bTaskCompleted[t] <=> pc[t] = "none"

\* A task that runs has hashed its part up to its nonce, a task that has ended
\* all of it.
Progress(t) ==
    /\ hashed[t] \subseteq From(t) .. Until(t) - 1
    /\ pc[t] = "created" => hashed[t] = {}
    /\ pc[t] \in {"hash", "compare", "store", "check"} =>
        uiEndAt[t] = Until(t) /\ uiNonce[t] \in From(t) .. Until(t)
    /\ pc[t] = "hash" => hashed[t] = From(t) .. uiNonce[t] - 1
    /\ pc[t] \in {"compare", "store", "check"} => hashed[t] = From(t) .. uiNonce[t]
    /\ loop = "wait" /\ pc[t] = "none" => hashed[t] = From(t) .. Until(t) - 1

ProgressInv ==
    /\ \A t \in Tasks : pc[t] \in {"compare", "store", "check"} => uiNonce[t] < uiEndAt[t]
    /\ nonce_start <= nonce_end => \A t \in Tasks : Progress(t)

\* Inductive: it implies HalvesCover and NoTaskOutlivesItsChunk.
IndInv == TypeOK /\ FlagsInv /\ ProgressInv
===============================================================================

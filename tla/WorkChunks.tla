------------------------------ MODULE WorkChunks ------------------------------
(***************************************************************************)
(* The server's distribution of work: CServer::tCurrentJob (CServer.h), the *)
(* work fields of CClient and the parts of CServer::Tick that hand out, take *)
(* back and reset chunks of nonces.  A miner's chunk is an extranonce2 and a *)
(* range of the uint32 nonce; successive chunks of one extranonce2 are cut   *)
(* one after the other from m_mExtranonce2LastEndNonce, whose uint32          *)
(* arithmetic wraps at NonceSpace.                                           *)
(*                                                                         *)
(* A server visit to a session handles its pending commands in order and    *)
(* then the distribution block.  The block does nothing while the session   *)
(* holds an extranonce2, so a visit that finds several commands equals       *)
(* several visits with one command each: Report, Complete and HandOut.       *)
(***************************************************************************)
EXTENDS Integers, FiniteSets

CONSTANTS
    Clients,              \* sessions of the server (CClient objects)
    Extranonce2s,         \* the strings GenerateRandomExtranonce2 can return
    None,                 \* the empty extranonce2 of an idle session
    NonceSpace,           \* 2^32 in the code
    IterationsPerMiner,   \* ITERATIONS_PER_MINER
    DifficultyStep,       \* the 100000 of CClient::IncreaseDifficulty
    IncreaseThreshold,    \* DIFFICULTY_INCREASE_THRESHOLD, seconds
    ChunkTimes,           \* the seconds a chunk may take
    Distances,            \* the zero-byte counts a miner may report
    MaxJobs,              \* bound: clean jobs received
    MaxIssued,            \* bound: nonces handed out per extranonce2 and job
    MaxDifficulty         \* bound: a session's difficulty

ASSUME ConstantsAssumption ==
    /\ None \notin Extranonce2s
    /\ NonceSpace \in Nat \ {0}
    /\ IterationsPerMiner \in Nat \ {0}
    /\ DifficultyStep \in Nat
    /\ IncreaseThreshold \in Nat
    /\ ChunkTimes \subseteq Nat
    /\ Distances \subseteq Nat
    /\ 0 \in Distances
    /\ MaxJobs \in Nat
    /\ MaxIssued \in Nat
    /\ MaxDifficulty \in Nat
    /\ IterationsPerMiner + MaxDifficulty <= NonceSpace

VARIABLES
    jobId,            \* m_mMapping["job_id"]; NoJob after tCurrentJob::Clear
    totalJobs,        \* tStatistics::m_uiTotalJobs
    bestExtranonce2,  \* m_mBestExtranonce2; an absent entry is 0
    lastEndNonce,     \* m_mExtranonce2LastEndNonce; an absent entry is 0
    link,             \* a session is absent, live, or dead (socket -1) and unreaped
    extranonce2,      \* CClient::m_strExtranonce2
    startNonce,       \* CClient::m_uiStartNonce
    endNonce,         \* CClient::m_uiEndNonce
    jobID,            \* CClient::m_strJobID
    difficulty,       \* CClient::m_uiDifficulty
    score,            \* the miner's iLastZeroBitsDistance in its chunk
    issued,           \* history: nonces handed out per extranonce2 in this job
    handed            \* history: the chunks handed out in this job

jobVars     == <<jobId, totalJobs, bestExtranonce2, lastEndNonce>>
sessionVars == <<link, extranonce2, startNonce, endNonce, jobID, difficulty, score>>
history     == <<issued, handed>>
vars        == <<jobVars, sessionVars, history>>

NoJob == 0
Nonces == 0 .. NonceSpace - 1

\* m_mMapping["ready"] == "true": set with the job, removed by Clear.
Ready == jobId # NoJob

Chunk == [extranonce2 : Extranonce2s, from : Nat, size : Nat,
          startNonce : Nonces, endNonce : Nonces]

\* One invariant for the types of all variables.
TypeOK ==
    /\ jobId \in 0 .. MaxJobs
    /\ totalJobs \in 0 .. MaxJobs
    /\ bestExtranonce2 \in [Extranonce2s -> Distances]
    /\ lastEndNonce \in [Extranonce2s -> Nonces]
    /\ link \in [Clients -> {"absent", "live", "dead"}]
    /\ extranonce2 \in [Clients -> Extranonce2s \cup {None}]
    /\ startNonce \in [Clients -> Nonces]
    /\ endNonce \in [Clients -> Nonces]
    /\ jobID \in [Clients -> 0 .. MaxJobs]
    /\ difficulty \in [Clients -> 0 .. MaxDifficulty]
    /\ score \in [Clients -> Distances]
    /\ issued \in [Extranonce2s -> 0 .. MaxIssued]
    /\ handed \subseteq Chunk

-------------------------------------------------------------------------------
(***************************************************************************)
(* tCurrentJob.                                                            *)
(***************************************************************************)

\* Both branches of the dice: the random one can return any value, and the
\* values with a distance above 3 are values returned before.
GetNextExtranonce2 == Extranonce2s

\* Mutants: 64-bit arithmetic; endNonce taken for exclusive; the difficulty
\* left out of the stored successor.
GetNextWorkChunkWide(e, diff) ==
    LET start == lastEndNonce[e]
        end   == start + (IterationsPerMiner + diff) - 1
    IN  [start |-> start, end |-> end, next |-> (end + 1) % NonceSpace]

GetNextWorkChunkOverlapping(e, diff) ==
    LET start == lastEndNonce[e]
        end   == (start + (IterationsPerMiner + diff) - 1) % NonceSpace
    IN  [start |-> start, end |-> end, next |-> end]

GetNextWorkChunkPlain(e, diff) ==
    LET start == lastEndNonce[e]
        end   == (start + (IterationsPerMiner + diff) - 1) % NonceSpace
    IN  [start |-> start, end |-> end, next |-> (start + IterationsPerMiner) % NonceSpace]

\* uint32 arithmetic: both ends of the chunk and the stored successor wrap.
GetNextWorkChunk(e, diff) ==
    LET start == lastEndNonce[e]
        end   == (start + (IterationsPerMiner + diff) - 1) % NonceSpace
    IN  [start |-> start, end |-> end, next |-> (end + 1) % NonceSpace]

\* Mutant: the clean job forgets the best extranonce2 values only.
ForgetBestOnly ==
    /\ bestExtranonce2' = [e \in Extranonce2s |-> 0]
    /\ issued' = [e \in Extranonce2s |-> 0]
    /\ handed' = {}
    /\ UNCHANGED lastEndNonce

\* The maps forgotten by tCurrentJob::Clear and by a clean job.
ForgetChunks ==
    /\ bestExtranonce2' = [e \in Extranonce2s |-> 0]
    /\ lastEndNonce' = [e \in Extranonce2s |-> 0]
    /\ issued' = [e \in Extranonce2s |-> 0]
    /\ handed' = {}

\* The distribution block: session c, of difficulty diff, receives a chunk.
Distribute(c, diff) ==
    \E e \in GetNextExtranonce2 :
        LET chunk == GetNextWorkChunk(e, diff)
            size  == IterationsPerMiner + diff
        IN
        /\ issued[e] + size <= MaxIssued
        /\ lastEndNonce' = [lastEndNonce EXCEPT ![e] = chunk.next]
        /\ startNonce' = [startNonce EXCEPT ![c] = chunk.start]
        /\ endNonce' = [endNonce EXCEPT ![c] = chunk.end]
        /\ extranonce2' = [extranonce2 EXCEPT ![c] = e]
        /\ jobID' = [jobID EXCEPT ![c] = jobId]
        /\ score' = [score EXCEPT ![c] = 0]
        /\ handed' = handed \cup {[extranonce2 |-> e, from |-> issued[e], size |-> size,
                                   startNonce |-> chunk.start, endNonce |-> chunk.end]}
        /\ issued' = [issued EXCEPT ![e] = @ + size]

-------------------------------------------------------------------------------
Init ==
    /\ jobId = NoJob
    /\ totalJobs = 0
    /\ bestExtranonce2 = [e \in Extranonce2s |-> 0]
    /\ lastEndNonce = [e \in Extranonce2s |-> 0]
    /\ link = [c \in Clients |-> "absent"]
    /\ extranonce2 = [c \in Clients |-> None]
    /\ startNonce = [c \in Clients |-> 0]
    /\ endNonce = [c \in Clients |-> 0]
    /\ jobID = [c \in Clients |-> NoJob]
    /\ difficulty = [c \in Clients |-> 0]
    /\ score = [c \in Clients |-> 0]
    /\ issued = [e \in Extranonce2s |-> 0]
    /\ handed = {}

\* The accept block of Tick: a new CClient, as its constructor leaves it.
Accept(c) ==
    /\ link[c] = "absent"
    /\ link' = [link EXCEPT ![c] = "live"]
    /\ UNCHANGED <<jobVars, extranonce2, startNonce, endNonce, jobID, difficulty, score, history>>

\* DisconnectMiner, DisconnectIP: the socket is closed, the session and its
\* chunk stay in the table until the next sweep.
Disconnect(c) ==
    /\ link[c] = "live"
    /\ link' = [link EXCEPT ![c] = "dead"]
    /\ UNCHANGED <<jobVars, extranonce2, startNonce, endNonce, jobID, difficulty, score, history>>

\* The two sweeps at the head of Tick erase and delete the session.
Reap(c) ==
    /\ link[c] # "absent"
    /\ link' = [link EXCEPT ![c] = "absent"]
    /\ extranonce2' = [extranonce2 EXCEPT ![c] = None]
    /\ startNonce' = [startNonce EXCEPT ![c] = 0]
    /\ endNonce' = [endNonce EXCEPT ![c] = 0]
    /\ jobID' = [jobID EXCEPT ![c] = NoJob]
    /\ difficulty' = [difficulty EXCEPT ![c] = 0]
    /\ score' = [score EXCEPT ![c] = 0]
    /\ UNCHANGED <<jobVars, history>>

\* A "stats" command.  The server does not look whether the session holds an
\* extranonce2, but the miners send it from inside the nonce loop, and so it
\* does (InStep of HashNet, which has the miners); likewise for "completed".
\* d is the miner's best in the chunk so far.  Tick stores it whatever the
\* entry held before and whatever job it is for.
Report(c, d) ==
    /\ link[c] # "absent"
    /\ extranonce2[c] # None
    /\ d >= score[c]
    /\ score' = [score EXCEPT ![c] = d]
    /\ bestExtranonce2' = [bestExtranonce2 EXCEPT ![extranonce2[c]] = d]
    /\ UNCHANGED <<jobId, totalJobs, lastEndNonce, link, extranonce2, startNonce, endNonce,
                   jobID, difficulty, history>>

\* A "completed" command after `taken` seconds, and the distribution block
\* that follows it in the same visit.  A dead session is served as well.
Complete(c, taken) ==
    LET hop  == taken < IncreaseThreshold
        diff == IF hop THEN difficulty[c] + DifficultyStep ELSE difficulty[c]
    IN
    /\ link[c] # "absent"
    /\ extranonce2[c] # None
    /\ diff <= MaxDifficulty
    /\ difficulty' = [difficulty EXCEPT ![c] = diff]
    /\ IF Ready
       THEN Distribute(c, diff)
       ELSE /\ extranonce2' = [extranonce2 EXCEPT ![c] = None]
            /\ score' = [score EXCEPT ![c] = 0]
            /\ UNCHANGED <<lastEndNonce, startNonce, endNonce, jobID, history>>
    /\ UNCHANGED <<jobId, totalJobs, bestExtranonce2, link>>

\* The distribution block for an idle session without commands.
HandOut(c) ==
    /\ link[c] # "absent"
    /\ extranonce2[c] = None
    /\ Ready
    /\ Distribute(c, difficulty[c])
    /\ UNCHANGED <<jobId, totalJobs, bestExtranonce2, link, difficulty>>

\* A mining.notify with clean_jobs: nobody is interrupted, sessions keep the
\* chunk of the job before until they complete it.
NewCleanJob ==
    /\ totalJobs < MaxJobs
    /\ totalJobs' = totalJobs + 1
    /\ jobId' = totalJobs + 1
    /\ ForgetChunks
    /\ UNCHANGED sessionVars

\* Mutant: the maps are cleared, the job is not.
PoolLostJobKept ==
    /\ ForgetChunks
    /\ UNCHANGED <<jobId, totalJobs, sessionVars>>

\* The pool is found disconnected: tCurrentJob::Clear.
PoolLost ==
    /\ jobId' = NoJob
    /\ ForgetChunks
    /\ UNCHANGED <<totalJobs, sessionVars>>

Next ==
    \/ NewCleanJob
    \/ PoolLost
    \/ \E c \in Clients :
        \/ Accept(c)
        \/ Disconnect(c)
        \/ Reap(c)
        \/ \E d \in Distances : Report(c, d)
        \/ \E t \in ChunkTimes : Complete(c, t)
        \/ HandOut(c)

Spec == Init /\ [][Next]_vars

-------------------------------------------------------------------------------
(***************************************************************************)
(* Properties.                                                             *)
(***************************************************************************)

Range(start, end) == start .. end

\* The nonces of extranonce2 e have not wrapped in this job.
NotExhausted(e) == issued[e] <= NonceSpace

\* Two chunks of one job and extranonce2 share no nonce, as long as the
\* extranonce2 is not exhausted: GetNextWorkChunk's starts, ends and stored
\* successors fit together across sessions of different difficulty.
ChunksDisjoint ==
    \A a, b \in handed :
        (a.extranonce2 = b.extranonce2 /\ a # b /\ NotExhausted(a.extranonce2))
        => Range(a.startNonce, a.endNonce) \cap Range(b.startNonce, b.endNonce) = {}

\* No nonce is skipped between chunks: those below issued[e] were all handed
\* out in this job, starting from nonce 0 after each clean job.
NothingSkipped ==
    \A e \in Extranonce2s : NotExhausted(e) =>
        \A n \in 0 .. issued[e] - 1 :
            \E h \in handed : h.extranonce2 = e /\ n \in Range(h.startNonce, h.endNonce)

Works(c) == extranonce2[c] # None /\ jobID[c] = jobId

\* Two sessions at work on the same job and extranonce2 search disjoint
\* ranges, through disconnections, new sessions, completions and job changes.
LiveWorkDisjoint ==
    \A c, d \in Clients :
        (c # d /\ Works(c) /\ Works(d) /\ extranonce2[c] = extranonce2[d]
            /\ NotExhausted(extranonce2[c]))
        => Range(startNonce[c], endNonce[c]) \cap Range(startNonce[d], endNonce[d]) = {}

\* Refinement: the pairs handed out and the pairs each session searches.
pairsHanded ==
    UNION {{h.extranonce2} \X Range(h.startNonce, h.endNonce) : h \in handed}

pairsAssigned ==
    [c \in Clients |-> IF Works(c)
                       THEN {extranonce2[c]} \X Range(startNonce[c], endNonce[c])
                       ELSE {}]

Ledger == INSTANCE WorkLedger
    WITH Workers <- Clients, ledger <- pairsHanded, assigned <- pairsAssigned

\* Distribution implements the ledger while no extranonce2 is exhausted: a
\* pair is given out at most once per job and is held by one session.
ImplementsLedger == Ledger!Spec

\* CServer.h:172 promises the "next chunk of nonces"; the miners iterate from
\* nonce_start up to nonce_end.  A chunk's start is never after its end.
ChunkIsARange ==
    \A c \in Clients : extranonce2[c] # None => startNonce[c] <= endNonce[c]

\* CServer.cpp:141 clears the best extranonce2 values "for the job - as we've
\* got new job coming in".  An entry belongs to an extranonce2 handed out in
\* the current job.
BestIsFromCurrentJob ==
    \A e \in Extranonce2s : bestExtranonce2[e] > 0 => issued[e] > 0

\* README.md:18: the server "tracks the top-performing extranonce2 values".
\* What is recorded for an extranonce2 is at least the distance last reported
\* by each session that searches it in the current job.
BestTracksReports ==
    \A c \in Clients : Works(c) => bestExtranonce2[extranonce2[c]] >= score[c]

-------------------------------------------------------------------------------
(***************************************************************************)
(* The inductive invariant behind the theorems of WorkChunksProofs.         *)
(***************************************************************************)

\* Job numbers only grow: a session holds a number already used.
JobsInv ==
    /\ jobId <= totalJobs
    /\ \A c \in Clients : extranonce2[c] # None => jobID[c] \in 1 .. totalJobs

\* In the order they were handed out, the chunks of an extranonce2 lie one
\* after the other, below the count of nonces issued.
ChunkOrderInv ==
    /\ \A h \in handed : h.size >= 1 /\ h.from + h.size <= issued[h.extranonce2]
    /\ \A a, b \in handed :
        (a.extranonce2 = b.extranonce2 /\ a # b) =>
            (a.from + a.size <= b.from \/ b.from + b.size <= a.from)

\* Up to the wrap, the nonces sent are those of the count.
ChunkNoncesInv ==
    /\ \A h \in handed : h.from + h.size <= NonceSpace =>
        h.startNonce = h.from /\ h.endNonce = h.from + h.size - 1
    /\ \A e \in Extranonce2s : issued[e] < NonceSpace => lastEndNonce[e] = issued[e]

\* A session at work on the current job holds a chunk handed out in it.
HeldInv ==
    \A c \in Clients : Works(c) =>
        \E h \in handed : /\ h.extranonce2 = extranonce2[c]
                          /\ h.startNonce = startNonce[c]
                          /\ h.endNonce = endNonce[c]

\* Inductive: the bookkeeping above, and the two properties it supports.
IndInv ==
    /\ TypeOK
    /\ JobsInv
    /\ ChunkOrderInv
    /\ ChunkNoncesInv
    /\ HeldInv
    /\ NothingSkipped
    /\ LiveWorkDisjoint
===============================================================================

------------------------------- MODULE NonceLoop -------------------------------
(***************************************************************************)
(* The search of one chunk by a miner process: CMiner::Tick with its three   *)
(* kinds of job, and the "work" branch of main in hashnet.cpp, which is the    *)
(* DSHA256 branch of CMiner::Tick but for one comparison: hashnet.cpp          *)
(* compares a hash with the target when its distance is greater than the best *)
(* so far, CMiner.cpp also when it is equal.                                  *)
(*                                                                         *)
(* The hash of a nonce (double SHA-256 of a header, double BLAKE3, SHA-1) is   *)
(* an arbitrary function of the nonce.  "stats" messages change nothing here. *)
(***************************************************************************)
EXTENDS HashChecks, FiniteSets

CONSTANTS
    Strict,     \* TRUE: the ">" of hashnet.cpp; FALSE: the ">=" of CMiner.cpp
    Kinds,      \* the kinds of job received; hashnet.cpp knows "DSHA256" only
    ChainNums,  \* 16: the chains of Alephium
    Chain,      \* the chain a BLAKE3 job is for, fromGroup * 4 + toGroup
    MaxNonce,   \* bound: the nonces of a chunk
    MaxWorks    \* bound: chunks received

ASSUME NonceLoopAssumption ==
    /\ Strict \in BOOLEAN
    /\ Kinds \subseteq {"DSHA256", "BLAKE3", "DUCOSHA1", "unknown"}
    /\ ChainNums \in Nat \ {0}
    /\ Chain \in 0 .. ChainNums - 1
    /\ MaxNonce \in Nat /\ MaxWorks \in Nat

VARIABLES
    pc,             \* "receive", "loop", "report" or "exited"
    works,          \* number of chunks received
    kind,           \* strJobName, "unknown" for any other name
    nonce_start,
    nonce_end,
    target,         \* the target, or the expected hash of a DUCOSHA1 job
    hash,           \* the hash as a function of the nonce
    uiNonce,
    distance,       \* iLastZeroBitsDistance, iCurrentJobScoreBest
    found           \* the nonces sent in "found" messages for this chunk

chunkVars == <<kind, nonce_start, nonce_end, target, hash>>
vars == <<pc, works, chunkVars, uiNonce, distance, found>>

Nonces == 0 .. MaxNonce

\* Bitcoin's targets, from difficulty 1 on, start with zero bytes.
Targets == {t \in Numbers : t[1] = 0}

TypeOK ==
    /\ pc \in {"receive", "loop", "report", "exited"}
    /\ works \in 0 .. MaxWorks
    /\ kind \in Kinds \cup {"none"}
    /\ nonce_start \in Nonces
    /\ nonce_end \in Nonces
    /\ target \in Targets
    /\ hash \in [Nonces -> Numbers]
    /\ uiNonce \in Nonces
    /\ distance \in 0 .. Length
    /\ found \subseteq Nonces

Init ==
    /\ pc = "receive"
    /\ works = 0
    /\ kind = "none"
    /\ nonce_start = 0 /\ nonce_end = 0
    /\ target \in Targets
    /\ hash \in [Nonces -> Numbers]
    /\ uiNonce = 0
    /\ distance = 0
    /\ found = {}

\* Mutant: without "Clear stats".
ReceiveWorkStatsKept(k) ==
    /\ pc = "receive"
    /\ k # "unknown"
    /\ works < MaxWorks
    /\ works' = works + 1
    /\ kind' = k
    /\ \E start, end \in Nonces : nonce_start' = start /\ nonce_end' = end /\ uiNonce' = start
    /\ found' = {}
    /\ pc' = "loop"
    /\ UNCHANGED <<target, hash, distance>>

\* A "work" message: the best score is cleared, then the loop starts.
ReceiveWork(k) ==
    /\ pc = "receive"
    /\ k # "unknown"
    /\ works < MaxWorks
    /\ works' = works + 1
    /\ kind' = k
    /\ \E start, end \in Nonces : nonce_start' = start /\ nonce_end' = end /\ uiNonce' = start
    /\ distance' = 0
    /\ found' = {}
    /\ pc' = "loop"
    /\ UNCHANGED <<target, hash>>

\* "Unknown job type, skipping": "completed" is sent all the same, with the
\* nonce_start and nonce_end nobody has assigned.
ReceiveUnknown ==
    /\ pc = "receive"
    /\ "unknown" \in Kinds
    /\ works < MaxWorks
    /\ works' = works + 1
    /\ kind' = "unknown"
    /\ nonce_start' \in Nonces /\ nonce_end' \in Nonces
    /\ distance' = 0
    /\ found' = {}
    /\ pc' = "report"
    /\ UNCHANGED <<target, hash, uiNonce>>

\* Both programs exit on work of a server of another version, CMiner.cpp also
\* when its connection ends.
Exit ==
    /\ pc = "receive"
    /\ pc' = "exited"
    /\ UNCHANGED <<works, chunkVars, uiNonce, distance, found>>

\* CheckIndex: the hash belongs to the chain of the job.
CheckIndex(h) == h[Length] % ChainNums = Chain

\* What the miner looks for.  memcmp(blockHash, targetBlob) < 0 is checkValid
\* without equality.
IsBlock(n) ==
    \/ kind = "DSHA256"  /\ checkValid(hash[n], target)
    \/ kind = "BLAKE3"   /\ checkValid(hash[n], target) /\ hash[n] # target /\ CheckIndex(hash[n])
    \/ kind = "DUCOSHA1" /\ hash[n] = target

Better(d) == IF d > distance THEN d ELSE distance

\* Mutant: the comparison of hashnet.cpp.
ProgressesStrictly(d) == d > distance

\* DSHA256: whether a hash of distance d is worth a comparison with the target.
Progresses(d) == IF Strict THEN d > distance ELSE d >= distance

\* Mutant: the loop runs up to nonce_end inclusive.
SearchingInclusive == pc = "loop" /\ uiNonce <= nonce_end

\* The condition of the for loop.
Searching == pc = "loop" /\ uiNonce < nonce_end

\* The nonce is sent in a "found" message, which ends the loop ...
SendFoundAndBreak ==
    /\ found' = found \cup {uiNonce}
    /\ pc' = "report"
    /\ UNCHANGED uiNonce

\* ... or the loop goes on.
GoOn == uiNonce' = uiNonce + 1 /\ UNCHANGED pc

IterateDSHA256 ==
    LET d == calculateDistanceToTarget(hash[uiNonce]) IN
    /\ Searching
    /\ kind = "DSHA256"
    /\ distance' = Better(d)
    /\ IF Progresses(d) /\ IsBlock(uiNonce) THEN SendFoundAndBreak ELSE GoOn /\ UNCHANGED found
    /\ UNCHANGED <<works, chunkVars>>

\* Mutant: the break of the other kinds.
IterateBLAKE3Break ==
    /\ Searching
    /\ kind = "BLAKE3"
    /\ distance' = Better(calculateDistanceToTarget(hash[uiNonce]))
    /\ IF IsBlock(uiNonce) THEN SendFoundAndBreak ELSE GoOn /\ UNCHANGED found
    /\ UNCHANGED <<works, chunkVars>>

\* Every block of the chunk is sent.
IterateBLAKE3 ==
    /\ Searching
    /\ kind = "BLAKE3"
    /\ distance' = Better(calculateDistanceToTarget(hash[uiNonce]))
    /\ found' = IF IsBlock(uiNonce) THEN found \cup {uiNonce} ELSE found
    /\ GoOn
    /\ UNCHANGED <<works, chunkVars>>

\* There are no distances.  The code counts in an int, whose text is a negative
\* number from 2^31 on, in the hash as in "found": chunks end before that.
IterateDUCOSHA1 ==
    /\ Searching
    /\ kind = "DUCOSHA1"
    /\ IF IsBlock(uiNonce) THEN SendFoundAndBreak ELSE GoOn /\ UNCHANGED found
    /\ UNCHANGED <<works, chunkVars, distance>>

LoopEnds ==
    /\ pc = "loop"
    /\ uiNonce >= nonce_end
    /\ pc' = "report"
    /\ UNCHANGED <<works, chunkVars, uiNonce, distance, found>>

\* "completed" is sent, with the nonce_start and nonce_end of the chunk.
Completed ==
    /\ pc = "report"
    /\ pc' = "receive"
    /\ UNCHANGED <<works, chunkVars, uiNonce, distance, found>>

Iterate == IterateDSHA256 \/ IterateBLAKE3 \/ IterateDUCOSHA1

Next ==
    \/ \E k \in Kinds : ReceiveWork(k)
    \/ ReceiveUnknown \/ Exit
    \/ Iterate \/ LoopEnds \/ Completed

Spec == Init /\ [][Next]_vars /\ WF_vars(Iterate \/ LoopEnds \/ Completed)

-------------------------------------------------------------------------------
(***************************************************************************)
(* Properties.                                                             *)
(***************************************************************************)

\* A chunk that is reported has no block that was not sent, but after the one
\* that ended the search: leaving out the comparison for hashes that do not
\* progress loses nothing, whichever block of the chunk comes first.
NoMissedBlock ==
    pc = "report" /\ kind # "unknown" =>
        \A n \in nonce_start .. nonce_end - 1 :
            IsBlock(n) => \/ n \in found
                          \/ kind # "BLAKE3" /\ \E m \in found : m < n

\* The best score is that of the nonces hashed in this chunk, and nothing
\* carries over from the chunk before.
DistanceIsBest ==
    pc = "loop" =>
        LET hashed == nonce_start .. uiNonce - 1 IN
        /\ kind # "DUCOSHA1" =>
            \A n \in hashed : calculateDistanceToTarget(hash[n]) <= distance
        /\ distance > 0 => \E n \in hashed : calculateDistanceToTarget(hash[n]) = distance

\* hashnet.cpp:443 reports the chunk nonce_start..nonce_end as "Nonce check
\* completed".  Without a find, every nonce of it was hashed.
WholeChunkHashed ==
    (pc = "report" /\ kind # "unknown" /\ found = {}) => uiNonce > nonce_end

-------------------------------------------------------------------------------
\* Inductive when equal distances are compared: every block hashed so far was
\* sent, none when a block ends the search, and the best distance is that of a
\* hash already compared.
LoopInv ==
    /\ TypeOK
    /\ pc = "loop" => /\ kind # "BLAKE3" => found = {}
                      /\ uiNonce >= nonce_start
                      /\ \A n \in nonce_start .. uiNonce - 1 :
                            IsBlock(n) => kind = "BLAKE3" /\ n \in found
    /\ DistanceIsBest
    /\ NoMissedBlock
===============================================================================

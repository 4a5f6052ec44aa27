--------------------------- MODULE WorkChunksProofs ---------------------------
(***************************************************************************)
(* Proofs about WorkChunks, for every number of sessions, of extranonce2    *)
(* values and of nonces: its invariants, and that it implements WorkLedger. *)
(***************************************************************************)
EXTENDS WorkChunks, TLAPS

USE ConstantsAssumption DEF NoJob

\* The uint32 arithmetic of GetNextWorkChunk: a remainder is a nonce, and a
\* value below the modulus is its own remainder.
LEMMA ModNonce ==
    /\ \A x \in Int : x % NonceSpace \in Nonces
    /\ \A x \in Nonces : x % NonceSpace = x
BY SMT DEF Nonces

\* A chunk of size nonces from start: its end and the successor of its end,
\* as the code computes them, are nonces and do not wrap before NonceSpace.
LEMMA ChunkArithmetic ==
    ASSUME NEW start \in Nonces, NEW size \in Nat \ {0},
           NEW end, end = (start + size - 1) % NonceSpace,
           NEW next, next = (end + 1) % NonceSpace
    PROVE  /\ end \in Nonces /\ next \in Nonces
           /\ start + size <= NonceSpace => end = start + size - 1
           /\ start + size < NonceSpace => next = start + size
<1>1. start + size - 1 \in Int
  BY DEF Nonces
<1>2. end \in Nonces
  BY <1>1, ModNonce
<1>3. end + 1 \in Int
  BY <1>2 DEF Nonces
<1>4. next \in Nonces
  BY <1>3, ModNonce
<1>5. ASSUME start + size <= NonceSpace PROVE end = start + size - 1
  <2>1. start + size - 1 \in Nonces
    BY <1>5 DEF Nonces
  <2> QED BY <2>1, ModNonce
<1>6. ASSUME start + size < NonceSpace PROVE next = start + size
  <2>1. end + 1 = start + size
    BY <1>5, <1>6 DEF Nonces
  <2>2. end + 1 \in Nonces
    BY <1>6, <2>1 DEF Nonces
  <2> QED BY <2>1, <2>2, ModNonce
<1> QED BY <1>2, <1>4, <1>5, <1>6

\* What GetNextWorkChunk returns: nonces always, and as long as the chunk ends
\* before the wrap the consecutive range that follows its start.
LEMMA NextWorkChunk ==
    ASSUME TypeOK, NEW e \in Extranonce2s, NEW size \in Nat \ {0},
           NEW diff \in Nat, size = IterationsPerMiner + diff,
           NEW chunk, chunk = GetNextWorkChunk(e, diff)
    PROVE  /\ chunk.start \in Nonces /\ chunk.end \in Nonces /\ chunk.next \in Nonces
           /\ chunk.start = lastEndNonce[e]
           /\ chunk.start + size <= NonceSpace => chunk.end = chunk.start + size - 1
           /\ chunk.start + size < NonceSpace => chunk.next = chunk.start + size
<1>1. lastEndNonce[e] \in Nonces
  BY DEF TypeOK
<1>2. /\ chunk.start = lastEndNonce[e]
      /\ chunk.end = (lastEndNonce[e] + size - 1) % NonceSpace
      /\ chunk.next = (chunk.end + 1) % NonceSpace
  BY DEF GetNextWorkChunk
<1> QED BY <1>1, <1>2, ChunkArithmetic

LEMMA InitIndInv == Init => IndInv
BY SMT DEF Init, IndInv, TypeOK, JobsInv, ChunkOrderInv, ChunkNoncesInv, HeldInv,
   NothingSkipped, LiveWorkDisjoint, Works, Range, NotExhausted, Nonces

\* Steps that hand nothing out and forget nothing: every session keeps its
\* chunk or becomes idle.
LEMMA KeepOrIdle ==
    ASSUME IndInv, TypeOK',
           UNCHANGED <<jobId, totalJobs, lastEndNonce, issued, handed>>,
           \A c \in Clients :
              \/ extranonce2'[c] = None
              \/ /\ extranonce2'[c] = extranonce2[c]
                 /\ startNonce'[c] = startNonce[c]
                 /\ endNonce'[c] = endNonce[c]
                 /\ jobID'[c] = jobID[c]
    PROVE  IndInv'
<1>1. \A c \in Clients : Works(c)' =>
        /\ Works(c)
        /\ extranonce2'[c] = extranonce2[c]
        /\ startNonce'[c] = startNonce[c]
        /\ endNonce'[c] = endNonce[c]
  BY DEF Works
<1>2. JobsInv'
  BY DEF IndInv, JobsInv
<1>3. ChunkOrderInv' /\ ChunkNoncesInv' /\ NothingSkipped'
  BY DEF IndInv, ChunkOrderInv, ChunkNoncesInv, NothingSkipped, NotExhausted
<1>4. HeldInv'
  BY <1>1 DEF IndInv, HeldInv
<1>5. LiveWorkDisjoint'
  BY <1>1 DEF IndInv, LiveWorkDisjoint, NotExhausted
<1> QED BY <1>2, <1>3, <1>4, <1>5 DEF IndInv

\* Steps that forget the chunks: the job number that follows is NoJob or was
\* never used, so no session is at work on it.
LEMMA Forget ==
    ASSUME IndInv, ForgetChunks, UNCHANGED sessionVars,
           totalJobs' \in 0 .. MaxJobs, totalJobs <= totalJobs',
           jobId' \in 0 .. totalJobs', jobId' = NoJob \/ totalJobs < jobId'
    PROVE  IndInv'
<1>1. TypeOK'
  BY DEF IndInv, TypeOK, ForgetChunks, sessionVars, Nonces
<1>2. JobsInv'
  BY <1>1 DEF IndInv, JobsInv, TypeOK, sessionVars
<1>3. \A c \in Clients : ~ Works(c)'
  BY DEF IndInv, JobsInv, TypeOK, Works, sessionVars
<1>4. HeldInv' /\ LiveWorkDisjoint'
  BY <1>3 DEF HeldInv, LiveWorkDisjoint
<1>5. ChunkOrderInv' /\ ChunkNoncesInv' /\ NothingSkipped'
  BY DEF ForgetChunks, ChunkOrderInv, ChunkNoncesInv, NothingSkipped
<1> QED BY <1>1, <1>2, <1>4, <1>5 DEF IndInv

\* The distribution block.
LEMMA DistributeStep ==
    ASSUME IndInv, Ready, NEW c \in Clients, NEW diff \in 0 .. MaxDifficulty,
           Distribute(c, diff),
           difficulty' \in [Clients -> 0 .. MaxDifficulty],
           UNCHANGED <<jobId, totalJobs, bestExtranonce2, link>>
    PROVE  IndInv'
<1> DEFINE size == IterationsPerMiner + diff
<1>0. PICK e \in Extranonce2s :
        LET chunk == GetNextWorkChunk(e, diff) IN
        /\ issued[e] + size <= MaxIssued
        /\ lastEndNonce' = [lastEndNonce EXCEPT ![e] = chunk.next]
        /\ startNonce' = [startNonce EXCEPT ![c] = chunk.start]
        /\ endNonce' = [endNonce EXCEPT ![c] = chunk.end]
        /\ extranonce2' = [extranonce2 EXCEPT ![c] = e]
        /\ jobID' = [jobID EXCEPT ![c] = jobId]
        /\ score' = [score EXCEPT ![c] = 0]
        /\ handed' = handed \cup {[extranonce2 |-> e, from |-> issued[e], size |-> size,
                                   startNonce |-> chunk.start, endNonce |-> chunk.end]}
        /\ issued' = [issued EXCEPT ![e] = @ + size]
  BY DEF Distribute, GetNextExtranonce2
<1> DEFINE chunk == GetNextWorkChunk(e, diff)
           h == [extranonce2 |-> e, from |-> issued[e], size |-> size,
                 startNonce |-> chunk.start, endNonce |-> chunk.end]
<1>1. TypeOK
  BY DEF IndInv
<1>2. size \in Nat \ {0} /\ diff \in Nat
  OBVIOUS
<1>3. /\ chunk.start \in Nonces /\ chunk.end \in Nonces /\ chunk.next \in Nonces
      /\ chunk.start = lastEndNonce[e]
      /\ chunk.start + size <= NonceSpace => chunk.end = chunk.start + size - 1
      /\ chunk.start + size < NonceSpace => chunk.next = chunk.start + size
  <2>1. size = IterationsPerMiner + diff /\ chunk = GetNextWorkChunk(e, diff)
    OBVIOUS
  <2> HIDE DEF chunk, size
  <2> QED BY <1>1, <1>2, <2>1, NextWorkChunk
<1> HIDE DEF chunk, size
<1>4. /\ issued[e] \in Nat /\ issued[e] + size <= MaxIssued
      /\ lastEndNonce' = [lastEndNonce EXCEPT ![e] = chunk.next]
      /\ startNonce' = [startNonce EXCEPT ![c] = chunk.start]
      /\ endNonce' = [endNonce EXCEPT ![c] = chunk.end]
      /\ extranonce2' = [extranonce2 EXCEPT ![c] = e]
      /\ jobID' = [jobID EXCEPT ![c] = jobId]
      /\ score' = [score EXCEPT ![c] = 0]
      /\ handed' = handed \cup {h}
      /\ issued' = [issued EXCEPT ![e] = issued[e] + size]
  BY <1>0, <1>1 DEF chunk, TypeOK
<1>5. /\ h.extranonce2 = e /\ h.from = issued[e] /\ h.size = size
      /\ h.startNonce = chunk.start /\ h.endNonce = chunk.end
      /\ h \in Chunk
  BY <1>2, <1>3, <1>4 DEF Chunk
<1> HIDE DEF h
\* Unless the count passes the wrap, the chunk is the next stretch of nonces.
<1>6. issued'[e] <= NonceSpace =>
        chunk.start = issued[e] /\ chunk.end = issued[e] + size - 1
  BY <1>1, <1>2, <1>3, <1>4 DEF IndInv, ChunkNoncesInv, TypeOK
<1>7. TypeOK'
  <2>1. score' \in [Clients -> Distances] /\ jobID' \in [Clients -> 0 .. MaxJobs]
    BY <1>1, <1>4 DEF TypeOK
  <2>2. issued' \in [Extranonce2s -> 0 .. MaxIssued]
    BY <1>1, <1>2, <1>4 DEF TypeOK
  <2>3. /\ lastEndNonce' \in [Extranonce2s -> Nonces]
        /\ startNonce' \in [Clients -> Nonces]
        /\ endNonce' \in [Clients -> Nonces]
        /\ extranonce2' \in [Clients -> Extranonce2s \cup {None}]
    BY <1>1, <1>3, <1>4 DEF TypeOK
  <2>4. handed' \subseteq Chunk
    BY <1>1, <1>4, <1>5 DEF TypeOK
  <2> QED BY <1>1, <2>1, <2>2, <2>3, <2>4 DEF TypeOK
<1>8. JobsInv'
  BY <1>1, <1>4 DEF IndInv, JobsInv, Ready, TypeOK
<1>9. \A g \in handed : g.extranonce2 \in Extranonce2s /\ g.from \in Nat /\ g.size \in Nat
  BY <1>1 DEF TypeOK, Chunk
<1>10. ChunkOrderInv'
  <2>1. \A f \in Extranonce2s : issued[f] \in Nat /\ issued'[f] \in Nat
                                /\ issued[f] <= issued'[f]
    BY <1>1, <1>2, <1>4 DEF TypeOK
  <2>2. \A g \in handed : g.size >= 1 /\ g.from + g.size <= issued[g.extranonce2]
    BY DEF IndInv, ChunkOrderInv
  <2>3. \A g \in handed : g.from + g.size <= issued'[g.extranonce2]
    BY <1>9, <2>1, <2>2
  <2>4. h.size >= 1 /\ h.from + h.size <= issued'[h.extranonce2]
    BY <1>1, <1>2, <1>4, <1>5 DEF TypeOK
  <2>5. \A g \in handed : g.extranonce2 = e => g.from + g.size <= h.from
    BY <2>2, <1>5
  <2>6. \A a, b \in handed' : (a.extranonce2 = b.extranonce2 /\ a # b) =>
            (a.from + a.size <= b.from \/ b.from + b.size <= a.from)
    <3> SUFFICES ASSUME NEW a \in handed', NEW b \in handed',
                        a.extranonce2 = b.extranonce2, a # b
                 PROVE  a.from + a.size <= b.from \/ b.from + b.size <= a.from
      OBVIOUS
    <3>1. CASE a \in handed /\ b \in handed
      BY <3>1 DEF IndInv, ChunkOrderInv
    <3>2. CASE a = h /\ b \in handed
      BY <3>2, <2>5, <1>5
    <3>3. CASE b = h /\ a \in handed
      BY <3>3, <2>5, <1>5
    <3> QED BY <1>4, <3>1, <3>2, <3>3
  <2> QED BY <1>4, <2>2, <2>3, <2>4, <2>6 DEF ChunkOrderInv
<1>11. ChunkNoncesInv'
  <2>1. h.from + h.size <= NonceSpace =>
            h.startNonce = h.from /\ h.endNonce = h.from + h.size - 1
    BY <1>1, <1>4, <1>5, <1>6 DEF TypeOK
  <2>2. \A g \in handed' : g.from + g.size <= NonceSpace =>
            g.startNonce = g.from /\ g.endNonce = g.from + g.size - 1
    BY <1>4, <2>1 DEF IndInv, ChunkNoncesInv
  <2>3. issued'[e] < NonceSpace => lastEndNonce'[e] = issued'[e]
    BY <1>1, <1>2, <1>3, <1>4, <1>6 DEF TypeOK
  <2>4. \A f \in Extranonce2s : issued'[f] < NonceSpace => lastEndNonce'[f] = issued'[f]
    BY <1>1, <1>4, <2>3 DEF IndInv, ChunkNoncesInv, TypeOK
  <2> QED BY <2>2, <2>4 DEF ChunkNoncesInv
<1>12. NothingSkipped'
  <2> SUFFICES ASSUME NEW f \in Extranonce2s, issued'[f] <= NonceSpace,
                      NEW n \in 0 .. issued'[f] - 1
               PROVE  \E g \in handed' : g.extranonce2 = f
                                         /\ n \in g.startNonce .. g.endNonce
    BY DEF NothingSkipped, NotExhausted, Range
  <2>1. CASE n < issued[f]
    <3>1. issued[f] <= NonceSpace /\ n \in 0 .. issued[f] - 1
      BY <1>1, <1>2, <1>4, <2>1 DEF TypeOK
    <3>2. PICK g \in handed : g.extranonce2 = f /\ n \in g.startNonce .. g.endNonce
      BY <3>1 DEF IndInv, NothingSkipped, NotExhausted, Range
    <3> QED BY <1>4, <3>2
  <2>2. CASE ~ (n < issued[f])
    <3>1. f = e
      BY <1>1, <1>4, <2>2 DEF TypeOK
    <3>2. n \in h.startNonce .. h.endNonce
      BY <1>1, <1>2, <1>4, <1>5, <1>6, <2>2, <3>1 DEF TypeOK
    <3> QED BY <1>4, <1>5, <3>1, <3>2
  <2> QED BY <2>1, <2>2
<1>13. \A d \in Clients \ {c} : /\ Works(d)' = Works(d)
                                /\ extranonce2'[d] = extranonce2[d]
                                /\ startNonce'[d] = startNonce[d]
                                /\ endNonce'[d] = endNonce[d]
  BY <1>1, <1>4 DEF Works, TypeOK
<1>14. extranonce2'[c] = e /\ startNonce'[c] = chunk.start /\ endNonce'[c] = chunk.end
  BY <1>1, <1>4 DEF TypeOK
<1>15. HeldInv'
  <2> SUFFICES ASSUME NEW d \in Clients, Works(d)'
               PROVE  \E g \in handed' : /\ g.extranonce2 = extranonce2'[d]
                                         /\ g.startNonce = startNonce'[d]
                                         /\ g.endNonce = endNonce'[d]
    BY DEF HeldInv
  <2>1. CASE d = c
    BY <1>4, <1>5, <1>14, <2>1
  <2>2. CASE d # c
    BY <1>4, <1>13, <2>2 DEF IndInv, HeldInv
  <2> QED BY <2>1, <2>2
<1>16. LiveWorkDisjoint'
  \* A session that already works on e holds nonces below the new chunk.
  <2>1. ASSUME NEW d \in Clients \ {c}, Works(d), extranonce2[d] = e,
               issued'[e] <= NonceSpace
        PROVE  (startNonce[d] .. endNonce[d]) \cap (chunk.start .. chunk.end) = {}
    <3>1. PICK g \in handed : /\ g.extranonce2 = e
                              /\ g.startNonce = startNonce[d]
                              /\ g.endNonce = endNonce[d]
      BY <2>1 DEF IndInv, HeldInv
    <3>2. g.from + g.size <= issued[e]
      BY <3>1 DEF IndInv, ChunkOrderInv
    <3>3. g.endNonce = g.from + g.size - 1
      BY <1>1, <1>2, <1>4, <1>9, <2>1, <3>2 DEF IndInv, ChunkNoncesInv, TypeOK
    <3>4. startNonce[d] \in Int /\ endNonce[d] \in Int
      BY <1>1 DEF TypeOK, Nonces
    <3> QED BY <1>1, <1>2, <1>4, <1>6, <1>9, <2>1, <3>1, <3>2, <3>3, <3>4 DEF TypeOK
  <2> SUFFICES ASSUME NEW d1 \in Clients, NEW d2 \in Clients, d1 # d2,
                      Works(d1)', Works(d2)', extranonce2'[d1] = extranonce2'[d2],
                      NotExhausted(extranonce2[d1])'
               PROVE  (startNonce'[d1] .. endNonce'[d1])
                        \cap (startNonce'[d2] .. endNonce'[d2]) = {}
    BY DEF LiveWorkDisjoint, Range
  <2>2. CASE d1 = c
    BY <1>13, <1>14, <2>1, <2>2 DEF NotExhausted
  <2>3. CASE d2 = c
    BY <1>13, <1>14, <2>1, <2>3 DEF NotExhausted
  <2>4. CASE d1 # c /\ d2 # c
    <3>1. extranonce2[d1] \in Extranonce2s
      BY <1>1, <1>13, <2>4 DEF Works, TypeOK
    <3>2. NotExhausted(extranonce2[d1])
      BY <1>1, <1>2, <1>4, <1>13, <2>4, <3>1 DEF NotExhausted, TypeOK
    <3> QED BY <1>13, <2>4, <3>2 DEF IndInv, LiveWorkDisjoint, Range
  <2> QED BY <2>2, <2>3, <2>4
<1> QED BY <1>7, <1>8, <1>10, <1>11, <1>12, <1>15, <1>16 DEF IndInv

\* Every step of the server preserves the inductive invariant.
LEMMA NextIndInv == IndInv /\ [Next]_vars => IndInv'
<1> SUFFICES ASSUME IndInv, [Next]_vars PROVE IndInv'
  OBVIOUS
<1>1. TypeOK
  BY DEF IndInv
<1>2. CASE NewCleanJob
  BY <1>1, <1>2, Forget DEF NewCleanJob, TypeOK
<1>3. CASE PoolLost
  BY <1>1, <1>3, Forget DEF PoolLost, IndInv, JobsInv, TypeOK
<1>4. ASSUME NEW c \in Clients, Accept(c) PROVE IndInv'
  <2>1. TypeOK'
    BY <1>1, <1>4 DEF Accept, TypeOK, jobVars, history
  <2> QED BY <1>4, <2>1, KeepOrIdle DEF Accept, jobVars, history
<1>5. ASSUME NEW c \in Clients, Disconnect(c) PROVE IndInv'
  <2>1. TypeOK'
    BY <1>1, <1>5 DEF Disconnect, TypeOK, jobVars, history
  <2> QED BY <1>5, <2>1, KeepOrIdle DEF Disconnect, jobVars, history
<1>6. ASSUME NEW c \in Clients, Reap(c) PROVE IndInv'
  <2>1. TypeOK'
    BY <1>1, <1>6 DEF Reap, TypeOK, jobVars, history, Nonces
  <2> QED BY <1>1, <1>6, <2>1, KeepOrIdle DEF Reap, TypeOK, jobVars, history
<1>7. ASSUME NEW c \in Clients, NEW d \in Distances, Report(c, d) PROVE IndInv'
  <2>1. TypeOK'
    BY <1>1, <1>7 DEF Report, TypeOK, history
  <2> QED BY <1>7, <2>1, KeepOrIdle DEF Report, history
<1>8. ASSUME NEW c \in Clients, NEW t \in ChunkTimes, Complete(c, t) PROVE IndInv'
  <2> DEFINE diff == IF t < IncreaseThreshold THEN difficulty[c] + DifficultyStep
                                              ELSE difficulty[c]
  <2>1. diff \in 0 .. MaxDifficulty
    BY <1>1, <1>8 DEF Complete, TypeOK
  <2>2. /\ difficulty' = [difficulty EXCEPT ![c] = diff]
        /\ UNCHANGED <<jobId, totalJobs, bestExtranonce2, link>>
    BY <1>8 DEF Complete
  <2>3. difficulty' \in [Clients -> 0 .. MaxDifficulty]
    BY <1>1, <2>1, <2>2 DEF TypeOK
  <2>4. CASE Ready
    <3>1. Distribute(c, diff)
      BY <1>8, <2>4 DEF Complete
    <3> HIDE DEF diff
    <3> QED BY <2>1, <2>2, <2>3, <2>4, <3>1, DistributeStep
  <2>5. CASE ~ Ready
    <3>1. /\ extranonce2' = [extranonce2 EXCEPT ![c] = None]
          /\ score' = [score EXCEPT ![c] = 0]
          /\ UNCHANGED <<lastEndNonce, startNonce, endNonce, jobID, history>>
      BY <1>8, <2>5 DEF Complete
    <3>2. TypeOK'
      BY <1>1, <2>2, <2>3, <3>1 DEF TypeOK, history
    <3> QED BY <1>1, <2>2, <3>1, <3>2, KeepOrIdle DEF TypeOK, history
  <2> QED BY <2>4, <2>5
<1>9. ASSUME NEW c \in Clients, HandOut(c) PROVE IndInv'
  <2>1. difficulty[c] \in 0 .. MaxDifficulty /\ difficulty' \in [Clients -> 0 .. MaxDifficulty]
    BY <1>1, <1>9 DEF HandOut, TypeOK
  <2> QED BY <1>9, <2>1, DistributeStep DEF HandOut
<1>10. CASE UNCHANGED vars
  <2>1. TypeOK'
    BY <1>1, <1>10 DEF vars, TypeOK, jobVars, sessionVars, history
  <2> QED BY <1>10, <2>1, KeepOrIdle DEF vars, jobVars, sessionVars, history
<1> QED BY <1>2, <1>3, <1>4, <1>5, <1>6, <1>7, <1>8, <1>9, <1>10 DEF Next

\* The inductive invariant holds in every reachable state.
THEOREM Invariance == Spec => []IndInv
BY InitIndInv, NextIndInv, PTL DEF Spec

\* Type correctness: in particular every nonce the server stores or sends is
\* a uint32 and no difficulty passes its bound.
THEOREM TypeCorrect == Spec => []TypeOK
<1>1. IndInv => TypeOK
  BY DEF IndInv
<1> QED BY <1>1, Invariance, PTL

\* Until an extranonce2 is exhausted in a job, its chunks never overlap.
THEOREM ChunksAreDisjoint == Spec => []ChunksDisjoint
<1>1. IndInv => ChunksDisjoint
  <2> SUFFICES ASSUME IndInv, NEW a \in handed, NEW b \in handed,
                      a.extranonce2 = b.extranonce2, a # b, NotExhausted(a.extranonce2)
               PROVE  (a.startNonce .. a.endNonce) \cap (b.startNonce .. b.endNonce) = {}
    BY DEF ChunksDisjoint, Range
  <2>1. \A h \in {a, b} : /\ h.from \in Nat /\ h.size \in Nat
                          /\ issued[h.extranonce2] \in Nat
    BY DEF IndInv, TypeOK, Chunk
  <2>2. \A h \in {a, b} : h.from + h.size <= issued[h.extranonce2]
    BY DEF IndInv, ChunkOrderInv
  <2>3. \A h \in {a, b} : h.from + h.size <= NonceSpace
    BY <2>1, <2>2 DEF NotExhausted
  <2>4. \A h \in {a, b} : h.startNonce = h.from /\ h.endNonce = h.from + h.size - 1
    BY <2>3 DEF IndInv, ChunkNoncesInv
  <2>5. a.from + a.size <= b.from \/ b.from + b.size <= a.from
    BY DEF IndInv, ChunkOrderInv
  <2> QED BY <2>1, <2>4, <2>5
<1> QED BY <1>1, Invariance, PTL

\* Until an extranonce2 is exhausted in a job, its chunks leave no gap.
THEOREM NoNonceIsSkipped == Spec => []NothingSkipped
<1>1. IndInv => NothingSkipped
  BY DEF IndInv
<1> QED BY <1>1, Invariance, PTL

\* Two sessions at work on one extranonce2 of the current job never search
\* the same nonce, until the extranonce2 is exhausted.
THEOREM LiveWorkIsDisjoint == Spec => []LiveWorkDisjoint
<1>1. IndInv => LiveWorkDisjoint
  BY DEF IndInv
<1> QED BY <1>1, Invariance, PTL

-------------------------------------------------------------------------------
(***************************************************************************)
(* WorkChunks implements WorkLedger as long as no extranonce2 can be        *)
(* exhausted within a job.  The mapping is Ledger, in WorkChunks.           *)
(***************************************************************************)
Fits == MaxIssued <= NonceSpace

PairsOf(e, start, end) == {e} \X (start .. end)

\* With nothing changed but sessions that keep their chunk, the mapped state
\* does not change; with one session becoming idle, it is released.
LEMMA KeepMaps ==
    ASSUME IndInv, NEW c \in Clients, UNCHANGED <<jobId, handed>>,
           \A d \in Clients \ {c} :
              /\ extranonce2'[d] = extranonce2[d] /\ startNonce'[d] = startNonce[d]
              /\ endNonce'[d] = endNonce[d] /\ jobID'[d] = jobID[d]
    PROVE  /\ pairsHanded' = pairsHanded
           /\ extranonce2'[c] = None => Ledger!Release(c)
           /\ (/\ extranonce2'[c] = extranonce2[c] /\ startNonce'[c] = startNonce[c]
               /\ endNonce'[c] = endNonce[c] /\ jobID'[c] = jobID[c])
              => pairsAssigned' = pairsAssigned
<1>1. pairsHanded' = pairsHanded
  BY DEF pairsHanded
<1>2. \A d \in Clients \ {c} : pairsAssigned'[d] = pairsAssigned[d]
  BY DEF pairsAssigned, Works
<1>3. ASSUME extranonce2'[c] = None
      PROVE  pairsAssigned' = [pairsAssigned EXCEPT ![c] = {}]
  <2>1. pairsAssigned'[c] = {}
    BY <1>3 DEF pairsAssigned, Works
  <2> QED BY <1>2, <2>1 DEF pairsAssigned
<1>4. ASSUME extranonce2'[c] = extranonce2[c], startNonce'[c] = startNonce[c],
             endNonce'[c] = endNonce[c], jobID'[c] = jobID[c]
      PROVE  pairsAssigned' = pairsAssigned
  <2>1. pairsAssigned'[c] = pairsAssigned[c]
    BY <1>4 DEF pairsAssigned, Works
  <2> QED BY <1>2, <2>1 DEF pairsAssigned
<1> QED BY <1>1, <1>3, <1>4 DEF Ledger!Release

\* Forgetting the chunks resets the ledger.
LEMMA ForgetResets ==
    ASSUME IndInv, ForgetChunks, UNCHANGED sessionVars,
           jobId' = NoJob \/ totalJobs < jobId', jobId' \in Nat
    PROVE  Ledger!Reset
<1>1. \A c \in Clients : ~ Works(c)'
  BY DEF IndInv, JobsInv, TypeOK, Works, sessionVars
<1>2. pairsAssigned' = [c \in Clients |-> {}]
  BY <1>1 DEF pairsAssigned
<1>3. pairsHanded' = {}
  BY DEF pairsHanded, ForgetChunks
<1> QED BY <1>2, <1>3 DEF Ledger!Reset

\* The distribution block issues a chunk the ledger does not hold.
LEMMA DistributeIssues ==
    ASSUME Fits, IndInv, IndInv', Ready, NEW c \in Clients, NEW diff \in 0 .. MaxDifficulty,
           Distribute(c, diff), UNCHANGED <<jobId, totalJobs>>
    PROVE  Ledger!Issue(c)
<1>1. PICK e \in Extranonce2s :
        LET chunk == GetNextWorkChunk(e, diff)
            h == [extranonce2 |-> e, from |-> issued[e], size |-> IterationsPerMiner + diff,
                  startNonce |-> chunk.start, endNonce |-> chunk.end] IN
        /\ issued[e] + (IterationsPerMiner + diff) <= MaxIssued
        /\ startNonce' = [startNonce EXCEPT ![c] = h.startNonce]
        /\ endNonce' = [endNonce EXCEPT ![c] = h.endNonce]
        /\ extranonce2' = [extranonce2 EXCEPT ![c] = e]
        /\ jobID' = [jobID EXCEPT ![c] = jobId]
        /\ handed' = handed \cup {h}
        /\ h.extranonce2 = e /\ h.from = issued[e] /\ h.size = IterationsPerMiner + diff
        /\ issued' = [issued EXCEPT ![e] = issued[e] + h.size]
  BY DEF Distribute, GetNextExtranonce2
<1> DEFINE h == [extranonce2 |-> e, from |-> issued[e], size |-> IterationsPerMiner + diff,
                  startNonce |-> GetNextWorkChunk(e, diff).start,
                  endNonce |-> GetNextWorkChunk(e, diff).end]
<1>2. /\ startNonce' = [startNonce EXCEPT ![c] = h.startNonce]
      /\ endNonce' = [endNonce EXCEPT ![c] = h.endNonce]
      /\ extranonce2' = [extranonce2 EXCEPT ![c] = e]
      /\ jobID' = [jobID EXCEPT ![c] = jobId]
      /\ handed' = handed \cup {h}
      /\ h.extranonce2 = e /\ h.from = issued[e] /\ h.size = IterationsPerMiner + diff
      /\ h.from + h.size <= NonceSpace /\ issued[e] \in Nat
  BY <1>1 DEF IndInv, TypeOK, Fits
<1> HIDE DEF h
<1> DEFINE chunk == PairsOf(e, h.startNonce, h.endNonce)
<1>3. h.startNonce = h.from /\ h.endNonce = h.from + h.size - 1
  BY <1>2 DEF IndInv, ChunkNoncesInv
<1>4. h.startNonce \in Nonces /\ h.endNonce \in Nonces /\ h.startNonce <= h.endNonce
  BY <1>2, <1>3 DEF Nonces
<1>5. chunk \cap pairsHanded = {}
  <2>1. \A g \in handed : g.extranonce2 = e =>
            (g.startNonce .. g.endNonce) \cap (h.startNonce .. h.endNonce) = {}
    <3> SUFFICES ASSUME NEW g \in handed, g.extranonce2 = e
                 PROVE  (g.startNonce .. g.endNonce) \cap (h.startNonce .. h.endNonce) = {}
      OBVIOUS
    <3>1. g.from \in Nat /\ g.size \in Nat
      BY DEF IndInv, TypeOK, Chunk
    <3>2. g.from + g.size <= issued[e]
      BY DEF IndInv, ChunkOrderInv
    <3>3. g.endNonce = g.from + g.size - 1
      BY <1>2, <3>1, <3>2 DEF IndInv, ChunkNoncesInv
    <3> QED BY <1>2, <1>3, <3>1, <3>2, <3>3
  <2> QED BY <2>1 DEF pairsHanded, Range, PairsOf
<1>6. pairsHanded' = pairsHanded \cup chunk
  BY <1>2 DEF pairsHanded, Range, PairsOf
<1>7. pairsAssigned' = [pairsAssigned EXCEPT ![c] = chunk]
  <2>1. /\ extranonce2'[c] = e /\ jobID'[c] = jobId'
        /\ startNonce'[c] = h.startNonce /\ endNonce'[c] = h.endNonce
    BY <1>2 DEF IndInv, TypeOK
  <2>2. pairsAssigned'[c] = chunk
    BY <2>1 DEF pairsAssigned, Works, Range, PairsOf
  <2>3. \A d \in Clients \ {c} : pairsAssigned'[d] = pairsAssigned[d]
    BY <1>2 DEF pairsAssigned, Works, IndInv, TypeOK
  <2> QED BY <2>2, <2>3 DEF pairsAssigned
<1> QED BY <1>4, <1>5, <1>6, <1>7 DEF Ledger!Issue, PairsOf

LEMMA NextImplements ==
    ASSUME Fits, IndInv, IndInv', [Next]_vars PROVE [Ledger!Next]_(Ledger!vars)
<1>1. TypeOK
  BY DEF IndInv
<1>2. CASE NewCleanJob
  BY <1>1, <1>2, ForgetResets DEF NewCleanJob, TypeOK, Ledger!Next
<1>3. CASE PoolLost
  BY <1>1, <1>3, ForgetResets DEF PoolLost, Ledger!Next
<1>4. ASSUME NEW c \in Clients, Accept(c) PROVE UNCHANGED Ledger!vars
  BY <1>4, KeepMaps DEF Accept, jobVars, history, Ledger!vars
<1>5. ASSUME NEW c \in Clients, Disconnect(c) PROVE UNCHANGED Ledger!vars
  BY <1>5, KeepMaps DEF Disconnect, jobVars, history, Ledger!vars
<1>6. ASSUME NEW c \in Clients, Reap(c) PROVE Ledger!Release(c)
  BY <1>1, <1>6, KeepMaps DEF Reap, TypeOK, jobVars, history
<1>7. ASSUME NEW c \in Clients, NEW d \in Distances, Report(c, d)
      PROVE  UNCHANGED Ledger!vars
  BY <1>7, KeepMaps DEF Report, history, Ledger!vars
<1>8. ASSUME NEW c \in Clients, NEW t \in ChunkTimes, Complete(c, t)
      PROVE  Ledger!Issue(c) \/ Ledger!Release(c)
  <2> DEFINE diff == IF t < IncreaseThreshold THEN difficulty[c] + DifficultyStep
                                              ELSE difficulty[c]
  <2>1. diff \in 0 .. MaxDifficulty
    BY <1>1, <1>8 DEF Complete, TypeOK
  <2>2. CASE Ready
    <3>1. Distribute(c, diff) /\ UNCHANGED <<jobId, totalJobs>>
      BY <1>8, <2>2 DEF Complete
    <3> HIDE DEF diff
    <3> QED BY <2>1, <2>2, <3>1, DistributeIssues
  <2>3. CASE ~ Ready
    BY <1>1, <1>8, <2>3, KeepMaps DEF Complete, TypeOK, history
  <2> QED BY <2>2, <2>3
<1>9. ASSUME NEW c \in Clients, HandOut(c) PROVE Ledger!Issue(c)
  <2>1. difficulty[c] \in 0 .. MaxDifficulty
    BY <1>1, <1>9 DEF HandOut, TypeOK
  <2> QED BY <1>9, <2>1, DistributeIssues DEF HandOut
<1>10. CASE UNCHANGED vars
  BY <1>10 DEF vars, jobVars, sessionVars, history, Ledger!vars, pairsHanded,
     pairsAssigned, Works
<1> QED BY <1>2, <1>3, <1>4, <1>5, <1>6, <1>7, <1>8, <1>9, <1>10 DEF Next, Ledger!Next

\* Distribution gives each pair of the current job out at most once and to
\* one session: it implements the ledger.
THEOREM Refinement == ASSUME Fits PROVE Spec => ImplementsLedger
<1>1. Init => Ledger!Init
  BY DEF Init, Ledger!Init, pairsHanded, pairsAssigned, Works
<1>2. IndInv /\ IndInv' /\ [Next]_vars => [Ledger!Next]_(Ledger!vars)
  BY NextImplements
<1> QED BY <1>1, <1>2, Invariance, PTL DEF Spec, Ledger!Spec, ImplementsLedger

\* What the ledger is for: the pairs a session searches were handed out in
\* this job, and no other session searches one of them.
THEOREM Exclusivity == ASSUME Fits PROVE Spec => []Ledger!Exclusive
<1>1. Ledger!Init => Ledger!Exclusive
  BY DEF Ledger!Init, Ledger!Exclusive
<1>2. ASSUME Ledger!Exclusive, [Ledger!Next]_(Ledger!vars) PROVE Ledger!Exclusive'
  <2>0. DOMAIN pairsAssigned = Clients
    BY DEF pairsAssigned
  <2>1. ASSUME NEW c \in Clients, Ledger!Issue(c) PROVE Ledger!Exclusive'
    <3>1. PICK chunk : /\ chunk \cap pairsHanded = {}
                       /\ pairsHanded' = pairsHanded \cup chunk
                       /\ pairsAssigned' = [pairsAssigned EXCEPT ![c] = chunk]
      BY <2>1 DEF Ledger!Issue
    <3>2. pairsAssigned'[c] = chunk
          /\ \A d \in Clients \ {c} : pairsAssigned'[d] = pairsAssigned[d]
      BY <2>0, <3>1
    <3> QED BY <1>2, <3>1, <3>2 DEF Ledger!Exclusive
  <2>2. ASSUME NEW c \in Clients, Ledger!Release(c) PROVE Ledger!Exclusive'
    <3>1. pairsAssigned'[c] = {}
          /\ \A d \in Clients \ {c} : pairsAssigned'[d] = pairsAssigned[d]
      BY <2>0, <2>2 DEF Ledger!Release
    <3> QED BY <1>2, <2>2, <3>1 DEF Ledger!Exclusive, Ledger!Release
  <2>3. CASE Ledger!Reset
    BY <2>3 DEF Ledger!Exclusive, Ledger!Reset
  <2>4. CASE UNCHANGED Ledger!vars
    BY <1>2, <2>4 DEF Ledger!Exclusive, Ledger!vars
  <2> QED BY <1>2, <2>1, <2>2, <2>3, <2>4 DEF Ledger!Next
<1> QED BY <1>1, <1>2, Refinement, PTL DEF Ledger!Spec, ImplementsLedger
===============================================================================

--------------------------- MODULE ESP32TasksProofs ---------------------------
(***************************************************************************)
(* Proofs about ESP32Tasks, for every nonce space, target and distance: the *)
(* two tasks never outlive the chunk they search and share it without a gap *)
(* or an overlap.                                                          *)
(***************************************************************************)
EXTENDS ESP32Tasks, TLAPS

USE ESP32Assumption

\* The middle of a chunk is a nonce, and lies in a chunk that does not wrap.
LEMMA MiddleIsInside ==
    ASSUME nonce_start \in Nonces, nonce_end \in Nonces
    PROVE  /\ Middle \in Nonces
           /\ nonce_start <= nonce_end => nonce_start <= Middle /\ Middle <= nonce_end
<1>0. /\ \A x \in Int : x % NonceSpace \in Nonces
      /\ \A x \in Nonces : x % NonceSpace = x
  BY SMT DEF Nonces
<1> DEFINE length == (nonce_end - nonce_start) % NonceSpace
           sum == nonce_start + length \div 2
<1>1. length \in Nonces
  <2>1. nonce_end - nonce_start \in Int
    BY DEF Nonces
  <2> QED BY <2>1, <1>0
<1>2. length \div 2 \in Nat /\ length \div 2 <= length
  BY <1>1, SMT DEF Nonces
<1>3. sum \in Int /\ Middle = sum % NonceSpace
  BY <1>2 DEF Middle, Nonces
<1>4. Middle \in Nonces
  BY <1>3, <1>0
<1>5. ASSUME nonce_start <= nonce_end
      PROVE  nonce_start <= Middle /\ Middle <= nonce_end
  <2>1. nonce_end - nonce_start \in Nonces
    BY <1>5 DEF Nonces
  <2>2. length = nonce_end - nonce_start
    BY <2>1, <1>0
  <2> HIDE DEF length
  <2>3. nonce_start <= sum /\ sum <= nonce_end
    BY <2>2, <1>2 DEF Nonces
  <2>4. sum \in Nonces
    BY <2>3, <1>3 DEF Nonces
  <2>5. Middle = sum
    BY <2>4, <1>3, <1>0
  <2> QED BY <2>3, <2>5
<1> QED BY <1>4, <1>5

LEMMA InitIndInv == Init => IndInv
<1> SUFFICES ASSUME Init PROVE IndInv
  OBVIOUS
<1>1. 0 \in Nonces /\ 0 \in Distances
  BY DEF Nonces, Distances
<1>2. TypeOK
  <2>1. connected \in BOOLEAN
    BY Zenon DEF Init
  <2> QED BY <1>1, <2>1, SMT DEF Init, TypeOK
<1>3. FlagsInv
  BY DEF Init, FlagsInv
<1>4. ProgressInv
  <2>1. \A t \in Tasks : pc[t] = "none" /\ hashed[t] = {} /\ loop = "setup"
    BY DEF Init
  <2> QED BY <2>1 DEF ProgressInv, Progress
<1> QED BY <1>2, <1>3, <1>4 DEF IndInv

\* The steps of loop that clear the work or leave the tasks alone.
LEMMA LoopStep ==
    ASSUME IndInv,
           \/ Setup \/ Receive \/ ReceiveDUCOSHA1 \/ ReceiveOther \/ ReceiveMismatch
           \/ ReceiveUnreadable \/ SearchOn \/ SearchEnds \/ Report \/ Restart \/ Update
           \/ Disconnected
    PROVE  IndInv'
<1>1. TypeOK'
  <2>0. TypeOK /\ 0 \in Nonces /\ 0 \in Distances
    BY DEF IndInv, Nonces, Distances
  <2>a. connected' \in BOOLEAN
    BY <2>0, Zenon DEF TypeOK, Setup, Arrives, Receive, ReceiveDUCOSHA1, ReceiveOther,
       ReceiveMismatch, ReceiveUnreadable, SearchOn, SearchEnds, Report, Restart, Update, Boot,
       Disconnected
  <2>b. upToDate' \in BOOLEAN
    BY <2>0, Zenon DEF TypeOK, Setup, Arrives, Receive, ReceiveDUCOSHA1, ReceiveOther,
       ReceiveMismatch, ReceiveUnreadable, SearchOn, SearchEnds, Report, Restart, Update, Boot,
       Disconnected, device
  <2>1. CASE Receive \/ ReceiveDUCOSHA1
    <3>1. /\ works < MaxWorks /\ works' = works + 1 /\ loop' \in {"wait", "search"}
          /\ nonce_start' \in Nonces /\ nonce_end' \in Nonces
          /\ shaNonce' = shaNonce \/ shaNonce' = nonce_start'
          /\ iLastZeroBitsDistance' = iLastZeroBitsDistance \/ iLastZeroBitsDistance' = 0
          /\ hashed' = [t \in Tasks |-> {}]
          /\ UNCHANGED <<uiNonce, uiEndAt, leadingZeroBits, distance>>
      BY <2>1, Zenon DEF Arrives, Receive, ReceiveDUCOSHA1, device, taskVars
    <3>2. /\ bTaskCompleted' = bTaskCompleted \/ bTaskCompleted' = [t \in Tasks |-> FALSE]
          /\ pc' = pc \/ pc' \in [Tasks -> {"created", "failed"}]
      BY <2>1, Zenon DEF Receive, ReceiveDUCOSHA1, CreateTasks
    <3>3. /\ bTaskCompleted' \in [Tasks -> BOOLEAN]
          /\ pc' \in [Tasks -> {"none", "created", "hash", "compare", "store", "check", "failed"}]
      <4>1. [t \in Tasks |-> FALSE] \in [Tasks -> BOOLEAN]
        BY SMT
      <4>2. [Tasks -> {"created", "failed"}] \subseteq
                [Tasks -> {"none", "created", "hash", "compare", "store", "check", "failed"}]
        BY SMT
      <4> QED BY <2>0, <3>2, <4>1, <4>2, Zenon DEF TypeOK
    <3>4. works' \in 0 .. MaxWorks /\ iLastZeroBitsDistance' \in Distances /\ shaNonce' \in Nonces
      BY <2>0, <3>1, SMT DEF TypeOK
    <3>5. hashed' \in [Tasks -> SUBSET Nonces]
      BY <3>1, SMT
    <3> QED BY <2>0, <2>a, <2>b, <3>1, <3>3, <3>4, <3>5, Zenon DEF TypeOK
  <2>2. CASE Setup \/ ReceiveOther \/ ReceiveMismatch
    BY <2>0, <2>a, <2>2, SMT DEF TypeOK, Arrives, Setup, ReceiveOther, ReceiveMismatch, taskVars, device
  <2>3. CASE SearchOn
    <3>1. shaNonce < nonce_end => shaNonce + 1 \in Nonces
      BY <2>0, SMT DEF TypeOK, Nonces
    <3> QED BY <2>0, <2>3, <3>1, SMT DEF TypeOK, SearchOn, loopVars, taskVars
  <2>4. CASE SearchEnds \/ Report \/ Disconnected
    BY <2>0, <2>a, <2>4, SMT DEF TypeOK, SearchEnds, Report, Disconnected, loopVars, taskVars, device
  <2>5. CASE Restart \/ Update \/ ReceiveUnreadable
    <3>1. Boot /\ (works' = works \/ (works < MaxWorks /\ works' = works + 1))
      BY <2>5, Zenon DEF Restart, Update, ReceiveUnreadable, Arrives
    <3>2. works' \in 0 .. MaxWorks
      BY <2>0, <3>1, SMT DEF TypeOK
    <3> QED BY <2>0, <2>a, <2>b, <3>1, <3>2, SMT DEF TypeOK, Boot
  <2> QED BY <2>1, <2>2, <2>3, <2>4, <2>5
<1>2. FlagsInv'
  BY SMT DEF IndInv, FlagsInv, Setup, Arrives, Receive, ReceiveDUCOSHA1, ReceiveOther,
     ReceiveMismatch, ReceiveUnreadable, SearchOn, SearchEnds, Report, Restart, Update, Boot,
     Disconnected, CreateTasks, loopVars, device, taskVars
<1>3. ProgressInv'
  <2>1. CASE Receive \/ ReceiveDUCOSHA1 \/ ReceiveUnreadable \/ Restart \/ Update
    BY <2>1, SMT DEF IndInv, FlagsInv, ProgressInv, Progress, Arrives, Receive, ReceiveDUCOSHA1,
       ReceiveUnreadable, CreateTasks, Restart, Update, Boot, Tasks, taskVars
  <2>2. CASE Setup \/ ReceiveOther \/ ReceiveMismatch \/ SearchOn \/ SearchEnds \/ Report
               \/ Disconnected
    <3>1. /\ UNCHANGED <<nonce_start, nonce_end, pc, uiNonce, uiEndAt, hashed>>
          /\ loop' = "wait" => loop = "wait"
      BY <2>2 DEF Setup, Arrives, ReceiveOther, ReceiveMismatch, SearchOn, SearchEnds, Report,
         Disconnected, loopVars, device, taskVars
    <3> QED BY <3>1 DEF IndInv, ProgressInv, Progress, From, Until, Middle
  <2> QED BY <2>1, <2>2
<1> QED BY <1>1, <1>2, <1>3 DEF IndInv

\* The steps of a task: it runs only while loop waits, and it changes nothing
\* of the other task.
LEMMA TaskStep ==
    ASSUME IndInv, NEW t \in Tasks, MiningTask(t)
    PROVE  IndInv'
<1>1. TypeOK /\ FlagsInv /\ ProgressInv
  BY DEF IndInv
<1>2. /\ Middle \in Nonces
      /\ nonce_start <= nonce_end => nonce_start <= Middle /\ Middle <= nonce_end
  BY <1>1, MiddleIsInside DEF TypeOK
<1>3. /\ UNCHANGED loopVars /\ pc[t] # "none" /\ loop = "wait"
      /\ UNCHANGED <<distance, upToDate, shaNonce>>
  BY <1>1, SMT DEF MiningTask, Begin, Hash, Compare, Store, Check, End, FlagsInv, device
<1>4. Middle' = Middle /\ From(t)' = From(t) /\ Until(t)' = Until(t)
  BY <1>3 DEF Middle, From, Until, loopVars
<1>5. TypeOK'
  <2>1. CASE Begin(t)
    BY <2>1, <1>1, <1>2, SMT DEF TypeOK, Begin, loopVars, device
  <2>2. CASE Hash(t)
    BY <2>2, <1>1, SMT DEF TypeOK, Hash, loopVars, device
  <2>3. CASE Compare(t)
    <3>1. pc[t] = "compare" => uiNonce[t] + 1 \in Nonces
      BY <1>1, SMT DEF TypeOK, ProgressInv, Nonces
    <3> QED BY <2>3, <1>1, <3>1, SMT DEF TypeOK, Compare, loopVars, device
  <2>4. CASE Store(t)
    BY <2>4, <1>1, SMT DEF TypeOK, Store, loopVars, device, taskVars
  <2>5. CASE Check(t)
    <3>1. pc[t] = "check" => uiNonce[t] + 1 \in Nonces
      BY <1>1, SMT DEF TypeOK, ProgressInv, Nonces
    <3>2. connected' \in BOOLEAN
      BY <2>5, <1>1, Zenon DEF TypeOK, Check
    <3> QED BY <2>5, <1>1, <3>1, <3>2, SMT DEF TypeOK, Check, loopVars, device
  <2>6. CASE End(t)
    BY <2>6, <1>1, SMT DEF TypeOK, End, loopVars, device, taskVars
  <2> QED BY <2>1, <2>2, <2>3, <2>4, <2>5, <2>6 DEF MiningTask
<1>6. FlagsInv'
  BY <1>1, <1>3, SMT DEF FlagsInv, TypeOK, MiningTask, Begin, Hash, Compare, Store, Check, End,
     loopVars
<1>7. ProgressInv'
  <2>1. ASSUME NEW u \in Tasks, u # t
        PROVE  /\ pc'[u] = pc[u] /\ uiNonce'[u] = uiNonce[u] /\ uiEndAt'[u] = uiEndAt[u]
               /\ hashed'[u] = hashed[u] /\ From(u)' = From(u) /\ Until(u)' = Until(u)
    BY <2>1, <1>1, <1>3, <1>4, SMT DEF TypeOK, MiningTask, Begin, Hash, Compare, Store, Check,
       End, taskVars, From, Until, loopVars
  <2>2. ASSUME NEW u \in Tasks, u # t, Progress(u) PROVE Progress(u)'
    BY <2>1, <2>2, <1>3 DEF Progress, loopVars
  <2>3. /\ pc'[t] \in {"compare", "store", "check"} => uiNonce'[t] < uiEndAt'[t]
        /\ nonce_start <= nonce_end => Progress(t)'
    <3>0. /\ nonce_start <= nonce_end => Progress(t) /\ From(t) <= Until(t)
          /\ From(t) \in Int /\ Until(t) \in Int /\ uiNonce[t] \in Int /\ uiEndAt[t] \in Int
      BY <1>1, <1>2, SMT DEF ProgressInv, TypeOK, From, Until, Nonces
    <3>1. CASE Begin(t)
      <4>1. /\ pc[t] = "created" /\ pc'[t] = "hash" /\ hashed'[t] = hashed[t]
            /\ uiNonce'[t] = From(t) /\ uiEndAt'[t] = Until(t)
        BY <3>1, <1>1, SMT DEF Begin, TypeOK, From, Until, Tasks
      <4>2. From(t) .. From(t) - 1 = {}
        BY <3>0, SMT
      <4>3. ASSUME nonce_start <= nonce_end PROVE Progress(t)'
        <5>1. hashed'[t] = {} /\ From(t) \in From(t) .. Until(t)
          BY <4>1, <4>3, <3>0, SMT DEF Progress
        <5> QED BY <4>1, <4>2, <5>1, <1>4, Zenon DEF Progress
      <4> QED BY <4>1, <4>3
    <3>2. CASE Hash(t)
      <4>1. /\ pc[t] = "hash" /\ pc'[t] = "compare" /\ uiNonce[t] < uiEndAt[t]
            /\ hashed'[t] = hashed[t] \cup {uiNonce[t]}
            /\ uiNonce'[t] = uiNonce[t] /\ uiEndAt'[t] = uiEndAt[t]
        BY <3>2, <1>1, SMT DEF Hash, TypeOK
      <4>2. ASSUME nonce_start <= nonce_end
            PROVE  /\ hashed'[t] = From(t) .. uiNonce[t]
                   /\ hashed'[t] \subseteq From(t) .. Until(t) - 1
        BY <4>1, <4>2, <3>0, SMT DEF Progress
      <4>3. ASSUME nonce_start <= nonce_end PROVE Progress(t)'
        <5>1. uiEndAt[t] = Until(t) /\ uiNonce[t] \in From(t) .. Until(t)
          BY <4>1, <4>3, <3>0, SMT DEF Progress
        <5> QED BY <4>1, <4>2, <4>3, <5>1, <1>4 DEF Progress
      <4> QED BY <4>1, <4>3
    <3>3. CASE Compare(t) \/ Check(t)
      <4>1. /\ pc[t] \in {"compare", "check"} /\ hashed'[t] = hashed[t] /\ uiEndAt'[t] = uiEndAt[t]
            /\ uiNonce[t] < uiEndAt[t]
            /\ \/ pc'[t] = "hash" /\ uiNonce'[t] = uiNonce[t] + 1
               \/ pc'[t] = "store" /\ uiNonce'[t] = uiNonce[t]
        BY <3>3, <1>1, SMT DEF Compare, Check, TypeOK, ProgressInv
      <4> QED BY <4>1, <3>0, <1>4, SMT DEF Progress
    <3>4. CASE Store(t)
      <4>1. pc[t] = "store" /\ pc'[t] = "check" /\ UNCHANGED <<hashed, uiNonce, uiEndAt>>
        BY <3>4, <1>1, SMT DEF Store, TypeOK, taskVars
      <4> QED BY <4>1, <3>0, <1>1, <1>4, SMT DEF Progress, ProgressInv
    <3>5. CASE End(t)
      <4>1. /\ pc[t] = "hash" /\ pc'[t] = "none" /\ uiNonce[t] >= uiEndAt[t]
            /\ UNCHANGED <<hashed, uiNonce, uiEndAt>>
        BY <3>5, <1>1, SMT DEF End, TypeOK, taskVars
      <4> QED BY <4>1, <3>0, <1>4, SMT DEF Progress
    <3> QED BY <3>1, <3>2, <3>3, <3>4, <3>5 DEF MiningTask
  <2> QED BY <2>1, <2>2, <2>3, <1>1, <1>3 DEF ProgressInv, loopVars
<1> QED BY <1>5, <1>6, <1>7 DEF IndInv

\* IndInv is an invariant of the ESP32 miner.
THEOREM Invariance == Spec => []IndInv
<1>1. IndInv /\ [Next]_vars => IndInv'
  <2> SUFFICES ASSUME IndInv, [Next]_vars PROVE IndInv'
    OBVIOUS
  <2>1. CASE UNCHANGED vars
    BY <2>1 DEF vars, loopVars, device, taskVars, IndInv, TypeOK, FlagsInv, ProgressInv,
       Progress, From, Until, Middle
  <2> QED BY <2>1, LoopStep, TaskStep DEF Next
<1> QED BY InitIndInv, <1>1, PTL DEF Spec

\* No task runs unless loop waits for it: the flags that end the wait are
\* those of the chunk at hand.
THEOREM NoTaskOutlives == Spec => []NoTaskOutlivesItsChunk
<1>1. IndInv => NoTaskOutlivesItsChunk
  BY DEF IndInv, FlagsInv, NoTaskOutlivesItsChunk
<1> QED BY Invariance, <1>1, PTL

\* The halves of a chunk have no nonce in common and together are the chunk.
THEOREM HalvesAreTheChunk == Spec => []HalvesCover
<1>1. IndInv => HalvesCover
  <2> SUFFICES ASSUME IndInv, nonce_start <= nonce_end
               PROVE  /\ hashed[0] \cap hashed[1] = {}
                      /\ BothDone => hashed[0] \cup hashed[1] = nonce_start .. nonce_end - 1
    BY DEF HalvesCover
  <2>1. /\ Middle \in Nonces /\ nonce_start <= Middle /\ Middle <= nonce_end
        /\ nonce_start \in Nonces /\ nonce_end \in Nonces
    BY MiddleIsInside DEF IndInv, TypeOK
  <2>2. hashed[0] \subseteq nonce_start .. Middle - 1 /\ hashed[1] \subseteq Middle .. nonce_end - 1
    BY DEF IndInv, ProgressInv, Progress, From, Until, Tasks
  <2>3. BothDone => /\ hashed[0] = nonce_start .. Middle - 1
                    /\ hashed[1] = Middle .. nonce_end - 1
    BY DEF BothDone, IndInv, FlagsInv, ProgressInv, Progress, From, Until, Tasks
  <2> QED BY <2>1, <2>2, <2>3, SMT DEF Nonces
<1> QED BY Invariance, <1>1, PTL

\* Type correctness of both tasks and of loop, the Middle of a chunk included.
THEOREM TypeCorrect == Spec => []TypeOK
<1>1. IndInv => TypeOK
  BY DEF IndInv
<1> QED BY Invariance, <1>1, PTL
===============================================================================

----------------------------- MODULE HashNetProofs -----------------------------
(***************************************************************************)
(* Proofs about HashNet, for every number of miners, sessions, messages and *)
(* failures: miner and server stay in step, although neither checks it, no  *)
(* pair is searched twice, and before the first failure no pair handed out  *)
(* is lost.  The bookkeeping of the server is that of WorkChunksProofs.     *)
(***************************************************************************)
EXTENDS HashNet, WorkChunksProofs

USE ConstantsAssumption, HashNetAssumption DEF NoJob

\* The server's part of every step is a step of WorkChunks, or clears it all.
LEMMA WorkStep ==
    ASSUME IndInv, [HashNetNext]_allVars
    PROVE  IndInv'
<1>1. CASE ServerRestart
  <2>1. /\ jobId' = NoJob /\ totalJobs' = totalJobs /\ ForgetChunks
        /\ link' = [c \in Clients |-> "absent"]
        /\ extranonce2' = [c \in Clients |-> None]
        /\ startNonce' = [c \in Clients |-> 0] /\ endNonce' = [c \in Clients |-> 0]
        /\ jobID' = [c \in Clients |-> NoJob]
        /\ difficulty' = [c \in Clients |-> 0] /\ score' = [c \in Clients |-> 0]
    BY <1>1 DEF ServerRestart
  <2>2. /\ 0 \in Nonces /\ NoJob \in 0 .. MaxJobs /\ 0 \in 0 .. MaxDifficulty
        /\ 0 \in 0 .. MaxIssued /\ totalJobs \in 0 .. MaxJobs
    BY SMT DEF IndInv, TypeOK, Nonces
  <2>3. TypeOK'
    <3>1. /\ link' \in [Clients -> {"absent", "live", "dead"}]
          /\ extranonce2' \in [Clients -> Extranonce2s \cup {None}]
          /\ startNonce' \in [Clients -> Nonces] /\ endNonce' \in [Clients -> Nonces]
          /\ jobID' \in [Clients -> 0 .. MaxJobs]
          /\ difficulty' \in [Clients -> 0 .. MaxDifficulty]
          /\ score' \in [Clients -> Distances]
      BY <2>1, <2>2
    <3>2. /\ bestExtranonce2' \in [Extranonce2s -> Distances]
          /\ lastEndNonce' \in [Extranonce2s -> Nonces]
          /\ issued' \in [Extranonce2s -> 0 .. MaxIssued]
          /\ handed' \subseteq Chunk
      BY <2>1, <2>2 DEF ForgetChunks
    <3> QED BY <2>1, <2>2, <3>1, <3>2 DEF TypeOK
  <2>4. \A c \in Clients : extranonce2'[c] = None /\ ~ Works(c)'
    BY <2>1 DEF Works
  <2>5. JobsInv' /\ HeldInv' /\ LiveWorkDisjoint'
    BY <2>1, <2>2, <2>4 DEF JobsInv, HeldInv, LiveWorkDisjoint
  <2>6. ChunkOrderInv' /\ ChunkNoncesInv' /\ NothingSkipped'
    BY <2>1 DEF ForgetChunks, ChunkOrderInv, ChunkNoncesInv, NothingSkipped
  <2> QED BY <2>3, <2>5, <2>6 DEF IndInv
<1>2. CASE UNCHANGED allVars
  BY <1>2, NextIndInv DEF allVars
<1>3. CASE HashNetNext /\ ~ ServerRestart
  <2>1. [Next]_vars
    BY <1>3 DEF HashNetNext, Die, Connect, Receive, PassOver, NoticeClosed, Hash, SendStats,
       SendIntoVoid, Find, SendCompleted, ServeStats, ServeCompleted, ServeMisread, ServeIdle,
       Close, Sweep, SweepEarly, End, PoolActs, Next
  <2> QED BY <2>1, NextIndInv
<1> QED BY <1>1, <1>2, <1>3

-------------------------------------------------------------------------------
(***************************************************************************)
(* Sequences of messages.                                                  *)
(***************************************************************************)

LEMMA AppendMessage ==
    ASSUME NEW S, NEW s \in Seq(S), NEW e \in S
    PROVE  /\ Append(s, e) \in Seq(S)
           /\ Len(Append(s, e)) = Len(s) + 1
           /\ Append(s, e) # <<>>
           /\ \A i \in DOMAIN Append(s, e) :
                Append(s, e)[i] = IF i = Len(s) + 1 THEN e ELSE s[i]
           /\ \A i \in DOMAIN Append(s, e) : i # Len(s) + 1 => i \in DOMAIN s
BY SMT

LEMMA TailMessages ==
    ASSUME NEW S, NEW s \in Seq(S), s # <<>>
    PROVE  /\ Tail(s) \in Seq(S)
           /\ Len(Tail(s)) = Len(s) - 1
           /\ Head(s) = s[1] /\ Head(s) \in S /\ 1 \in DOMAIN s
           /\ \A i \in DOMAIN Tail(s) : i + 1 \in DOMAIN s /\ Tail(s)[i] = s[i + 1]
BY SMT

LEMMA NoMessages ==
    ASSUME NEW S, NEW s \in Seq(S)
    PROVE  /\ Len(s) \in Nat
           /\ s = <<>> <=> Len(s) = 0
           /\ DOMAIN s = 1 .. Len(s)
BY SMT

-------------------------------------------------------------------------------
(***************************************************************************)
(* What a step leaves alone.                                               *)
(***************************************************************************)

\* Work of the jobs so far stays work of the jobs so far.
LEMMA WorkStaysGiven ==
    ASSUME totalJobs \in Nat, totalJobs' \in Nat, totalJobs <= totalJobs'
    PROVE  WorkGiven \subseteq WorkGiven'
<1>1. 1 .. totalJobs \subseteq 1 .. totalJobs'
  OBVIOUS
<1> QED BY <1>1 DEF WorkGiven

LEMMA SessionKeeps ==
    ASSUME NEW c \in Clients, SessionInv(c),
           link'[c] = link[c], extranonce2'[c] = extranonce2[c],
           outbox'[c] = outbox[c], OnRecord(c)' = OnRecord(c)
    PROVE  SessionInv(c)'
BY DEF SessionInv

\* A miner is not concerned by what happens to the other sessions.
LEMMA MinerKeeps ==
    ASSUME NEW m \in Miners, MinerInv(m), WorkGiven \subseteq WorkGiven',
           conn'[m] = conn[m], doing'[m] = doing[m],
           inbox'[m] = inbox[m], chunk'[m] = chunk[m],
           conn[m] # NoSession =>
              /\ link'[conn[m]] = link[conn[m]]
              /\ extranonce2'[conn[m]] = extranonce2[conn[m]]
              /\ outbox'[conn[m]] = outbox[conn[m]]
              /\ OnRecord(conn[m])' = OnRecord(conn[m])
    PROVE  MinerInv(m)'
BY DEF MinerInv, TurnInv

LEMMA MinerIsCutOff ==
    ASSUME NEW m \in Miners, MinerInv(m), WorkGiven \subseteq WorkGiven',
           conn'[m] = NoSession, doing'[m] = doing[m],
           inbox'[m] = inbox[m], chunk'[m] = chunk[m]
    PROVE  MinerInv(m)'
BY DEF MinerInv

-------------------------------------------------------------------------------
(***************************************************************************)
(* Steps of a miner.                                                       *)
(***************************************************************************)

\* A step of one miner that sends nothing: the rest keeps what it has.
LEMMA QuietStep ==
    ASSUME StepInv, NEW m \in Miners, UNCHANGED <<vars, outbox>>,
           conn'[m] \in {conn[m], NoSession}, MinerInv(m)',
           \A n \in Miners \ {m} : /\ conn'[n] = conn[n] /\ doing'[n] = doing[n]
                                    /\ inbox'[n] = inbox[n] /\ chunk'[n] = chunk[n]
    PROVE  /\ \A c \in Clients : SessionInv(c)'
           /\ \A n \in Miners : MinerInv(n)'
           /\ ConnInv'
<1>1. /\ UNCHANGED <<link, extranonce2, totalJobs>>
      /\ \A c \in Clients : OnRecord(c)' = OnRecord(c)
  BY DEF vars, jobVars, sessionVars, OnRecord
<1>2. WorkGiven \subseteq WorkGiven'
  BY <1>1 DEF WorkGiven
<1>3. ASSUME NEW c \in Clients PROVE SessionInv(c)'
  BY <1>1, SessionKeeps DEF StepInv
<1>4. ASSUME NEW n \in Miners \ {m} PROVE MinerInv(n)'
  <2>1. conn[n] # NoSession => conn[n] \in Clients
    BY DEF StepInv, MinerTypeOK
  <2> QED BY <1>1, <1>2, <2>1, MinerKeeps DEF StepInv
<1>5. ConnInv'
  BY DEF StepInv, ConnInv
<1> QED BY <1>3, <1>4, <1>5

\* A message is sent during the search; what is not "stats" ends it.
LEMMA SendStep ==
    ASSUME StepInv, NEW m \in Miners, NEW method \in {"stats", "completed", "found"},
           Send(m, method), doing[m] = "searching",
           UNCHANGED <<vars, conn, inbox, chunk>>,
           doing' = [doing EXCEPT ![m] = IF method = "stats" THEN "searching" ELSE "waiting"],
           method = "stats" /\ conn[m] # NoSession => Len(outbox[conn[m]]) < MaxOutbox
    PROVE  /\ \A c \in Clients : SessionInv(c)'
           /\ \A n \in Miners : MinerInv(n)'
           /\ ConnInv'
           /\ outbox' \in [Clients -> Seq(Message)]
           /\ \A c \in Clients : Len(outbox'[c]) <= MaxOutbox + 1
<1> DEFINE message == [method |-> method, work |-> chunk[m]]
<1>1. /\ UNCHANGED <<link, extranonce2, totalJobs>>
      /\ \A c \in Clients : OnRecord(c)' = OnRecord(c)
  BY DEF vars, jobVars, sessionVars, OnRecord
<1>2. WorkGiven \subseteq WorkGiven'
  BY <1>1 DEF WorkGiven
<1>3. /\ doing \in [Miners -> {"connecting", "waiting", "searching"}]
      /\ conn \in [Miners -> Clients \cup {NoSession}]
      /\ outbox \in [Clients -> Seq(Message)]
      /\ \A c \in Clients : Len(outbox[c]) <= MaxOutbox + 1
      /\ message \in Message
  BY DEF StepInv, MinerTypeOK, Message
<1>4. MinerInv(m) /\ inbox[m] = <<>>
  BY DEF StepInv, MinerInv
<1>5. \A c \in Clients : c # conn[m] => outbox'[c] = outbox[c]
  BY DEF Send
<1>6. ASSUME NEW c \in Clients, c = conn[m]
      PROVE  /\ outbox'[c] = Append(outbox[c], message)
             /\ chunk[m] = OnRecord(c) /\ extranonce2[c] # None /\ link[c] = "live"
             /\ Len(outbox[c]) <= MaxOutbox
             /\ \A i \in DOMAIN outbox[c] : outbox[c][i].method = "stats"
  <2>1. c # NoSession
    BY HashNetAssumption
  <2> QED BY <1>4, <1>6, <2>1 DEF Send, MinerInv, TurnInv
<1>7. ASSUME NEW c \in Clients, c = conn[m]
      PROVE  /\ outbox'[c] \in Seq(Message) /\ outbox'[c] # <<>>
             /\ Len(outbox'[c]) = Len(outbox[c]) + 1
             /\ \A i \in DOMAIN outbox'[c] :
                  outbox'[c][i] = IF i = Len(outbox'[c]) THEN message ELSE outbox[c][i]
             /\ \A i \in DOMAIN outbox'[c] : i # Len(outbox'[c]) => i \in DOMAIN outbox[c]
  <2> HIDE DEF message
  <2>1. outbox[c] \in Seq(Message) /\ message \in Message
    BY <1>3
  <2> DEFINE s == Append(outbox[c], message)
  <2>2. /\ s \in Seq(Message) /\ Len(s) = Len(outbox[c]) + 1 /\ s # <<>>
        /\ \A i \in DOMAIN s : s[i] = IF i = Len(outbox[c]) + 1 THEN message ELSE outbox[c][i]
        /\ \A i \in DOMAIN s : i # Len(outbox[c]) + 1 => i \in DOMAIN outbox[c]
    BY <2>1, AppendMessage
  <2> HIDE DEF s
  <2>3. outbox'[c] = s
    BY <1>6, <1>7 DEF s
  <2> QED BY <2>2, <2>3
<1>8. \A c \in Clients : outbox'[c] \in Seq(Message) /\ Len(outbox'[c]) <= MaxOutbox + 1
  <2> SUFFICES ASSUME NEW c \in Clients
               PROVE  outbox'[c] \in Seq(Message) /\ Len(outbox'[c]) <= MaxOutbox + 1
    OBVIOUS
  <2>1. CASE c = conn[m]
    <3>1. Len(outbox[c]) \in Nat
      BY <1>3, NoMessages
    <3> QED BY <2>1, <3>1, <1>6, <1>7
  <2>2. CASE c # conn[m]
    BY <2>2, <1>3, <1>5
  <2> QED BY <2>1, <2>2
<1>9. outbox' \in [Clients -> Seq(Message)]
  BY <1>8 DEF Send
<1>10. ASSUME NEW c \in Clients PROVE SessionInv(c)'
  <2>1. SessionInv(c)
    BY DEF StepInv
  <2>2. CASE c = conn[m]
    <3>1. message.work = OnRecord(c)
      BY <1>6, <2>2
    <3>2. \A i \in DOMAIN outbox[c] : outbox[c][i].work = OnRecord(c)
      BY <2>1 DEF SessionInv
    <3> HIDE DEF message
    <3>3. \A i \in DOMAIN outbox'[c] : outbox'[c][i].work = OnRecord(c)
      BY <1>7, <2>2, <3>1, <3>2
    <3>4. \A i \in DOMAIN outbox'[c] : outbox'[c][i].method # "stats" => i = Len(outbox'[c])
      BY <1>6, <1>7, <2>2
    <3>5. link'[c] # "absent" /\ extranonce2'[c] # None /\ OnRecord(c)' = OnRecord(c)
      BY <1>1, <1>6, <2>2
    <3> QED BY <3>3, <3>4, <3>5 DEF SessionInv
  <2>3. CASE c # conn[m]
    BY <1>1, <1>5, <2>1, <2>3, SessionKeeps
  <2> QED BY <2>2, <2>3
<1>11. ASSUME NEW n \in Miners \ {m} PROVE MinerInv(n)'
  <2>1. conn[n] # NoSession => conn[n] \in Clients /\ conn[n] # conn[m]
    BY <1>3 DEF StepInv, ConnInv
  <2>2. doing'[n] = doing[n]
    BY <1>3
  <2> QED BY <1>1, <1>2, <1>5, <2>1, <2>2, MinerKeeps DEF StepInv
<1>12. MinerInv(m)'
  <2>1. doing'[m] = IF method = "stats" THEN "searching" ELSE "waiting"
    BY <1>3
  <2>2. chunk'[m] \in WorkGiven'
    BY <1>2, <1>4 DEF MinerInv
  <2>3. ASSUME conn[m] # NoSession PROVE TurnInv(m, conn[m])'
    <3>1. conn[m] \in Clients /\ conn'[m] = conn[m]
      BY <1>3, <2>3
    <3>2. method = "stats" => /\ Len(outbox'[conn[m]]) <= MaxOutbox
                             /\ \A i \in DOMAIN outbox'[conn[m]] : outbox'[conn[m]][i].method = "stats"
      <4>1. Len(outbox[conn[m]]) \in Nat
        BY <1>3, <3>1, NoMessages
      <4>2. method = "stats" => message.method = "stats"
        OBVIOUS
      <4> HIDE DEF message
      <4> QED BY <1>6, <1>7, <2>3, <3>1, <4>1, <4>2
    <3> QED BY <1>1, <1>4, <1>6, <2>1, <3>1, <3>2 DEF TurnInv
  <2> QED BY <1>4, <2>1, <2>2, <2>3 DEF MinerInv
<1>13. ConnInv'
  BY DEF StepInv, ConnInv
<1> QED BY <1>8, <1>9, <1>10, <1>11, <1>12, <1>13

\* Work is work of the bounded number of jobs.
LEMMA GivenIsWork ==
    ASSUME totalJobs \in 0 .. MaxJobs
    PROVE  /\ WorkGiven \subseteq Work
           /\ \A w \in WorkGiven : /\ w.job \in 1 .. MaxJobs /\ w.extranonce2 \in Extranonce2s
                                   /\ w.startNonce \in Nonces /\ w.endNonce \in Nonces
<1>1. 1 .. totalJobs \subseteq 1 .. MaxJobs /\ 1 .. MaxJobs \subseteq 0 .. MaxJobs
  OBVIOUS
<1> QED BY <1>1 DEF WorkGiven, Work

LEMMA NoWorkIsWork == NoWork \in Work /\ 0 \in Nonces
<1>1. 0 \in Nonces /\ 0 \in 0 .. MaxJobs
  BY DEF Nonces
<1> QED BY <1>1 DEF NoWork, Work

\* A process that ends and starts again.
LEMMA RestartStep ==
    ASSUME StepInv, NEW m \in Miners, Restart(m), UNCHANGED <<vars, outbox, searched>>,
           failures' \in 0 .. MaxFailures
    PROVE  /\ MinerTypeOK'
           /\ \A c \in Clients : SessionInv(c)'
           /\ \A n \in Miners : MinerInv(n)'
           /\ ConnInv'
<1>1. MinerTypeOK
  BY DEF StepInv
<1>2. MinerTypeOK'
  <2>1. /\ conn' \in [Miners -> Clients \cup {NoSession}]
        /\ doing' \in [Miners -> {"connecting", "waiting", "searching"}]
        /\ chunk' \in [Miners -> Work]
        /\ at' \in [Miners -> Nonces]
    BY <1>1, NoWorkIsWork DEF Restart, MinerTypeOK
  <2>2. inbox' \in [Miners -> Seq(Work)] /\ \A n \in Miners : Len(inbox'[n]) <= 1
    BY <1>1 DEF Restart, MinerTypeOK
  <2> QED BY <1>1, <2>1, <2>2 DEF MinerTypeOK
<1>3. conn'[m] = NoSession /\ doing'[m] = "connecting" /\ inbox'[m] = <<>>
  BY <1>1 DEF Restart, MinerTypeOK
<1>4. MinerInv(m)'
  BY <1>3 DEF MinerInv
<1>5. \A n \in Miners \ {m} : /\ conn'[n] = conn[n] /\ doing'[n] = doing[n]
                              /\ inbox'[n] = inbox[n] /\ chunk'[n] = chunk[n]
  BY <1>1 DEF Restart, MinerTypeOK
<1> QED BY <1>2, <1>3, <1>4, <1>5, QuietStep

\* A miner takes the work that is under way to it.
LEMMA ReceiveStep ==
    ASSUME StepInv, NEW m \in Miners, Receive(m)
    PROVE  /\ MinerTypeOK'
           /\ \A c \in Clients : SessionInv(c)'
           /\ \A n \in Miners : MinerInv(n)'
           /\ ConnInv'
<1>1. MinerTypeOK /\ MinerInv(m)
  BY DEF StepInv
<1>2. totalJobs \in 0 .. MaxJobs
  BY DEF StepInv, IndInv, TypeOK
<1>3. /\ inbox[m] \in Seq(Work) /\ inbox[m] # <<>> /\ inbox[m][1] \in WorkGiven
      /\ conn[m] \in Clients \cup {NoSession}
  BY <1>1 DEF Receive, MinerTypeOK, MinerInv
<1>4. Head(inbox[m]) = inbox[m][1]
  BY <1>3, TailMessages
<1>5. /\ inbox' = [inbox EXCEPT ![m] = <<>>]
      /\ chunk' = [chunk EXCEPT ![m] = inbox[m][1]]
      /\ at' = [at EXCEPT ![m] = inbox[m][1].startNonce]
      /\ doing' = [doing EXCEPT ![m] = "searching"]
      /\ UNCHANGED <<vars, conn, outbox, searched, failures>>
  BY <1>4 DEF Receive
<1>6. MinerTypeOK'
  <2>1. /\ doing' \in [Miners -> {"connecting", "waiting", "searching"}]
        /\ chunk' \in [Miners -> Work]
        /\ at' \in [Miners -> Nonces]
    BY <1>1, <1>2, <1>3, <1>5, GivenIsWork DEF MinerTypeOK
  <2>2. inbox' \in [Miners -> Seq(Work)] /\ \A n \in Miners : Len(inbox'[n]) <= 1
    BY <1>1, <1>5 DEF MinerTypeOK
  <2> QED BY <1>1, <1>5, <2>1, <2>2 DEF MinerTypeOK
<1>7. /\ conn'[m] = conn[m] /\ doing'[m] = "searching" /\ inbox'[m] = <<>>
      /\ chunk'[m] = inbox[m][1]
  BY <1>1, <1>5 DEF MinerTypeOK
<1>8. /\ UNCHANGED <<link, extranonce2, totalJobs>> /\ WorkGiven' = WorkGiven
      /\ \A c \in Clients : OnRecord(c)' = OnRecord(c)
  BY <1>5 DEF vars, jobVars, sessionVars, OnRecord, WorkGiven
<1>9. ASSUME conn[m] # NoSession PROVE TurnInv(m, conn[m])'
  <2>1. /\ conn[m] \in Clients /\ outbox'[conn[m]] = <<>> /\ inbox[m][1] = OnRecord(conn[m])
        /\ extranonce2[conn[m]] # None /\ link[conn[m]] = "live"
    BY <1>1, <1>3, <1>5, <1>9 DEF MinerInv, TurnInv
  <2>2. /\ Len(outbox'[conn[m]]) <= MaxOutbox
        /\ \A i \in DOMAIN outbox'[conn[m]] : outbox'[conn[m]][i].method = "stats"
    BY <2>1
  <2> QED BY <1>7, <1>8, <2>1, <2>2 DEF TurnInv
<1>10. MinerInv(m)'
  BY <1>3, <1>7, <1>8, <1>9 DEF MinerInv
<1>11. \A n \in Miners \ {m} : /\ conn'[n] = conn[n] /\ doing'[n] = doing[n]
                               /\ inbox'[n] = inbox[n] /\ chunk'[n] = chunk[n]
  BY <1>1, <1>5 DEF MinerTypeOK
<1> QED BY <1>5, <1>6, <1>7, <1>10, <1>11, QuietStep

\* A nonce that is left is a nonce, and so is the next one.
LEMMA LeftIsNonces ==
    ASSUME StepInv, NEW m \in Miners
    PROVE  /\ Left(m) \subseteq Nonces
           /\ at[m] \in Left(m) => at[m] + 1 \in Nonces /\ doing[m] = "searching"
<1>1. at[m] \in Nonces /\ chunk[m] \in Work
  BY DEF StepInv, MinerTypeOK
<1>2. chunk[m].endNonce \in Nonces
  BY <1>1 DEF Work
<1> QED BY <1>1, <1>2 DEF Left, Nonces

\* The pair that is hashed is of a job and an extranonce2.
LEMMA HashedIsAPair ==
    ASSUME StepInv, NEW m \in Miners, at[m] \in Left(m)
    PROVE  searched \cup {<<chunk[m].job, chunk[m].extranonce2, at[m]>>}
                \subseteq (1 .. MaxJobs) \X Extranonce2s \X Nonces
<1>1. totalJobs \in 0 .. MaxJobs /\ chunk[m] \in WorkGiven /\ at[m] \in Nonces
  BY LeftIsNonces DEF StepInv, IndInv, TypeOK, MinerInv
<1>2. chunk[m].job \in 1 .. MaxJobs /\ chunk[m].extranonce2 \in Extranonce2s
  BY <1>1, GivenIsWork
<1> QED BY <1>1, <1>2 DEF StepInv, MinerTypeOK

\* All steps of a miner but the one that connects it.
LEMMA MinerStep ==
    ASSUME StepInv, NEW m \in Miners,
           \/ Die(m) \/ Receive(m) \/ PassOver(m) \/ NoticeClosed(m) \/ Hash(m)
           \/ SendStats(m) \/ SendIntoVoid(m) \/ Find(m) \/ SendCompleted(m)
    PROVE  /\ MinerTypeOK'
           /\ \A c \in Clients : SessionInv(c)'
           /\ \A n \in Miners : MinerInv(n)'
           /\ ConnInv'
<1>1. MinerTypeOK /\ MinerInv(m)
  BY DEF StepInv
<1>2. Failure => failures' \in 0 .. MaxFailures
  BY <1>1 DEF Failure, MinerTypeOK
<1>3. CASE Die(m)
  BY <1>2, <1>3, RestartStep DEF Die
<1>4. CASE Receive(m)
  BY <1>4, ReceiveStep
<1>5. CASE PassOver(m)
  <2>1. /\ inbox' = [inbox EXCEPT ![m] = <<>>] /\ failures' \in 0 .. MaxFailures
        /\ UNCHANGED <<vars, conn, doing, chunk, at, outbox, searched>>
    BY <1>2, <1>5 DEF PassOver
  <2>2. inbox' \in [Miners -> Seq(Work)] /\ \A n \in Miners : Len(inbox'[n]) <= 1
    BY <1>1, <2>1 DEF MinerTypeOK
  <2>3. MinerTypeOK'
    BY <1>1, <2>1, <2>2 DEF MinerTypeOK
  <2>4. doing[m] = "waiting" /\ inbox'[m] = <<>>
    BY <1>1, <1>5, <2>1 DEF PassOver, MinerTypeOK
  <2>5. MinerInv(m)'
    <3>1. UNCHANGED <<link, extranonce2, OnRecord(conn[m]), totalJobs>>
      BY <2>1 DEF vars, jobVars, sessionVars, OnRecord
    <3> QED BY <1>1, <2>1, <2>4, <3>1 DEF MinerInv, TurnInv
  <2>6. \A n \in Miners \ {m} : inbox'[n] = inbox[n]
    BY <1>1, <2>1 DEF MinerTypeOK
  <2> QED BY <2>1, <2>3, <2>5, <2>6, QuietStep
<1>6. CASE NoticeClosed(m)
  <2>1. /\ doing' = [doing EXCEPT ![m] = "connecting"]
        /\ conn[m] = NoSession /\ inbox[m] = <<>>
        /\ UNCHANGED <<vars, conn, inbox, chunk, at, outbox, searched, failures>>
    BY <1>6 DEF NoticeClosed
  <2>2. MinerTypeOK' /\ doing'[m] = "connecting"
    BY <1>1, <2>1 DEF MinerTypeOK
  <2>3. MinerInv(m)'
    BY <2>1, <2>2 DEF MinerInv
  <2>4. \A n \in Miners \ {m} : doing'[n] = doing[n]
    BY <1>1, <2>1 DEF MinerTypeOK
  <2> QED BY <2>1, <2>2, <2>3, <2>4, QuietStep
<1>7. CASE Hash(m)
  <2>1. /\ at[m] \in Left(m)
        /\ searched' = searched \cup {<<chunk[m].job, chunk[m].extranonce2, at[m]>>}
        /\ at' = [at EXCEPT ![m] = at[m] + 1]
        /\ UNCHANGED <<vars, conn, doing, inbox, chunk, outbox, failures>>
    BY <1>7 DEF Hash
  <2>2. at' \in [Miners -> Nonces]
    BY <1>1, <2>1, LeftIsNonces DEF MinerTypeOK
  <2>3. searched' \subseteq (1 .. MaxJobs) \X Extranonce2s \X Nonces
    BY <2>1, HashedIsAPair
  <2>4. MinerTypeOK'
    BY <1>1, <2>1, <2>2, <2>3 DEF MinerTypeOK
  <2>5. UNCHANGED <<link, extranonce2, totalJobs, OnRecord(conn[m]), WorkGiven>>
    BY <2>1 DEF vars, jobVars, sessionVars, OnRecord, WorkGiven
  <2>6. MinerInv(m)'
    BY <1>1, <2>1, <2>5 DEF MinerInv, TurnInv
  <2> QED BY <2>1, <2>4, <2>6, QuietStep
<1>8. CASE SendIntoVoid(m)
  <2>1. failures' \in 0 .. MaxFailures
    BY <1>1, <1>8 DEF SendIntoVoid, MinerTypeOK
  <2> QED BY <1>8, <2>1, RestartStep DEF SendIntoVoid
<1>9. CASE SendStats(m)
  <2>1. /\ doing' = [doing EXCEPT ![m] = "searching"] /\ Send(m, "stats")
        /\ doing[m] = "searching" /\ Len(outbox[conn[m]]) < MaxOutbox
        /\ UNCHANGED <<vars, conn, doing, inbox, chunk, at, searched, failures>>
    BY <1>1, <1>9 DEF SendStats, MinerTypeOK
  <2> QED BY <1>1, <2>1, SendStep DEF MinerTypeOK
<1>10. CASE Find(m)
  <2>1. /\ at[m] \in Left(m) /\ doing[m] = "searching" /\ Send(m, "found")
        /\ searched' = searched \cup {<<chunk[m].job, chunk[m].extranonce2, at[m]>>}
        /\ doing' = [doing EXCEPT ![m] = "waiting"] /\ failures' \in 0 .. MaxFailures
        /\ UNCHANGED <<vars, conn, inbox, chunk, at>>
    BY <1>2, <1>10, LeftIsNonces DEF Find
  <2>2. searched' \subseteq (1 .. MaxJobs) \X Extranonce2s \X Nonces
    BY <2>1, HashedIsAPair
  <2>3. doing' \in [Miners -> {"connecting", "waiting", "searching"}]
    BY <1>1, <2>1 DEF MinerTypeOK
  <2> QED BY <1>1, <2>1, <2>2, <2>3, SendStep DEF MinerTypeOK
<1>11. CASE SendCompleted(m)
  <2>1. /\ doing[m] = "searching" /\ Send(m, "completed")
        /\ doing' = [doing EXCEPT ![m] = "waiting"]
        /\ UNCHANGED <<vars, conn, inbox, chunk, at, searched, failures>>
    BY <1>11 DEF SendCompleted
  <2>2. doing' \in [Miners -> {"connecting", "waiting", "searching"}]
    BY <1>1, <2>1 DEF MinerTypeOK
  <2> QED BY <1>1, <2>1, <2>2, SendStep DEF MinerTypeOK
<1> QED BY <1>3, <1>4, <1>5, <1>6, <1>7, <1>8, <1>9, <1>10, <1>11

\* A new session, with nothing under way in either direction.
LEMMA ConnectStep ==
    ASSUME StepInv, NEW m \in Miners, Connect(m)
    PROVE  /\ MinerTypeOK'
           /\ \A c \in Clients : SessionInv(c)'
           /\ \A n \in Miners : MinerInv(n)'
           /\ ConnInv'
<1>1. PICK c \in Clients : Accept(c) /\ conn' = [conn EXCEPT ![m] = c]
  BY DEF Connect
<1>2. MinerTypeOK /\ MinerInv(m) /\ SessionInv(c) /\ link \in [Clients -> {"absent", "live", "dead"}]
  BY DEF StepInv, IndInv, TypeOK
<1>3. /\ doing' = [doing EXCEPT ![m] = "waiting"] /\ doing[m] = "connecting"
      /\ UNCHANGED <<inbox, chunk, at, outbox, searched, failures>>
  BY DEF Connect
<1>4. /\ link[c] = "absent" /\ link' = [link EXCEPT ![c] = "live"]
      /\ UNCHANGED <<extranonce2, totalJobs>> /\ WorkGiven' = WorkGiven
      /\ \A d \in Clients : OnRecord(d)' = OnRecord(d)
  BY <1>1 DEF Accept, jobVars, OnRecord, WorkGiven
<1>5. extranonce2[c] = None /\ outbox[c] = <<>> /\ inbox[m] = <<>>
  BY <1>2, <1>3, <1>4 DEF SessionInv, MinerInv
<1>6. \A n \in Miners : conn[n] # c
  <2> SUFFICES ASSUME NEW n \in Miners, conn[n] = c PROVE FALSE
    OBVIOUS
  <2>1. MinerInv(n) /\ c # NoSession
    BY DEF StepInv
  <2> QED BY <1>4, <2>1 DEF MinerInv, TurnInv
<1>7. MinerTypeOK'
  BY <1>1, <1>2, <1>3 DEF MinerTypeOK
<1>8. conn'[m] = c /\ doing'[m] = "waiting" /\ link'[c] = "live"
  BY <1>1, <1>2, <1>3, <1>4 DEF MinerTypeOK
<1>9. ASSUME NEW d \in Clients PROVE SessionInv(d)'
  <2>1. CASE d = c
    BY <1>3, <1>4, <1>5, <1>8, <2>1 DEF SessionInv
  <2>2. CASE d # c
    BY <1>2, <1>3, <1>4, <2>2, SessionKeeps DEF StepInv
  <2> QED BY <2>1, <2>2
<1>10. MinerInv(m)'
  BY <1>3, <1>4, <1>5, <1>8 DEF MinerInv, TurnInv
<1>11. ASSUME NEW n \in Miners \ {m} PROVE MinerInv(n)'
  <2>1. conn[n] # NoSession => conn[n] \in Clients /\ conn[n] # c
    BY <1>2, <1>6 DEF MinerTypeOK
  <2>2. conn'[n] = conn[n] /\ doing'[n] = doing[n] /\ MinerInv(n)
    BY <1>1, <1>2, <1>3 DEF MinerTypeOK, StepInv
  <2>3. conn[n] # NoSession => link'[conn[n]] = link[conn[n]]
    BY <1>2, <1>4, <2>1
  <2> QED BY <1>3, <1>4, <2>1, <2>2, <2>3, MinerKeeps
<1>12. ConnInv'
  BY <1>1, <1>2, <1>6 DEF ConnInv, MinerTypeOK, StepInv
<1> QED BY <1>7, <1>9, <1>10, <1>11, <1>12

-------------------------------------------------------------------------------
(***************************************************************************)
(* Steps of the server.                                                    *)
(***************************************************************************)

\* The chunk put on record is work, and the other sessions keep theirs.
LEMMA RecordStep ==
    ASSUME StepInv, IndInv', Ready, NEW c \in Clients, NEW diff, Distribute(c, diff),
           UNCHANGED totalJobs
    PROVE  /\ OnRecord(c)' \in WorkGiven' /\ extranonce2'[c] # None
           /\ \A d \in Clients \ {c} :
                OnRecord(d)' = OnRecord(d) /\ extranonce2'[d] = extranonce2[d]
<1>1. TypeOK /\ TypeOK' /\ JobsInv
  BY DEF StepInv, IndInv
<1>2. PICK e, s, t :
        /\ e \in Extranonce2s
        /\ startNonce' = [startNonce EXCEPT ![c] = s]
        /\ endNonce' = [endNonce EXCEPT ![c] = t]
        /\ extranonce2' = [extranonce2 EXCEPT ![c] = e]
        /\ jobID' = [jobID EXCEPT ![c] = jobId]
  BY DEF Distribute, GetNextExtranonce2
<1>3. extranonce2'[c] = e /\ jobID'[c] = jobId
  BY <1>1, <1>2 DEF TypeOK
<1>4. startNonce'[c] \in Nonces /\ endNonce'[c] \in Nonces
  BY <1>1 DEF TypeOK
<1>5. jobId \in 1 .. totalJobs'
  BY <1>1 DEF TypeOK, JobsInv, Ready
<1>6. OnRecord(c)' \in WorkGiven'
  <2>1. OnRecord(c)' = [job |-> jobId, extranonce2 |-> e,
                        startNonce |-> startNonce'[c], endNonce |-> endNonce'[c]]
    BY <1>3 DEF OnRecord
  <2> QED BY <1>2, <1>4, <1>5, <2>1 DEF WorkGiven
<1>7. ASSUME NEW d \in Clients \ {c}
      PROVE  OnRecord(d)' = OnRecord(d) /\ extranonce2'[d] = extranonce2[d]
  <2>1. /\ startNonce'[d] = startNonce[d] /\ endNonce'[d] = endNonce[d]
        /\ extranonce2'[d] = extranonce2[d] /\ jobID'[d] = jobID[d]
    BY <1>1, <1>2 DEF TypeOK
  <2> QED BY <2>1 DEF OnRecord
<1>8. extranonce2'[c] # None
  BY <1>2, <1>3, ConstantsAssumption DEF ConstantsAssumption
<1> QED BY <1>6, <1>7, <1>8

\* A session that has its turn is given work, and the work is sent.
LEMMA DeliverStep ==
    ASSUME StepInv, IndInv', Ready, NEW c \in Clients, NEW diff, Distribute(c, diff),
           Deliver(c), link[c] # "absent",
           UNCHANGED <<totalJobs, link, conn, doing, chunk>>,
           outbox'[c] = <<>>, \A d \in Clients \ {c} : outbox'[d] = outbox[d],
           \A m \in Miners : conn[m] = c => doing[m] = "waiting" /\ inbox[m] = <<>>
    PROVE  /\ inbox' \in [Miners -> Seq(Work)] /\ \A m \in Miners : Len(inbox'[m]) <= 1
           /\ \A d \in Clients : SessionInv(d)'
           /\ \A m \in Miners : MinerInv(m)'
           /\ ConnInv'
<1> DEFINE w == OnRecord(c)'
<1>1. /\ w \in WorkGiven' /\ extranonce2'[c] # None
      /\ \A d \in Clients \ {c} :
            OnRecord(d)' = OnRecord(d) /\ extranonce2'[d] = extranonce2[d]
  BY RecordStep
<1>2. MinerTypeOK /\ totalJobs \in 0 .. MaxJobs /\ WorkGiven' = WorkGiven
  BY DEF StepInv, IndInv, TypeOK, WorkGiven
<1>3. w \in Work
  BY <1>1, <1>2, GivenIsWork
<1>4. inbox' = [m \in Miners |-> IF conn[m] = c THEN Append(inbox[m], w) ELSE inbox[m]]
  BY DEF Deliver, OnRecord
<1> HIDE DEF w
<1>5. ASSUME NEW m \in Miners, conn[m] = c
      PROVE  /\ inbox'[m] \in Seq(Work) /\ Len(inbox'[m]) = 1
             /\ inbox'[m] # <<>> /\ inbox'[m][1] = w
  <2>1. inbox'[m] = Append(<<>>, w)
    BY <1>4, <1>5
  <2> QED BY <1>3, <2>1, SMT
<1>6. ASSUME NEW m \in Miners, conn[m] # c
      PROVE  inbox'[m] = inbox[m] /\ inbox'[m] \in Seq(Work) /\ Len(inbox'[m]) <= 1
  BY <1>2, <1>4, <1>6 DEF MinerTypeOK
<1>7. inbox' \in [Miners -> Seq(Work)] /\ \A m \in Miners : Len(inbox'[m]) <= 1
  BY <1>4, <1>5, <1>6
<1>8. ASSUME NEW d \in Clients PROVE SessionInv(d)'
  <2>1. CASE d = c
    <3>1. outbox'[c] = <<>> /\ DOMAIN outbox'[c] = {} /\ link'[c] # "absent"
      OBVIOUS
    <3> QED BY <1>1, <2>1, <3>1 DEF SessionInv
  <2>2. CASE d # c
    BY <1>1, <2>2, SessionKeeps DEF StepInv
  <2> QED BY <2>1, <2>2
<1>9. ASSUME NEW m \in Miners PROVE MinerInv(m)'
  <2>1. MinerInv(m) /\ (conn[m] # NoSession => conn[m] \in Clients)
    BY <1>2 DEF StepInv, MinerTypeOK
  <2>2. CASE conn[m] = c
    <3>1. c # NoSession
      OBVIOUS
    <3>2. link[c] = "live"
      BY <2>1, <2>2, <3>1 DEF MinerInv, TurnInv
    <3> QED BY <1>1, <1>5, <2>2, <3>2 DEF w, MinerInv, TurnInv
  <2>3. CASE conn[m] # c
    BY <1>1, <1>2, <1>6, <2>1, <2>3, MinerKeeps
  <2> QED BY <2>2, <2>3
<1>10. ConnInv'
  BY DEF StepInv, ConnInv
<1> QED BY <1>7, <1>8, <1>9, <1>10

\* What a session receives is taken in order.
LEMMA TakenStep ==
    ASSUME StepInv, NEW c \in Clients, outbox[c] # <<>>, Taken(c)
    PROVE  /\ outbox' \in [Clients -> Seq(Message)]
           /\ \A d \in Clients : Len(outbox'[d]) <= MaxOutbox + 1
           /\ \A d \in Clients \ {c} : outbox'[d] = outbox[d]
           /\ Head(outbox[c]) = outbox[c][1] /\ 1 \in DOMAIN outbox[c]
           /\ Len(outbox'[c]) = Len(outbox[c]) - 1
           /\ \A i \in DOMAIN outbox'[c] :
                i + 1 \in DOMAIN outbox[c] /\ outbox'[c][i] = outbox[c][i + 1]
<1>1. /\ outbox \in [Clients -> Seq(Message)]
      /\ \A d \in Clients : Len(outbox[d]) <= MaxOutbox + 1
  BY DEF StepInv, MinerTypeOK
<1>2. outbox' = [outbox EXCEPT ![c] = Tail(outbox[c])] /\ outbox'[c] = Tail(outbox[c])
  BY <1>1 DEF Taken
<1>3. outbox[c] \in Seq(Message)
  BY <1>1
<1>4. /\ Tail(outbox[c]) \in Seq(Message)
      /\ Len(Tail(outbox[c])) = Len(outbox[c]) - 1
      /\ Head(outbox[c]) = outbox[c][1] /\ 1 \in DOMAIN outbox[c]
      /\ \A i \in DOMAIN Tail(outbox[c]) :
            i + 1 \in DOMAIN outbox[c] /\ Tail(outbox[c])[i] = outbox[c][i + 1]
  BY <1>3, TailMessages
<1>5. \A d \in Clients \ {c} : outbox'[d] = outbox[d]
  BY <1>1, <1>2
<1>6. Len(outbox[c]) \in Nat /\ Len(outbox[c]) <= MaxOutbox + 1
  BY <1>1, <1>3, NoMessages
<1>7. outbox' \in [Clients -> Seq(Message)]
  BY <1>1, <1>2, <1>4
<1>8. \A d \in Clients : Len(outbox'[d]) <= MaxOutbox + 1
  BY <1>1, <1>2, <1>4, <1>5, <1>6
<1> QED BY <1>2, <1>4, <1>5, <1>7, <1>8

\* "stats" changes nothing of the turn.
LEMMA StatsStep ==
    ASSUME StepInv, NEW c \in Clients, ServeStats(c)
    PROVE  /\ MinerTypeOK'
           /\ \A d \in Clients : SessionInv(d)'
           /\ \A m \in Miners : MinerInv(m)'
           /\ ConnInv'
<1>1. /\ outbox[c] # <<>> /\ Taken(c) /\ extranonce2[c] # None /\ link[c] # "absent"
      /\ UNCHANGED <<conn, doing, inbox, chunk, at, searched, failures>>
      /\ UNCHANGED <<link, extranonce2, totalJobs, startNonce, endNonce, jobID>>
  BY DEF ServeStats, Reads, Report
<1>2. MinerTypeOK /\ SessionInv(c)
  BY DEF StepInv
<1>3. /\ outbox' \in [Clients -> Seq(Message)]
      /\ \A d \in Clients : Len(outbox'[d]) <= MaxOutbox + 1
      /\ \A d \in Clients \ {c} : outbox'[d] = outbox[d]
      /\ Len(outbox'[c]) = Len(outbox[c]) - 1
      /\ \A i \in DOMAIN outbox'[c] :
            i + 1 \in DOMAIN outbox[c] /\ outbox'[c][i] = outbox[c][i + 1]
  BY <1>1, TakenStep
<1>4. outbox[c] \in Seq(Message) /\ outbox'[c] \in Seq(Message)
  BY <1>2, <1>3 DEF MinerTypeOK
<1>5. /\ Len(outbox[c]) \in Nat /\ Len(outbox'[c]) \in Nat
      /\ DOMAIN outbox'[c] = 1 .. Len(outbox'[c])
  BY <1>4, NoMessages
<1>6. WorkGiven' = WorkGiven /\ \A d \in Clients : OnRecord(d)' = OnRecord(d)
  BY <1>1 DEF WorkGiven, OnRecord
<1>7. SessionInv(c)'
  <2>1. \A i \in DOMAIN outbox'[c] : outbox'[c][i].work = OnRecord(c)
    BY <1>2, <1>3 DEF SessionInv
  <2>2. \A i \in DOMAIN outbox'[c] : outbox'[c][i].method # "stats" => i = Len(outbox'[c])
    BY <1>2, <1>3, <1>5 DEF SessionInv
  <2> QED BY <1>1, <1>6, <2>1, <2>2 DEF SessionInv
<1>8. \A d \in Clients \ {c} : SessionInv(d)'
  BY <1>1, <1>3, <1>6, SessionKeeps DEF StepInv
<1>9. ASSUME NEW m \in Miners PROVE MinerInv(m)'
  <2>1. MinerInv(m) /\ (conn[m] # NoSession => conn[m] \in Clients)
    BY <1>2 DEF StepInv, MinerTypeOK
  <2>2. CASE conn[m] = c
    <3>1. c # NoSession
      OBVIOUS
    <3>2. TurnInv(m, c)
      BY <2>1, <2>2, <3>1 DEF MinerInv
    <3>3. doing[m] = "searching" => /\ Len(outbox'[c]) <= MaxOutbox
                                   /\ \A i \in DOMAIN outbox'[c] : outbox'[c][i].method = "stats"
      BY <1>3, <1>5, <3>2 DEF TurnInv
    <3>4. TurnInv(m, c)'
      BY <1>1, <1>6, <3>2, <3>3 DEF TurnInv
    <3> QED BY <1>1, <1>6, <2>1, <2>2, <3>4 DEF MinerInv
  <2>3. CASE conn[m] # c
    BY <1>1, <1>3, <1>6, <2>1, <2>3, MinerKeeps
  <2> QED BY <2>2, <2>3
<1>10. MinerTypeOK'
  BY <1>1, <1>2, <1>3 DEF MinerTypeOK
<1>11. ConnInv'
  BY <1>1 DEF StepInv, ConnInv
<1> QED BY <1>7, <1>8, <1>9, <1>10, <1>11

\* "completed" is the last message, and its miner waits.
LEMMA CompletedStep ==
    ASSUME StepInv, IndInv', NEW c \in Clients, ServeCompleted(c)
    PROVE  /\ MinerTypeOK'
           /\ \A d \in Clients : SessionInv(d)'
           /\ \A m \in Miners : MinerInv(m)'
           /\ ConnInv'
<1>1. /\ outbox[c] # <<>> /\ Head(outbox[c]).method = "completed" /\ Taken(c)
      /\ UNCHANGED <<conn, doing, chunk, at, searched, failures>>
      /\ IF Ready THEN Deliver(c) ELSE UNCHANGED inbox
  BY DEF ServeCompleted, Reads
<1>2. MinerTypeOK /\ SessionInv(c)
  BY DEF StepInv
<1>3. /\ outbox' \in [Clients -> Seq(Message)]
      /\ \A d \in Clients : Len(outbox'[d]) <= MaxOutbox + 1
      /\ \A d \in Clients \ {c} : outbox'[d] = outbox[d]
      /\ Head(outbox[c]) = outbox[c][1] /\ 1 \in DOMAIN outbox[c]
      /\ Len(outbox'[c]) = Len(outbox[c]) - 1
  BY <1>1, TakenStep
<1>4. 1 = Len(outbox[c])
  BY <1>1, <1>2, <1>3 DEF SessionInv
<1>5. outbox'[c] = <<>>
  <2>1. outbox'[c] \in Seq(Message) /\ Len(outbox'[c]) = 0
    BY <1>3, <1>4
  <2> QED BY <2>1, NoMessages
<1>6. ASSUME NEW m \in Miners, conn[m] = c
      PROVE  doing[m] = "waiting" /\ inbox[m] = <<>> /\ link[c] = "live"
  <2>1. TurnInv(m, c)
    BY <1>6 DEF StepInv, MinerInv
  <2>2. doing[m] \in {"connecting", "waiting", "searching"}
    BY <1>2 DEF MinerTypeOK
  <2>3. doing[m] # "searching"
    BY <1>1, <1>3, <2>1 DEF TurnInv
  <2> QED BY <1>1, <2>1, <2>2, <2>3 DEF TurnInv
<1>7. PICK t \in ChunkTimes : Complete(c, t)
  BY DEF ServeCompleted
<1>8. UNCHANGED <<totalJobs, link>> /\ link[c] # "absent"
  BY <1>7 DEF Complete
<1>9. CASE Ready
  <2>1. PICK diff : Distribute(c, diff)
    BY <1>7, <1>9 DEF Complete
  <2>2. /\ inbox' \in [Miners -> Seq(Work)] /\ \A m \in Miners : Len(inbox'[m]) <= 1
        /\ \A d \in Clients : SessionInv(d)'
        /\ \A m \in Miners : MinerInv(m)'
        /\ ConnInv'
    BY <1>1, <1>3, <1>5, <1>6, <1>8, <1>9, <2>1, DeliverStep
  <2>3. MinerTypeOK'
    BY <1>1, <1>2, <1>3, <2>2 DEF MinerTypeOK
  <2> QED BY <2>2, <2>3
<1>10. CASE ~ Ready
  <2>1. /\ extranonce2' = [extranonce2 EXCEPT ![c] = None]
        /\ UNCHANGED <<startNonce, endNonce, jobID, inbox>>
    BY <1>1, <1>7, <1>10 DEF Complete, history
  <2>2. /\ extranonce2'[c] = None
        /\ \A d \in Clients \ {c} : extranonce2'[d] = extranonce2[d]
    BY <2>1 DEF StepInv, IndInv, TypeOK
  <2>3. WorkGiven' = WorkGiven /\ \A d \in Clients \ {c} : OnRecord(d)' = OnRecord(d)
    BY <1>8, <2>1, <2>2 DEF WorkGiven, OnRecord
  <2>4. ASSUME NEW d \in Clients PROVE SessionInv(d)'
    <3>1. CASE d = c
      BY <1>5, <1>8, <2>2, <3>1 DEF SessionInv
    <3>2. CASE d # c
      BY <1>3, <1>8, <2>2, <2>3, <3>2, SessionKeeps DEF StepInv
    <3> QED BY <3>1, <3>2
  <2>5. ASSUME NEW m \in Miners PROVE MinerInv(m)'
    <3>1. MinerInv(m) /\ (conn[m] # NoSession => conn[m] \in Clients)
      BY <1>2 DEF StepInv, MinerTypeOK
    <3>2. CASE conn[m] = c
      BY <1>1, <1>6, <1>8, <2>1, <2>2, <3>2 DEF MinerInv, TurnInv
    <3>3. CASE conn[m] # c
      BY <1>1, <1>3, <1>8, <2>1, <2>2, <2>3, <3>1, <3>3, MinerKeeps
    <3> QED BY <3>2, <3>3
  <2>6. MinerTypeOK' /\ ConnInv'
    BY <1>1, <1>2, <1>3, <2>1 DEF MinerTypeOK, ConnInv, StepInv
  <2> QED BY <2>4, <2>5, <2>6
<1> QED BY <1>9, <1>10

\* An idle session is given work.
LEMMA IdleStep ==
    ASSUME StepInv, IndInv', NEW c \in Clients, ServeIdle(c)
    PROVE  /\ MinerTypeOK'
           /\ \A d \in Clients : SessionInv(d)'
           /\ \A m \in Miners : MinerInv(m)'
           /\ ConnInv'
<1>1. /\ outbox[c] = <<>> /\ HandOut(c) /\ Deliver(c)
      /\ UNCHANGED <<conn, doing, chunk, at, outbox, searched, failures>>
  BY DEF ServeIdle
<1>2. /\ Ready /\ extranonce2[c] = None /\ Distribute(c, difficulty[c])
      /\ UNCHANGED <<totalJobs, link>> /\ link[c] # "absent"
  BY <1>1 DEF HandOut
<1>3. ASSUME NEW m \in Miners, conn[m] = c
      PROVE  doing[m] = "waiting" /\ inbox[m] = <<>>
  BY <1>2, <1>3 DEF StepInv, MinerInv, TurnInv
<1>4. /\ inbox' \in [Miners -> Seq(Work)] /\ \A m \in Miners : Len(inbox'[m]) <= 1
      /\ \A d \in Clients : SessionInv(d)'
      /\ \A m \in Miners : MinerInv(m)'
      /\ ConnInv'
  BY <1>1, <1>2, <1>3, DeliverStep
<1>5. MinerTypeOK'
  BY <1>1, <1>4 DEF StepInv, MinerTypeOK
<1> QED BY <1>4, <1>5

\* A session that ends leaves its miner alone with what it has.
LEMMA CutStep ==
    ASSUME StepInv, NEW c \in Clients, CutOff({c}),
           UNCHANGED <<doing, inbox, chunk, at, searched, totalJobs>>,
           failures' \in 0 .. MaxFailures, SessionInv(c)',
           outbox' \in [Clients -> Seq(Message)],
           \A d \in Clients : Len(outbox'[d]) <= MaxOutbox + 1,
           \A d \in Clients \ {c} :
              /\ link'[d] = link[d] /\ extranonce2'[d] = extranonce2[d]
              /\ outbox'[d] = outbox[d] /\ OnRecord(d)' = OnRecord(d)
    PROVE  /\ MinerTypeOK'
           /\ \A d \in Clients : SessionInv(d)'
           /\ \A m \in Miners : MinerInv(m)'
           /\ ConnInv'
<1>1. MinerTypeOK /\ WorkGiven' = WorkGiven
  BY DEF StepInv, WorkGiven
<1>2. conn' = [m \in Miners |-> IF conn[m] = c THEN NoSession ELSE conn[m]]
  BY DEF CutOff
<1>3. conn' \in [Miners -> Clients \cup {NoSession}]
  BY <1>1, <1>2 DEF MinerTypeOK
<1>4. MinerTypeOK'
  BY <1>1, <1>3 DEF MinerTypeOK
<1>5. \A d \in Clients : SessionInv(d)'
  BY SessionKeeps DEF StepInv
<1>6. ASSUME NEW m \in Miners PROVE MinerInv(m)'
  <2>1. MinerInv(m) /\ (conn[m] # NoSession => conn[m] \in Clients)
    BY <1>1 DEF StepInv, MinerTypeOK
  <2>2. CASE conn[m] = c
    BY <1>1, <1>2, <2>1, <2>2, MinerIsCutOff
  <2>3. CASE conn[m] # c
    BY <1>1, <1>2, <2>1, <2>3, MinerKeeps
  <2> QED BY <2>2, <2>3
<1>7. ConnInv'
  BY <1>2 DEF StepInv, ConnInv
<1> QED BY <1>4, <1>5, <1>6, <1>7

\* The two ways a socket is closed while its session stays in the table.
LEMMA CloseStep ==
    ASSUME StepInv, NEW c \in Clients, ServeMisread(c) \/ Close(c)
    PROVE  /\ MinerTypeOK'
           /\ \A d \in Clients : SessionInv(d)'
           /\ \A m \in Miners : MinerInv(m)'
           /\ ConnInv'
<1>1. /\ Disconnect(c) /\ CutOff({c}) /\ failures' \in 0 .. MaxFailures
      /\ UNCHANGED <<doing, inbox, chunk, at, searched>>
      /\ outbox' = outbox \/ (Reads(c, "found") /\ Taken(c))
  BY DEF ServeMisread, Close, Failure, StepInv, MinerTypeOK
<1>2. /\ link' = [link EXCEPT ![c] = "dead"] /\ link[c] = "live"
      /\ UNCHANGED <<extranonce2, totalJobs>>
      /\ \A d \in Clients : OnRecord(d)' = OnRecord(d)
  BY <1>1 DEF Disconnect, jobVars, OnRecord
<1>3. link'[c] = "dead" /\ \A d \in Clients \ {c} : link'[d] = link[d]
  BY <1>2 DEF StepInv, IndInv, TypeOK
<1>4. /\ outbox' \in [Clients -> Seq(Message)]
      /\ \A d \in Clients : Len(outbox'[d]) <= MaxOutbox + 1
      /\ \A d \in Clients \ {c} : outbox'[d] = outbox[d]
  BY <1>1, TakenStep DEF StepInv, MinerTypeOK, Reads
<1>5. SessionInv(c)'
  <2>1. SessionInv(c) /\ outbox[c] \in Seq(Message) /\ outbox'[c] \in Seq(Message)
    BY <1>4 DEF StepInv, MinerTypeOK
  <2>2. CASE outbox' = outbox
    BY <1>2, <1>3, <2>1, <2>2 DEF SessionInv
  <2>3. CASE Reads(c, "found") /\ Taken(c)
    <3>1. outbox[c] # <<>> /\ Head(outbox[c]).method = "found" /\ Taken(c)
      BY <2>3 DEF Reads
    <3>2. /\ Head(outbox[c]) = outbox[c][1] /\ 1 \in DOMAIN outbox[c]
          /\ Len(outbox'[c]) = Len(outbox[c]) - 1
      BY <3>1, TakenStep
    <3>3. 1 = Len(outbox[c])
      BY <2>1, <3>1, <3>2 DEF SessionInv
    <3>4. outbox'[c] = <<>> /\ DOMAIN outbox'[c] = {}
      BY <2>1, <3>2, <3>3, NoMessages
    <3> QED BY <1>2, <1>3, <3>4 DEF SessionInv
  <2> QED BY <1>1, <2>2, <2>3
<1> QED BY <1>1, <1>2, <1>3, <1>4, <1>5, CutStep

\* A session leaves the table.
LEMMA EndStep ==
    ASSUME StepInv, NEW c \in Clients, Sweep(c) \/ SweepEarly(c)
    PROVE  /\ MinerTypeOK'
           /\ \A d \in Clients : SessionInv(d)'
           /\ \A m \in Miners : MinerInv(m)'
           /\ ConnInv'
<1>1. /\ Reap(c) /\ CutOff({c}) /\ failures' \in 0 .. MaxFailures
      /\ outbox' = [outbox EXCEPT ![c] = <<>>]
      /\ UNCHANGED <<doing, inbox, chunk, at, searched>>
  BY DEF Sweep, SweepEarly, End, Failure, StepInv, MinerTypeOK
<1>2. /\ link' = [link EXCEPT ![c] = "absent"]
      /\ extranonce2' = [extranonce2 EXCEPT ![c] = None]
      /\ startNonce' = [startNonce EXCEPT ![c] = 0]
      /\ endNonce' = [endNonce EXCEPT ![c] = 0]
      /\ jobID' = [jobID EXCEPT ![c] = NoJob]
      /\ totalJobs' = totalJobs
  BY <1>1 DEF Reap, jobVars
<1>3. \A d \in Clients \ {c} :
        /\ link'[d] = link[d] /\ extranonce2'[d] = extranonce2[d]
        /\ OnRecord(d)' = OnRecord(d)
  BY <1>2 DEF StepInv, IndInv, TypeOK, OnRecord
<1>4. extranonce2'[c] = None
  BY <1>2 DEF StepInv, IndInv, TypeOK
<1>5. outbox \in [Clients -> Seq(Message)] /\ \A d \in Clients : Len(outbox[d]) <= MaxOutbox + 1
  BY DEF StepInv, MinerTypeOK
<1>6. /\ outbox' \in [Clients -> Seq(Message)]
      /\ \A d \in Clients : Len(outbox'[d]) <= MaxOutbox + 1
      /\ \A d \in Clients \ {c} : outbox'[d] = outbox[d]
      /\ outbox'[c] = <<>>
  BY <1>1, <1>5
<1>7. SessionInv(c)'
  <2>1. DOMAIN outbox'[c] = {}
    BY <1>6
  <2> QED BY <1>4, <1>6, <2>1 DEF SessionInv
<1> QED BY <1>1, <1>2, <1>3, <1>6, <1>7, CutStep

\* The server starts again.
LEMMA ServerRestartStep ==
    ASSUME StepInv, ServerRestart
    PROVE  /\ MinerTypeOK'
           /\ \A d \in Clients : SessionInv(d)'
           /\ \A m \in Miners : MinerInv(m)'
           /\ ConnInv'
<1>1. /\ extranonce2' = [c \in Clients |-> None] /\ outbox' = [c \in Clients |-> <<>>]
      /\ CutOff(Clients) /\ failures' \in 0 .. MaxFailures
      /\ UNCHANGED <<totalJobs, doing, inbox, chunk, at, searched>>
  BY DEF ServerRestart, Failure, StepInv, MinerTypeOK
<1>2. MinerTypeOK /\ WorkGiven' = WorkGiven
  BY <1>1 DEF StepInv, WorkGiven
<1>3. \A m \in Miners : conn'[m] = NoSession
  BY <1>1, <1>2 DEF CutOff, MinerTypeOK
<1>4. MinerTypeOK'
  <2>1. conn' \in [Miners -> Clients \cup {NoSession}]
    BY <1>1, <1>3 DEF CutOff
  <2>2. outbox' \in [Clients -> Seq(Message)] /\ \A c \in Clients : Len(outbox'[c]) <= MaxOutbox + 1
    BY <1>1
  <2> QED BY <1>1, <1>2, <2>1, <2>2 DEF MinerTypeOK
<1>5. \A d \in Clients : SessionInv(d)'
  <2>1. \A d \in Clients : outbox'[d] = <<>> /\ DOMAIN outbox'[d] = {} /\ extranonce2'[d] = None
    BY <1>1
  <2> QED BY <2>1 DEF SessionInv
<1>6. \A m \in Miners : MinerInv(m)'
  BY <1>1, <1>2, <1>3, MinerIsCutOff DEF StepInv
<1>7. ConnInv'
  BY <1>3 DEF ConnInv
<1> QED BY <1>4, <1>5, <1>6, <1>7

\* A new job, and the loss of the pool, disturb neither sessions nor miners.
LEMMA PoolStep ==
    ASSUME StepInv, IndInv', UNCHANGED <<sessionVars, minerVars>>, totalJobs <= totalJobs'
    PROVE  /\ MinerTypeOK'
           /\ \A d \in Clients : SessionInv(d)'
           /\ \A m \in Miners : MinerInv(m)'
           /\ ConnInv'
<1>1. /\ UNCHANGED <<link, extranonce2, conn, doing, inbox, chunk, at, outbox, searched, failures>>
      /\ \A d \in Clients : OnRecord(d)' = OnRecord(d)
  BY DEF sessionVars, minerVars, OnRecord
<1>2. WorkGiven \subseteq WorkGiven'
  <2>1. totalJobs \in Nat /\ totalJobs' \in Nat
    BY DEF StepInv, IndInv, TypeOK
  <2> QED BY <2>1, WorkStaysGiven
<1>3. \A d \in Clients : SessionInv(d)'
  BY <1>1, SessionKeeps DEF StepInv
<1>4. ASSUME NEW m \in Miners PROVE MinerInv(m)'
  <2>1. MinerInv(m) /\ (conn[m] # NoSession => conn[m] \in Clients)
    BY DEF StepInv, MinerTypeOK
  <2> QED BY <1>1, <1>2, <2>1, MinerKeeps
<1>5. MinerTypeOK' /\ ConnInv'
  BY <1>1 DEF StepInv, MinerTypeOK, ConnInv
<1> QED BY <1>3, <1>4, <1>5

-------------------------------------------------------------------------------
(***************************************************************************)
(* The theorems.                                                           *)
(***************************************************************************)

LEMMA InitStepInv == HashNetInit => StepInv
<1> SUFFICES ASSUME HashNetInit PROVE StepInv
  OBVIOUS
<1>1. IndInv
  BY InitIndInv DEF HashNetInit
<1>2. MinerTypeOK
  <2>1. /\ conn \in [Miners -> Clients \cup {NoSession}]
        /\ doing \in [Miners -> {"connecting", "waiting", "searching"}]
        /\ chunk \in [Miners -> Work]
        /\ at \in [Miners -> Nonces]
    BY NoWorkIsWork DEF HashNetInit
  <2>2. /\ inbox \in [Miners -> Seq(Work)] /\ \A n \in Miners : Len(inbox[n]) <= 1
        /\ outbox \in [Clients -> Seq(Message)] /\ \A c \in Clients : Len(outbox[c]) <= MaxOutbox + 1
        /\ searched = {} /\ failures \in 0 .. MaxFailures
    BY DEF HashNetInit
  <2> QED BY <2>1, <2>2 DEF MinerTypeOK
<1>3. \A c \in Clients : SessionInv(c)
  <2>1. \A c \in Clients : outbox[c] = <<>> /\ DOMAIN outbox[c] = {} /\ extranonce2[c] = None
    BY DEF HashNetInit, Init
  <2> QED BY <2>1 DEF SessionInv
<1>4. \A m \in Miners : conn[m] = NoSession /\ doing[m] = "connecting" /\ inbox[m] = <<>>
  BY DEF HashNetInit
<1>5. (\A m \in Miners : MinerInv(m)) /\ ConnInv
  BY <1>4 DEF MinerInv, ConnInv
<1> QED BY <1>1, <1>2, <1>3, <1>5 DEF StepInv

LEMMA NextStepInv == StepInv /\ [HashNetNext]_allVars => StepInv'
<1> SUFFICES ASSUME StepInv, [HashNetNext]_allVars PROVE StepInv'
  OBVIOUS
<1>1. IndInv'
  BY WorkStep DEF StepInv
<1>2. totalJobs \in Nat
  BY DEF StepInv, IndInv, TypeOK
<1>3. ASSUME NEW m \in Miners,
             \/ Die(m) \/ Receive(m) \/ PassOver(m) \/ NoticeClosed(m) \/ Hash(m)
             \/ SendStats(m) \/ SendIntoVoid(m) \/ Find(m) \/ SendCompleted(m)
      PROVE  StepInv'
  BY <1>1, <1>3, MinerStep DEF StepInv
<1>4. ASSUME NEW m \in Miners, Connect(m) PROVE StepInv'
  BY <1>1, <1>4, ConnectStep DEF StepInv
<1>5. ASSUME NEW c \in Clients, ServeStats(c) PROVE StepInv'
  BY <1>1, <1>5, StatsStep DEF StepInv
<1>6. ASSUME NEW c \in Clients, ServeCompleted(c) PROVE StepInv'
  BY <1>1, <1>6, CompletedStep DEF StepInv
<1>7. ASSUME NEW c \in Clients, ServeIdle(c) PROVE StepInv'
  BY <1>1, <1>7, IdleStep DEF StepInv
<1>8. ASSUME NEW c \in Clients, ServeMisread(c) \/ Close(c) PROVE StepInv'
  BY <1>1, <1>8, CloseStep DEF StepInv
<1>9. ASSUME NEW c \in Clients, Sweep(c) \/ SweepEarly(c) PROVE StepInv'
  BY <1>1, <1>9, EndStep DEF StepInv
<1>10. CASE ServerRestart
  BY <1>1, <1>10, ServerRestartStep DEF StepInv
<1>11. CASE PoolActs
  <2>1. UNCHANGED <<sessionVars, minerVars>> /\ totalJobs <= totalJobs'
    BY <1>2, <1>11 DEF PoolActs, NewCleanJob, PoolLost
  <2> QED BY <1>1, <2>1, PoolStep DEF StepInv
<1>12. CASE UNCHANGED allVars
  <2>1. UNCHANGED <<sessionVars, minerVars>> /\ totalJobs <= totalJobs'
    BY <1>2, <1>12 DEF allVars, vars, jobVars
  <2> QED BY <1>1, <2>1, PoolStep DEF StepInv
<1> QED BY <1>3, <1>4, <1>5, <1>6, <1>7, <1>8, <1>9, <1>10, <1>11, <1>12 DEF HashNetNext

\* The inductive invariant of the whole system.
THEOREM SystemInvariance == HashNetSpec => []StepInv
BY InitStepInv, NextStepInv, PTL DEF HashNetSpec

\* Type correctness: one work message at most is under way to a miner.
THEOREM SystemTypeCorrect == HashNetSpec => []HashNetTypeOK
<1>1. StepInv => HashNetTypeOK
  BY DEF StepInv, IndInv, HashNetTypeOK
<1> QED BY <1>1, SystemInvariance, PTL

\* Miner and session stay in step, for any number of both and any failures:
\* what the server ignores of a "completed" message it knows.
THEOREM AllInStep == HashNetSpec => []InStep
<1>1. StepInv => InStep
  <2> SUFFICES ASSUME StepInv PROVE InStep
    OBVIOUS
  <2>1. ASSUME NEW c \in Clients, NEW i \in DOMAIN outbox[c]
        PROVE  extranonce2[c] # None /\ outbox[c][i].work = OnRecord(c)
    <3>1. SessionInv(c)
      BY DEF StepInv
    <3>2. outbox[c] # <<>>
      OBVIOUS
    <3> QED BY <3>1, <3>2 DEF SessionInv
  <2>2. ASSUME NEW m \in Miners, conn[m] # NoSession
        PROVE  /\ doing[m] = "searching" => chunk[m] = OnRecord(conn[m])
               /\ \A i \in DOMAIN inbox[m] : inbox[m][i] = OnRecord(conn[m])
    <3>1. MinerInv(m) /\ inbox[m] \in Seq(Work) /\ Len(inbox[m]) <= 1
      BY DEF StepInv, MinerTypeOK
    <3>2. \A i \in DOMAIN inbox[m] : i = 1 /\ inbox[m] # <<>>
      BY <3>1, NoMessages
    <3> QED BY <2>2, <3>1, <3>2 DEF MinerInv, TurnInv
  <2> QED BY <2>1, <2>2 DEF InStep
<1> QED BY <1>1, SystemInvariance, PTL

-------------------------------------------------------------------------------
(***************************************************************************)
(* Nothing is searched twice, for every number of miners and whatever fails, *)
(* as long as no extranonce2 can be exhausted within a job; the server       *)
(* implements the ledger in the presence of its own restarts; and before the *)
(* first failure nothing that was handed out is lost.                       *)
(***************************************************************************)

\* A restart of the server resets the ledger; every other step is one of
\* WorkChunks.
LEMMA SystemImplements ==
    ASSUME Fits, IndInv, IndInv', [HashNetNext]_allVars
    PROVE  [Ledger!Next]_(Ledger!vars)
<1>1. CASE ServerRestart
  <2>1. ForgetChunks /\ extranonce2' = [c \in Clients |-> None]
    BY <1>1 DEF ServerRestart
  <2>2. pairsHanded' = {}
    BY <2>1 DEF pairsHanded, ForgetChunks
  <2>3. pairsAssigned' = [c \in Clients |-> {}]
    BY <2>1 DEF pairsAssigned, Works
  <2> QED BY <2>2, <2>3 DEF Ledger!Next, Ledger!Reset
<1>2. CASE ~ ServerRestart
  <2>1. [Next]_vars
    BY <1>2 DEF HashNetNext, Die, Connect, Receive, PassOver, NoticeClosed, Hash, SendStats,
       SendIntoVoid, Find, SendCompleted, ServeStats, ServeCompleted, ServeMisread, ServeIdle,
       Close, Sweep, SweepEarly, End, PoolActs, Next, allVars
  <2> QED BY <2>1, NextImplements
<1> QED BY <1>1, <1>2

\* The whole system, miners, failures and restarts included, implements the
\* ledger.
THEOREM SystemRefinement == ASSUME Fits PROVE HashNetSpec => ImplementsLedger
<1>1. HashNetInit => Ledger!Init
  BY DEF HashNetInit, Init, Ledger!Init, pairsHanded, pairsAssigned, Works
<1>2. StepInv /\ StepInv' /\ [HashNetNext]_allVars => [Ledger!Next]_(Ledger!vars)
  BY SystemImplements DEF StepInv
<1> QED BY <1>1, <1>2, SystemInvariance, PTL DEF HashNetSpec, Ledger!Spec, ImplementsLedger

-------------------------------------------------------------------------------
(***************************************************************************)
(* What a miner has before it.                                             *)
(***************************************************************************)

\* A miner that neither searches nor has work under way has nothing before it.
LEMMA NothingAhead ==
    \A m \in Miners : doing[m] # "searching" /\ inbox[m] = <<>> => Ahead(m) = {}
<1> SUFFICES ASSUME NEW m \in Miners, doing[m] # "searching", inbox[m] = <<>>
             PROVE  Ahead(m) = {}
  OBVIOUS
<1>1. DOMAIN inbox[m] = {} /\ Left(m) = {}
  BY DEF Left
<1> QED BY <1>1 DEF Ahead, Pairs

\* A searching miner has the rest of its chunk before it.
LEMMA ChunkAhead ==
    \A m \in Miners : doing[m] = "searching" /\ inbox[m] = <<>> =>
        Ahead(m) = Pairs(chunk[m], at[m] .. chunk[m].endNonce - 1)
<1> SUFFICES ASSUME NEW m \in Miners, doing[m] = "searching", inbox[m] = <<>>
             PROVE  Ahead(m) = Pairs(chunk[m], at[m] .. chunk[m].endNonce - 1)
  OBVIOUS
<1>1. DOMAIN inbox[m] = {} /\ Left(m) = at[m] .. chunk[m].endNonce - 1
  BY DEF Left
<1> QED BY <1>1 DEF Ahead

\* A waiting miner has before it the work that is under way.
LEMMA InboxAhead ==
    MinerTypeOK => \A m \in Miners : doing[m] = "waiting" /\ inbox[m] # <<>> =>
        Ahead(m) = Pairs(inbox[m][1], inbox[m][1].startNonce .. inbox[m][1].endNonce - 1)
<1> SUFFICES ASSUME MinerTypeOK, NEW m \in Miners, doing[m] = "waiting", inbox[m] # <<>>
             PROVE  Ahead(m) = Pairs(inbox[m][1],
                                     inbox[m][1].startNonce .. inbox[m][1].endNonce - 1)
  OBVIOUS
<1>1. inbox[m] \in Seq(Work) /\ Len(inbox[m]) <= 1
  BY DEF MinerTypeOK
<1>2. DOMAIN inbox[m] = {1}
  BY <1>1
<1>3. Left(m) = {}
  BY DEF Left
<1>4. {inbox[m][i] : i \in DOMAIN inbox[m]} = {inbox[m][1]}
  BY <1>2
<1> QED BY <1>3, <1>4 DEF Ahead, Pairs

\* The same of the state after a step.
LEMMA NothingAheadNext ==
    (\A m \in Miners : doing[m] # "searching" /\ inbox[m] = <<>> => Ahead(m) = {})'
BY NothingAhead, PTL

LEMMA ChunkAheadNext ==
    (\A m \in Miners : doing[m] = "searching" /\ inbox[m] = <<>> =>
        Ahead(m) = Pairs(chunk[m], at[m] .. chunk[m].endNonce - 1))'
BY ChunkAhead, PTL

LEMMA InboxAheadNext ==
    (MinerTypeOK => \A m \in Miners : doing[m] = "waiting" /\ inbox[m] # <<>> =>
        Ahead(m) = Pairs(inbox[m][1], inbox[m][1].startNonce .. inbox[m][1].endNonce - 1))'
BY InboxAhead, PTL

\* The steps of others leave it alone.
LEMMA SameAhead ==
    ASSUME NEW m \in Miners, doing'[m] = doing[m], inbox'[m] = inbox[m],
           chunk'[m] = chunk[m], at'[m] = at[m]
    PROVE  Ahead(m)' = Ahead(m)
<1>1. Left(m)' = Left(m)
  BY DEF Left
<1> QED BY <1>1 DEF Ahead, Pairs

-------------------------------------------------------------------------------
(***************************************************************************)
(* Steps that search, and steps that give work.                            *)
(***************************************************************************)

\* A step that takes pairs from before one miner, and may search them.
LEMMA Searching ==
    ASSUME HandedInv, SearchedOnce, NEW m \in Miners, NEW X \in SUBSET Ahead(m),
           searched' \in SUBSET (searched \cup X),
           Ahead(m)' \in SUBSET (Ahead(m) \ X),
           \A n \in Miners \ {m} : Ahead(n)' = Ahead(n),
           \A x : Accounted(x) => Accounted(x)'
    PROVE  HandedInv' /\ SearchedOnce'
<1>1. HandedInv'
  BY DEF HandedInv
<1>2. \A n \in Miners : Ahead(n)' \subseteq Ahead(n)
  OBVIOUS
<1>3. \A n \in Miners \ {m} : Ahead(n)' \cap X = {}
  BY DEF SearchedOnce
<1>4. Ahead(m)' \cap X = {}
  OBVIOUS
<1>5. \A n \in Miners : Ahead(n) \cap searched = {}
  BY DEF SearchedOnce
<1>6. \A n \in Miners : Ahead(n)' \cap searched' = {}
  BY <1>2, <1>3, <1>4, <1>5
<1>7. \A n, k \in Miners : n # k => Ahead(n)' \cap Ahead(k)' = {}
  BY <1>2 DEF SearchedOnce
<1> QED BY <1>1, <1>6, <1>7 DEF SearchedOnce

\* A step that leaves every miner what it has before it.
LEMMA Resting ==
    ASSUME HandedInv, SearchedOnce, searched' = searched,
           \A n \in Miners : Ahead(n)' = Ahead(n),
           \A x \in searched \cup UNION {Ahead(n) : n \in Miners} : Accounted(x) => Accounted(x)'
    PROVE  HandedInv' /\ SearchedOnce'
BY DEF HandedInv, SearchedOnce

\* A step that gives new work to a miner that has nothing before it.
LEMMA Giving ==
    ASSUME HandedInv, SearchedOnce, NEW m \in Miners, Ahead(m) = {},
           searched' = searched,
           \A n \in Miners \ {m} : Ahead(n)' = Ahead(n),
           \A x : Accounted(x) => Accounted(x)',
           \A x \in Ahead(m)' : Accounted(x)' /\ ~ Accounted(x)
    PROVE  HandedInv' /\ SearchedOnce'
<1>1. HandedInv'
  BY DEF HandedInv
<1>2. Ahead(m)' \cap searched' = {}
  BY DEF HandedInv
<1>3. \A n \in Miners \ {m} : Ahead(m)' \cap Ahead(n)' = {}
  BY DEF HandedInv
<1>4. \A n \in Miners \ {m} : Ahead(n)' \cap searched' = {}
  BY DEF SearchedOnce
<1>5. \A n, k \in Miners \ {m} : n # k => Ahead(n)' \cap Ahead(k)' = {}
  BY DEF SearchedOnce
<1> QED BY <1>1, <1>2, <1>3, <1>4, <1>5 DEF SearchedOnce

\* Accounts are kept within a job.
LEMMA AccountsKept ==
    ASSUME UNCHANGED <<jobId, totalJobs>>, pairsHanded \subseteq pairsHanded'
    PROVE  \A x : Accounted(x) => Accounted(x)'
BY DEF Accounted

\* What the distribution block cuts was not handed out before in this job.
LEMMA NewWork ==
    ASSUME Fits, StepInv, IndInv', NEW c \in Clients, NEW diff \in 0 .. MaxDifficulty,
           Ready, Distribute(c, diff), UNCHANGED <<jobId, totalJobs>>
    PROVE  /\ \A x : Accounted(x) => Accounted(x)'
           /\ \A x \in Pairs(OnRecord(c)', startNonce'[c] .. endNonce'[c] - 1) :
                Accounted(x)' /\ ~ Accounted(x)
<1>1. Ledger!Issue(c)
  BY DistributeIssues DEF StepInv
<1>2. PICK given : /\ given \cap pairsHanded = {}
                   /\ pairsHanded' = pairsHanded \cup given
                   /\ pairsAssigned' = [pairsAssigned EXCEPT ![c] = given]
  BY <1>1 DEF Ledger!Issue
<1>3. pairsAssigned'[c] = given
  BY <1>2 DEF pairsAssigned
<1>4. extranonce2'[c] # None /\ jobID'[c] = jobId /\ extranonce2'[c] \in Extranonce2s
  BY DEF Distribute, GetNextExtranonce2, StepInv, IndInv, TypeOK
<1>5. given = {extranonce2'[c]} \X (startNonce'[c] .. endNonce'[c])
  BY <1>3, <1>4 DEF pairsAssigned, Works, Range
<1>6. startNonce'[c] \in Int /\ endNonce'[c] \in Int /\ jobId \in 1 .. totalJobs
  BY DEF IndInv, StepInv, TypeOK, Nonces, JobsInv, Ready
<1>7. ASSUME NEW x \in Pairs(OnRecord(c)', startNonce'[c] .. endNonce'[c] - 1)
      PROVE  Accounted(x)' /\ ~ Accounted(x)
  <2>1. /\ x[1] = jobId /\ x[2] = extranonce2'[c]
        /\ x[3] \in startNonce'[c] .. endNonce'[c] - 1
    BY <1>4 DEF Pairs, OnRecord
  <2>2. <<x[2], x[3]>> \in given
    BY <1>5, <1>6, <2>1
  <2> QED BY <1>2, <1>6, <2>1, <2>2 DEF Accounted
<1> QED BY <1>2, <1>7, AccountsKept

\* The work goes to the miner of session c, if there is one.
LEMMA WorkGoesOut ==
    ASSUME Fits, StepInv, IndInv', HandedInv, SearchedOnce, NEW c \in Clients,
           NEW diff \in 0 .. MaxDifficulty,
           Ready, Distribute(c, diff), Deliver(c),
           UNCHANGED <<jobId, totalJobs, doing, chunk, at, searched>>,
           MinerTypeOK',
           \A m \in Miners : conn[m] = c => doing[m] = "waiting" /\ inbox[m] = <<>>
    PROVE  HandedInv' /\ SearchedOnce'
<1>1. /\ \A x : Accounted(x) => Accounted(x)'
      /\ \A x \in Pairs(OnRecord(c)', startNonce'[c] .. endNonce'[c] - 1) :
            Accounted(x)' /\ ~ Accounted(x)
  BY NewWork
<1>2. inbox' = [m \in Miners |->
                  IF conn[m] = c THEN Append(inbox[m], OnRecord(c)') ELSE inbox[m]]
  BY DEF Deliver, OnRecord
<1>3. ASSUME NEW n \in Miners, conn[n] # c PROVE Ahead(n)' = Ahead(n)
  BY <1>2, <1>3, SameAhead
<1>4. CASE \A n \in Miners : conn[n] # c
  BY <1>1, <1>3, <1>4, Resting
<1>5. ASSUME NEW m \in Miners, conn[m] = c PROVE HandedInv' /\ SearchedOnce'
  <2>1. \A n \in Miners \ {m} : conn[n] # c
    BY <1>5, c # NoSession DEF StepInv, ConnInv
  <2>2. doing[m] = "waiting" /\ inbox[m] = <<>> /\ doing'[m] = "waiting"
    BY <1>5
  <2>3. Ahead(m) = {}
    BY <2>2, NothingAhead
  <2>4. inbox'[m] # <<>> /\ inbox'[m][1] = OnRecord(c)'
    BY <1>2, <1>5, <2>2
  <2>5. Ahead(m)' = Pairs(OnRecord(c)', startNonce'[c] .. endNonce'[c] - 1)
    <3>1. Ahead(m)' = Pairs(inbox'[m][1], inbox'[m][1].startNonce .. inbox'[m][1].endNonce - 1)
      BY <2>2, <2>4, InboxAheadNext
    <3> QED BY <2>4, <3>1 DEF OnRecord
  <2> QED BY <1>1, <1>3, <2>1, <2>3, <2>5, Giving
<1> QED BY <1>4, <1>5

-------------------------------------------------------------------------------
(***************************************************************************)
(* The steps of the system.                                                *)
(***************************************************************************)

\* A step of a miner takes pairs from before it; a turn of the nonce loop
\* searches one of them.
LEMMA MinerSearches ==
    ASSUME SearchInv, MinerTypeOK', NEW m \in Miners,
           \/ Die(m) \/ Receive(m) \/ PassOver(m) \/ NoticeClosed(m) \/ Hash(m)
           \/ SendStats(m) \/ SendIntoVoid(m) \/ Find(m) \/ SendCompleted(m)
    PROVE  HandedInv' /\ SearchedOnce'
<1>1. StepInv /\ HandedInv /\ SearchedOnce
  BY DEF SearchInv
<1>2. MinerTypeOK /\ MinerInv(m)
  BY <1>1 DEF StepInv
<1>3. UNCHANGED vars
  BY DEF Die, Receive, PassOver, NoticeClosed, Hash, SendStats, SendIntoVoid, Find, SendCompleted
<1>4. \A x : Accounted(x) => Accounted(x)'
  <2>1. UNCHANGED <<jobId, totalJobs>> /\ pairsHanded' = pairsHanded
    BY <1>3 DEF vars, jobVars, history, pairsHanded
  <2> QED BY <2>1, AccountsKept
<1>5. \A n \in Miners \ {m} : Ahead(n)' = Ahead(n)
  <2> SUFFICES ASSUME NEW n \in Miners \ {m} PROVE Ahead(n)' = Ahead(n)
    OBVIOUS
  <2>1. doing'[n] = doing[n] /\ inbox'[n] = inbox[n] /\ chunk'[n] = chunk[n] /\ at'[n] = at[n]
    BY <1>2 DEF Die, Receive, PassOver, NoticeClosed, Hash, SendStats, SendIntoVoid, Find,
       SendCompleted, Restart, MinerTypeOK
  <2> QED BY <2>1, SameAhead
<1>6. ASSUME searched' = searched, Ahead(m)' \subseteq Ahead(m)
      PROVE  HandedInv' /\ SearchedOnce'
  <2> DEFINE X == {}
  <2>1. X \in SUBSET Ahead(m) /\ searched' \in SUBSET (searched \cup X)
        /\ Ahead(m)' \in SUBSET (Ahead(m) \ X)
    BY <1>6
  <2> HIDE DEF X
  <2> QED BY <1>1, <1>4, <1>5, <2>1, Searching
<1>7. CASE Die(m) \/ PassOver(m) \/ NoticeClosed(m) \/ SendIntoVoid(m)
  <2>1. /\ searched' = searched /\ inbox'[m] = <<>>
        /\ doing'[m] # "searching"
    BY <1>2, <1>7 DEF Die, PassOver, NoticeClosed, SendIntoVoid, Restart, MinerTypeOK
  <2>2. Ahead(m)' = {}
    BY <2>1, NothingAheadNext
  <2> QED BY <1>6, <2>1, <2>2
<1>8. CASE SendStats(m)
  <2>1. Ahead(m)' = Ahead(m)
    BY <1>8, SameAhead DEF SendStats
  <2> QED BY <1>6, <1>8, <2>1 DEF SendStats
<1>9. CASE Receive(m)
  <2>1. /\ doing[m] = "waiting" /\ inbox[m] # <<>> /\ searched' = searched
        /\ inbox'[m] = <<>> /\ chunk'[m] = inbox[m][1] /\ doing'[m] = "searching"
        /\ at'[m] = inbox[m][1].startNonce
    BY <1>2, <1>9 DEF Receive, MinerTypeOK
  <2>2. Ahead(m)' = Pairs(inbox[m][1], inbox[m][1].startNonce .. inbox[m][1].endNonce - 1)
    <3>1. Ahead(m)' = Pairs(chunk'[m], at'[m] .. chunk'[m].endNonce - 1)
      BY <2>1, ChunkAheadNext DEF Pairs
    <3> QED BY <2>1, <3>1
  <2>3. Ahead(m) = Pairs(inbox[m][1], inbox[m][1].startNonce .. inbox[m][1].endNonce - 1)
    BY <1>2, <2>1, InboxAhead
  <2> QED BY <1>6, <2>1, <2>2, <2>3
<1>10. CASE SendCompleted(m)
  <2>1. /\ doing[m] = "searching" /\ Left(m) = {} /\ inbox[m] = <<>> /\ inbox'[m] = <<>>
        /\ doing'[m] = "waiting" /\ searched' = searched
    BY <1>2, <1>10 DEF SendCompleted, MinerInv, MinerTypeOK
  <2>2. Ahead(m)' = {}
    BY <2>1, NothingAheadNext
  <2> QED BY <1>6, <2>1, <2>2
<1>11. CASE Hash(m) \/ Find(m)
  <2> DEFINE x == <<chunk[m].job, chunk[m].extranonce2, at[m]>>
  <2>1. /\ at[m] \in Left(m) /\ searched' = searched \cup {x}
        /\ inbox' = inbox /\ chunk' = chunk
        /\ doing'[m] # "searching" \/ (doing'[m] = "searching" /\ at'[m] = at[m] + 1)
    BY <1>2, <1>11 DEF Hash, Find, Left, MinerTypeOK
  <2>2. doing[m] = "searching" /\ inbox[m] = <<>> /\ at[m] \in Int
    BY <1>2, <2>1 DEF Left, MinerInv, MinerTypeOK, Nonces
  <2>3. chunk[m].endNonce \in Int
    BY <1>2 DEF MinerTypeOK, Work, Nonces
  <2>4. Ahead(m) = Pairs(chunk[m], at[m] .. chunk[m].endNonce - 1)
    BY <2>2, ChunkAhead
  <2>5. x \in Ahead(m)
    BY <2>1, <2>2, <2>4 DEF Left, Pairs
  <2>6. Ahead(m)' \subseteq Ahead(m) \ {x}
    <3>1. CASE doing'[m] # "searching"
      BY <2>1, <2>2, <3>1, NothingAheadNext
    <3>2. CASE doing'[m] = "searching" /\ at'[m] = at[m] + 1
      <4>1. Ahead(m)' = Pairs(chunk[m], at[m] + 1 .. chunk[m].endNonce - 1)
        <5>1. Ahead(m)' = Pairs(chunk'[m], at'[m] .. chunk'[m].endNonce - 1)
          BY <2>1, <2>2, <3>2, ChunkAheadNext DEF Pairs
        <5> QED BY <2>1, <3>2, <5>1
      <4> QED BY <2>2, <2>3, <2>4, <4>1 DEF Pairs
    <3> QED BY <2>1, <3>1, <3>2
  <2> DEFINE X == {x}
  <2>7. X \in SUBSET Ahead(m) /\ searched' \in SUBSET (searched \cup X)
        /\ Ahead(m)' \in SUBSET (Ahead(m) \ X)
    BY <2>1, <2>5, <2>6
  <2> HIDE DEF X, x
  <2> QED BY <1>1, <1>4, <1>5, <2>7, Searching
<1> QED BY <1>7, <1>8, <1>9, <1>10, <1>11

\* A step that leaves the miners and the maps of the job alone.
LEMMA MinersRest ==
    ASSUME SearchInv,
           UNCHANGED <<jobId, totalJobs, handed, doing, inbox, chunk, at, searched>>
    PROVE  HandedInv' /\ SearchedOnce'
<1>1. pairsHanded' = pairsHanded
  BY DEF pairsHanded
<1>2. \A x : Accounted(x) => Accounted(x)'
  BY <1>1, AccountsKept
<1>3. \A n \in Miners : Ahead(n)' = Ahead(n)
  BY SameAhead
<1> QED BY <1>2, <1>3, Resting DEF SearchInv

\* A step after which the job is none, or one that nobody has worked on.
LEMMA JobsPass ==
    ASSUME SearchInv, UNCHANGED <<doing, inbox, chunk, at, searched>>,
           totalJobs' \in Nat, totalJobs <= totalJobs',
           jobId' = NoJob \/ totalJobs < jobId'
    PROVE  HandedInv' /\ SearchedOnce'
<1>1. totalJobs \in Nat
  BY DEF SearchInv, StepInv, IndInv, TypeOK
<1>2. \A x : Accounted(x) => Accounted(x)'
  BY <1>1 DEF Accounted
<1>3. \A n \in Miners : Ahead(n)' = Ahead(n)
  BY SameAhead
<1> QED BY <1>2, <1>3, Resting DEF SearchInv

\* The miner of a session from which the last message is "completed" is idle.
LEMMA CompletedMinerWaits ==
    ASSUME StepInv, NEW c \in Clients, Reads(c, "completed"), NEW m \in Miners, conn[m] = c
    PROVE  doing[m] = "waiting" /\ inbox[m] = <<>>
<1>1. TurnInv(m, c)
  BY DEF StepInv, MinerInv
<1>2. outbox[c] # <<>> /\ Head(outbox[c]).method # "stats"
  BY DEF Reads
<1>3. outbox[c] \in Seq(Message) /\ doing[m] \in {"connecting", "waiting", "searching"}
  BY DEF StepInv, MinerTypeOK
<1>4. Head(outbox[c]) = outbox[c][1] /\ 1 \in DOMAIN outbox[c]
  BY <1>2, <1>3
<1> QED BY <1>1, <1>2, <1>3, <1>4 DEF TurnInv

\* A "completed" message, and what the distribution block gives in return.
LEMMA CompletedSearches ==
    ASSUME Fits, SearchInv, StepInv', NEW c \in Clients, ServeCompleted(c)
    PROVE  HandedInv' /\ SearchedOnce'
<1>1. StepInv /\ HandedInv /\ SearchedOnce /\ TypeOK /\ MinerTypeOK' /\ IndInv'
  BY DEF SearchInv, StepInv, IndInv
<1>2. PICK t \in ChunkTimes : Complete(c, t)
  BY DEF ServeCompleted
<1>3. /\ Reads(c, "completed") /\ Taken(c)
      /\ IF Ready THEN Deliver(c) ELSE UNCHANGED inbox
      /\ UNCHANGED <<jobId, totalJobs, doing, chunk, at, searched>>
  BY <1>2 DEF ServeCompleted, Complete
<1>4. CASE ~ Ready
  BY <1>2, <1>3, <1>4, MinersRest DEF Complete, history
<1>5. CASE Ready
  <2> DEFINE diff == IF t < IncreaseThreshold THEN difficulty[c] + DifficultyStep
                                              ELSE difficulty[c]
  <2>1. diff \in 0 .. MaxDifficulty
    BY <1>1, <1>2 DEF Complete, TypeOK
  <2>2. Distribute(c, diff) /\ Deliver(c)
    BY <1>2, <1>3, <1>5 DEF Complete
  <2>3. \A m \in Miners : conn[m] = c => doing[m] = "waiting" /\ inbox[m] = <<>>
    BY <1>1, <1>3, CompletedMinerWaits
  <2> HIDE DEF diff
  <2> QED BY <1>1, <1>3, <1>5, <2>1, <2>2, <2>3, WorkGoesOut
<1> QED BY <1>4, <1>5

\* Work for an idle session.
LEMMA IdleSearches ==
    ASSUME Fits, SearchInv, StepInv', NEW c \in Clients, ServeIdle(c)
    PROVE  HandedInv' /\ SearchedOnce'
<1>1. StepInv /\ HandedInv /\ SearchedOnce /\ TypeOK /\ MinerTypeOK' /\ IndInv'
  BY DEF SearchInv, StepInv, IndInv
<1>2. /\ Ready /\ extranonce2[c] = None /\ Distribute(c, difficulty[c]) /\ Deliver(c)
      /\ UNCHANGED <<jobId, totalJobs, doing, chunk, at, searched>>
  BY DEF ServeIdle, HandOut
<1>3. \A m \in Miners : conn[m] = c => doing[m] = "waiting" /\ inbox[m] = <<>>
  BY <1>1, <1>2 DEF StepInv, MinerInv, TurnInv
<1>4. difficulty[c] \in 0 .. MaxDifficulty
  BY <1>1 DEF TypeOK
<1> QED BY <1>1, <1>2, <1>3, <1>4, WorkGoesOut

-------------------------------------------------------------------------------
LEMMA InitSearchInv == HashNetInit => SearchInv
<1> SUFFICES ASSUME HashNetInit PROVE SearchInv
  OBVIOUS
<1>1. \A m \in Miners : Ahead(m) = {}
  BY NothingAhead DEF HashNetInit
<1>2. HandedInv /\ SearchedOnce
  BY <1>1 DEF HandedInv, SearchedOnce, HashNetInit
<1> QED BY <1>2, InitStepInv DEF SearchInv

LEMMA NextSearchInv ==
    ASSUME Fits, SearchInv, [HashNetNext]_allVars
    PROVE  SearchInv'
<1>1. StepInv'
  BY NextStepInv DEF SearchInv
<1>2. MinerTypeOK' /\ totalJobs \in Nat /\ jobId \in Nat
  BY <1>1 DEF SearchInv, StepInv, IndInv, TypeOK
<1>3. ASSUME NEW m \in Miners,
             \/ Die(m) \/ Receive(m) \/ PassOver(m) \/ NoticeClosed(m) \/ Hash(m)
             \/ SendStats(m) \/ SendIntoVoid(m) \/ Find(m) \/ SendCompleted(m)
      PROVE  HandedInv' /\ SearchedOnce'
  BY <1>2, <1>3, MinerSearches
<1>4. ASSUME NEW m \in Miners, Connect(m) PROVE HandedInv' /\ SearchedOnce'
  <2>1. /\ UNCHANGED <<jobId, totalJobs, handed, inbox, chunk, at, searched>>
        /\ doing[m] = "connecting" /\ doing' = [doing EXCEPT ![m] = "waiting"]
    BY <1>4 DEF Connect, Accept, jobVars, history
  <2>2. \A n \in Miners \ {m} : doing'[n] = doing[n]
    BY <2>1 DEF SearchInv, StepInv, MinerTypeOK
  <2>3. \A n \in Miners \ {m} : Ahead(n)' = Ahead(n)
    BY <2>1, <2>2, SameAhead
  <2>4. inbox[m] = <<>> /\ doing'[m] = "waiting" /\ inbox'[m] = <<>>
    BY <2>1 DEF SearchInv, StepInv, MinerInv, MinerTypeOK
  <2>5. Ahead(m)' = {} /\ Ahead(m) = {}
    BY <2>1, <2>4, NothingAhead, NothingAheadNext
  <2>6. pairsHanded' = pairsHanded
    BY <2>1 DEF pairsHanded
  <2>7. \A x : Accounted(x) => Accounted(x)'
    BY <2>1, <2>6, AccountsKept
  <2>8. \A n \in Miners : Ahead(n)' = Ahead(n)
    BY <2>3, <2>5
  <2> QED BY <2>1, <2>7, <2>8, Resting DEF SearchInv
<1>5. ASSUME NEW c \in Clients, ServeStats(c) PROVE HandedInv' /\ SearchedOnce'
  BY <1>5, MinersRest DEF ServeStats, Report, history
<1>6. ASSUME NEW c \in Clients, ServeCompleted(c) PROVE HandedInv' /\ SearchedOnce'
  BY <1>1, <1>6, CompletedSearches
<1>7. ASSUME NEW c \in Clients, ServeIdle(c) PROVE HandedInv' /\ SearchedOnce'
  BY <1>1, <1>7, IdleSearches
<1>8. ASSUME NEW c \in Clients, ServeMisread(c) \/ Close(c) PROVE HandedInv' /\ SearchedOnce'
  BY <1>8, MinersRest DEF ServeMisread, Close, Disconnect, jobVars, history
<1>9. ASSUME NEW c \in Clients, Sweep(c) \/ SweepEarly(c) PROVE HandedInv' /\ SearchedOnce'
  BY <1>9, MinersRest DEF Sweep, SweepEarly, End, Reap, jobVars, history
<1>10. ASSUME ServerRestart PROVE HandedInv' /\ SearchedOnce'
  BY <1>2, <1>10, JobsPass DEF ServerRestart
<1>11. ASSUME PoolActs PROVE HandedInv' /\ SearchedOnce'
  <2>1. /\ UNCHANGED <<doing, inbox, chunk, at, searched>>
        /\ totalJobs' \in Nat /\ totalJobs <= totalJobs'
        /\ jobId' = NoJob \/ totalJobs < jobId'
    BY <1>2, <1>11 DEF PoolActs, NewCleanJob, PoolLost, minerVars
  <2> QED BY <2>1, JobsPass
<1>12. ASSUME UNCHANGED allVars PROVE HandedInv' /\ SearchedOnce'
  BY <1>12, MinersRest DEF allVars, vars, jobVars, history, minerVars
<1>13. HandedInv' /\ SearchedOnce'
  BY <1>3, <1>4, <1>5, <1>6, <1>7, <1>8, <1>9, <1>10, <1>11, <1>12 DEF HashNetNext
<1> QED BY <1>1, <1>13 DEF SearchInv

\* No pair is searched twice, by any two miners, sessions or incarnations of
\* the server, whatever fails.
THEOREM NoPairTwice == ASSUME Fits PROVE HashNetSpec => []SearchedOnce
<1>1. SearchInv => SearchedOnce
  BY DEF SearchInv
<1>2. SearchInv /\ [HashNetNext]_allVars => SearchInv'
  BY NextSearchInv
<1> QED BY <1>1, <1>2, InitSearchInv, PTL DEF HashNetSpec

-------------------------------------------------------------------------------
(***************************************************************************)
(* Before the first failure nothing that was handed out is lost.           *)
(***************************************************************************)

\* What a session of the table knows of its miner before the first failure.
LEMMA CalmSession ==
    ASSUME StepInv, CalmInv, failures = 0, NEW c \in Clients, link[c] # "absent"
    PROVE  link[c] = "live" /\ \E m \in Miners : conn[m] = c
BY DEF CalmInv, StepInv, IndInv, TypeOK

\* A step of a miner does not disturb the calm.
LEMMA MinerCalm ==
    ASSUME StepInv, CalmInv, failures = 0, failures' = 0, NEW m \in Miners,
           \/ Die(m) \/ Receive(m) \/ PassOver(m) \/ NoticeClosed(m) \/ Hash(m)
           \/ SendStats(m) \/ SendIntoVoid(m) \/ Find(m) \/ SendCompleted(m)
    PROVE  CalmInv'
<1>1. MinerTypeOK /\ NoSession \notin Clients
  BY DEF StepInv
<1>2. ~ Die(m) /\ ~ PassOver(m) /\ ~ Find(m)
  BY DEF Die, PassOver, Find, Failure
<1>3. ~ SendIntoVoid(m)
  BY DEF SendIntoVoid, CalmInv
<1>4. UNCHANGED <<link, conn>>
  BY <1>2, <1>3 DEF Receive, NoticeClosed, Hash, SendStats, SendCompleted, vars, sessionVars
<1>5. ASSUME NEW n \in Miners, conn'[n] = NoSession
      PROVE  doing'[n] # "searching" /\ inbox'[n] = <<>>
  <2>1. doing[n] # "searching" /\ inbox[n] = <<>>
    BY <1>4, <1>5 DEF CalmInv
  <2> QED BY <1>1, <1>2, <1>3, <2>1 DEF Receive, NoticeClosed, Hash, SendStats,
        SendCompleted, MinerTypeOK, Left
<1>6. ASSUME NEW c \in Clients, NEW i \in DOMAIN outbox'[c]
      PROVE  outbox'[c][i].method # "found"
  <2>1. \A j \in DOMAIN outbox[c] : outbox[c][j].method # "found"
    BY DEF CalmInv
  <2>2. CASE outbox' = outbox
    BY <1>6, <2>1, <2>2
  <2>3. ASSUME NEW method \in {"stats", "completed"}, Send(m, method)
        PROVE  outbox'[c][i].method # "found"
    <3> DEFINE message == [method |-> method, work |-> chunk[m]]
    <3>1. message \in Message /\ message.method # "found" /\ outbox[c] \in Seq(Message)
      BY <1>1 DEF MinerTypeOK, Message
    <3>2. outbox'[c] = IF c = conn[m] THEN Append(outbox[c], message) ELSE outbox[c]
      BY <2>3 DEF Send
    <3> HIDE DEF message
    <3>3. CASE c # conn[m]
      BY <1>6, <2>1, <3>2, <3>3
    <3>4. CASE c = conn[m]
      <4>1. outbox'[c] = Append(outbox[c], message)
        BY <3>2, <3>4
      <4>2. /\ outbox'[c][i] = IF i = Len(outbox[c]) + 1 THEN message ELSE outbox[c][i]
            /\ i # Len(outbox[c]) + 1 => i \in DOMAIN outbox[c]
        BY <1>6, <3>1, <4>1, AppendMessage
      <4> QED BY <2>1, <3>1, <4>2
    <3> QED BY <3>3, <3>4
  <2> QED BY <1>2, <1>3, <2>2, <2>3 DEF Receive, NoticeClosed, Hash, SendStats, SendCompleted
<1>7. \A c \in Clients :
        /\ link[c] # "dead"
        /\ link[c] = "live" => \E n \in Miners : conn[n] = c
  BY DEF CalmInv
<1> QED BY <1>4, <1>5, <1>6, <1>7 DEF CalmInv

\* Nor does a message served, or work given: the miner of a session that is
\* given work is there.
LEMMA ServeCalm ==
    ASSUME StepInv, CalmInv, failures = 0, NEW c \in Clients,
           UNCHANGED <<link, conn, doing>>,
           outbox' = outbox \/ (outbox[c] # <<>> /\ Taken(c)),
           inbox' = inbox \/ Deliver(c)
    PROVE  CalmInv'
<1>1. MinerTypeOK /\ c # NoSession
  BY DEF StepInv
<1>2. ASSUME NEW d \in Clients, NEW i \in DOMAIN outbox'[d]
      PROVE  outbox'[d][i].method # "found"
  <2>1. \A j \in DOMAIN outbox[d] : outbox[d][j].method # "found"
    BY DEF CalmInv
  <2>2. CASE outbox' = outbox
    BY <1>2, <2>1, <2>2
  <2>3. CASE outbox[c] # <<>> /\ Taken(c)
    <3>1. CASE d = c
      <4>1. /\ i \in DOMAIN outbox'[c] /\ i + 1 \in DOMAIN outbox[c]
            /\ outbox'[c][i] = outbox[c][i + 1]
        BY <1>2, <2>3, <3>1, TakenStep
      <4> QED BY <2>1, <3>1, <4>1
    <3>2. CASE d # c
      <4>1. outbox'[d] = outbox[d]
        BY <2>3, <3>2, TakenStep
      <4> QED BY <1>2, <2>1, <4>1
    <3> QED BY <3>1, <3>2
  <2> QED BY <2>2, <2>3
<1>3. ASSUME NEW m \in Miners, conn'[m] = NoSession
      PROVE  doing'[m] # "searching" /\ inbox'[m] = <<>>
  <2>1. doing[m] # "searching" /\ inbox[m] = <<>>
    BY <1>3 DEF CalmInv
  <2>2. inbox'[m] = inbox[m]
    BY <1>1, <1>3 DEF Deliver
  <2> QED BY <2>1, <2>2
<1> QED BY <1>2, <1>3 DEF CalmInv

\* The end of a session before the first failure: its miner waits and nothing
\* is under way, so it loses nothing but its place.
LEMMA SweepCalm ==
    ASSUME StepInv, CalmInv, failures = 0, NEW c \in Clients, Sweep(c)
    PROVE  CalmInv'
<1>1. MinerTypeOK /\ TypeOK /\ c # NoSession
  BY DEF StepInv, IndInv
<1>2. /\ \A m \in Miners : conn[m] = c => doing[m] = "waiting" /\ inbox[m] = <<>>
      /\ link' = [link EXCEPT ![c] = "absent"]
      /\ conn' = [m \in Miners |-> IF conn[m] = c THEN NoSession ELSE conn[m]]
      /\ outbox' = [outbox EXCEPT ![c] = <<>>]
      /\ UNCHANGED <<doing, inbox>>
  BY DEF Sweep, End, Reap, CutOff, Silent, CalmInv
<1>3. link'[c] = "absent" /\ \A d \in Clients \ {c} : link'[d] = link[d]
  BY <1>1, <1>2 DEF TypeOK
<1>4. outbox'[c] = <<>> /\ \A d \in Clients \ {c} : outbox'[d] = outbox[d]
  BY <1>1, <1>2 DEF MinerTypeOK
<1>5. ASSUME NEW d \in Clients PROVE link'[d] # "dead"
  BY <1>3 DEF CalmInv
<1>6. ASSUME NEW d \in Clients, link'[d] = "live" PROVE \E m \in Miners : conn'[m] = d
  <2>1. d # c /\ link[d] = "live"
    BY <1>3, <1>6
  <2>2. PICK m \in Miners : conn[m] = d
    BY <2>1 DEF CalmInv
  <2> QED BY <1>2, <2>1, <2>2
<1>7. ASSUME NEW d \in Clients, NEW i \in DOMAIN outbox'[d]
      PROVE  outbox'[d][i].method # "found"
  <2>1. d # c
    BY <1>4, <1>7
  <2>2. outbox'[d] = outbox[d]
    BY <1>4, <2>1
  <2> QED BY <1>7, <2>2 DEF CalmInv
<1>8. ASSUME NEW m \in Miners, conn'[m] = NoSession
      PROVE  doing'[m] # "searching" /\ inbox'[m] = <<>>
  BY <1>2, <1>8 DEF CalmInv
<1> QED BY <1>5, <1>6, <1>7, <1>8 DEF CalmInv

\* A new session has its miner.
LEMMA ConnectCalm ==
    ASSUME StepInv, CalmInv, failures = 0, NEW m \in Miners, Connect(m)
    PROVE  CalmInv'
<1>1. MinerTypeOK /\ TypeOK
  BY DEF StepInv, IndInv
<1>2. PICK c \in Clients : Accept(c) /\ conn' = [conn EXCEPT ![m] = c]
  BY DEF Connect
<1>3. /\ doing[m] = "connecting" /\ doing' = [doing EXCEPT ![m] = "waiting"]
      /\ link[c] = "absent" /\ link' = [link EXCEPT ![c] = "live"]
      /\ UNCHANGED <<inbox, outbox>>
  BY <1>2 DEF Connect, Accept
<1>4. /\ conn'[m] = c /\ c # NoSession /\ link'[c] = "live"
      /\ \A n \in Miners \ {m} : conn'[n] = conn[n] /\ doing'[n] = doing[n]
      /\ \A d \in Clients \ {c} : link'[d] = link[d]
  BY <1>1, <1>2, <1>3 DEF MinerTypeOK, TypeOK
<1>5. ASSUME NEW d \in Clients, link'[d] = "live" PROVE \E n \in Miners : conn'[n] = d
  <2>1. CASE d = c
    BY <1>4, <2>1
  <2>2. CASE d # c
    <3>1. PICK n \in Miners : conn[n] = d
      BY <1>4, <1>5, <2>2 DEF CalmInv
    <3>2. n # m
      BY <1>3, <3>1 DEF StepInv, MinerInv, TurnInv
    <3> QED BY <1>4, <3>1, <3>2
  <2> QED BY <2>1, <2>2
<1>6. \A d \in Clients : /\ link'[d] # "dead"
                         /\ \A i \in DOMAIN outbox'[d] : outbox'[d][i].method # "found"
  BY <1>3, <1>4 DEF CalmInv
<1>7. ASSUME NEW n \in Miners, conn'[n] = NoSession
      PROVE  doing'[n] # "searching" /\ inbox'[n] = <<>>
  BY <1>3, <1>4, <1>7 DEF CalmInv
<1> QED BY <1>5, <1>6, <1>7 DEF CalmInv

\* What is handed out stays covered when nothing is handed out, and pairs
\* leave a miner only to be searched.
LEMMA StaysCovered ==
    ASSUME HandedIsSearched, failures = 0, UNCHANGED <<jobId, handed>>,
           searched \subseteq searched',
           \A n \in Miners : Ahead(n) \subseteq searched' \cup Ahead(n)'
    PROVE  HandedIsSearched'
<1> SUFFICES ASSUME NEW h \in handed',
                    NEW x \in Pairs([job |-> jobId, extranonce2 |-> h.extranonce2],
                                    h.startNonce .. h.endNonce - 1)
             PROVE  x \in searched' \cup UNION {Ahead(m)' : m \in Miners}
  BY DEF HandedIsSearched, Pairs
<1>1. x \in searched \cup UNION {Ahead(m) : m \in Miners}
  BY DEF HandedIsSearched
<1> QED BY <1>1

\* Work for a session whose miner is there and idle lies before that miner.
LEMMA WorkIsCovered ==
    ASSUME StepInv, IndInv', MinerTypeOK', HandedIsSearched, failures = 0,
           NEW c \in Clients, NEW diff, Distribute(c, diff), Deliver(c),
           UNCHANGED <<jobId, doing, chunk, at, searched>>,
           NEW m \in Miners, conn[m] = c, doing[m] = "waiting", inbox[m] = <<>>
    PROVE  HandedIsSearched'
<1>1. TypeOK /\ c # NoSession
  BY DEF StepInv, IndInv
<1>2. PICK e \in Extranonce2s, h \in handed' :
        /\ handed' = handed \cup {h}
        /\ h.extranonce2 = e
        /\ startNonce' = [startNonce EXCEPT ![c] = h.startNonce]
        /\ endNonce' = [endNonce EXCEPT ![c] = h.endNonce]
        /\ extranonce2' = [extranonce2 EXCEPT ![c] = e]
        /\ jobID' = [jobID EXCEPT ![c] = jobId]
  <2>1. PICK e \in Extranonce2s :
          /\ handed' = handed \cup {[extranonce2 |-> e, from |-> issued[e],
                                     size |-> IterationsPerMiner + diff,
                                     startNonce |-> GetNextWorkChunk(e, diff).start,
                                     endNonce |-> GetNextWorkChunk(e, diff).end]}
          /\ startNonce' = [startNonce EXCEPT ![c] = GetNextWorkChunk(e, diff).start]
          /\ endNonce' = [endNonce EXCEPT ![c] = GetNextWorkChunk(e, diff).end]
          /\ extranonce2' = [extranonce2 EXCEPT ![c] = e]
          /\ jobID' = [jobID EXCEPT ![c] = jobId]
    BY DEF Distribute, GetNextExtranonce2
  <2> DEFINE h == [extranonce2 |-> e, from |-> issued[e],
                   size |-> IterationsPerMiner + diff,
                   startNonce |-> GetNextWorkChunk(e, diff).start,
                   endNonce |-> GetNextWorkChunk(e, diff).end]
  <2>2. /\ handed' = handed \cup {h} /\ h.extranonce2 = e
        /\ h.startNonce = GetNextWorkChunk(e, diff).start
        /\ h.endNonce = GetNextWorkChunk(e, diff).end
    BY <2>1
  <2> HIDE DEF h
  <2> QED BY <2>1, <2>2
<1>3. OnRecord(c)' = [job |-> jobId, extranonce2 |-> h.extranonce2,
                      startNonce |-> h.startNonce, endNonce |-> h.endNonce]
  BY <1>1, <1>2 DEF OnRecord, TypeOK
<1>4. inbox' = [n \in Miners |->
                  IF conn[n] = c THEN Append(inbox[n], OnRecord(c)') ELSE inbox[n]]
  BY DEF Deliver, OnRecord
<1>5. inbox'[m] # <<>> /\ inbox'[m][1] = OnRecord(c)' /\ doing'[m] = "waiting"
  BY <1>4
<1>6. Ahead(m) = {}
  BY NothingAhead
<1>7. Ahead(m)' = Pairs(OnRecord(c)', h.startNonce .. h.endNonce - 1)
  <2>1. Ahead(m)' = Pairs(inbox'[m][1], inbox'[m][1].startNonce .. inbox'[m][1].endNonce - 1)
    BY <1>5, InboxAheadNext
  <2> QED BY <1>3, <1>5, <2>1
<1>8. \A n \in Miners \ {m} : Ahead(n)' = Ahead(n)
  <2> SUFFICES ASSUME NEW n \in Miners \ {m} PROVE Ahead(n)' = Ahead(n)
    OBVIOUS
  <2>1. conn[n] # c
    BY <1>1 DEF StepInv, ConnInv
  <2>2. inbox'[n] = inbox[n]
    BY <1>4, <2>1
  <2> QED BY <2>2, SameAhead
<1> SUFFICES ASSUME NEW g \in handed',
                    NEW x \in Pairs([job |-> jobId, extranonce2 |-> g.extranonce2],
                                    g.startNonce .. g.endNonce - 1)
             PROVE  x \in searched' \cup UNION {Ahead(n)' : n \in Miners}
  BY DEF HandedIsSearched, Pairs
<1>9. CASE g = h
  BY <1>3, <1>7, <1>9 DEF Pairs
<1>10. CASE g # h
  <2>1. x \in searched \cup UNION {Ahead(n) : n \in Miners}
    BY <1>2, <1>10 DEF HandedIsSearched
  <2> QED BY <1>6, <1>8, <2>1
<1> QED BY <1>9, <1>10

\* A step of a miner searches what it takes from before it.
LEMMA MinerDelivers ==
    ASSUME StepInv, CalmInv, HandedIsSearched, MinerTypeOK', failures = 0, failures' = 0,
           NEW m \in Miners,
           \/ Die(m) \/ Receive(m) \/ PassOver(m) \/ NoticeClosed(m) \/ Hash(m)
           \/ SendStats(m) \/ SendIntoVoid(m) \/ Find(m) \/ SendCompleted(m)
    PROVE  HandedIsSearched'
<1>1. MinerTypeOK /\ MinerInv(m)
  BY DEF StepInv
<1>2. ~ Die(m) /\ ~ PassOver(m) /\ ~ Find(m) /\ ~ SendIntoVoid(m)
  BY DEF Die, PassOver, Find, Failure, SendIntoVoid, CalmInv
<1>3. UNCHANGED vars /\ searched \subseteq searched'
  BY <1>2 DEF Receive, NoticeClosed, Hash, SendStats, SendCompleted
<1>4. \A n \in Miners \ {m} : Ahead(n)' = Ahead(n)
  <2> SUFFICES ASSUME NEW n \in Miners \ {m} PROVE Ahead(n)' = Ahead(n)
    OBVIOUS
  <2>1. doing'[n] = doing[n] /\ inbox'[n] = inbox[n] /\ chunk'[n] = chunk[n] /\ at'[n] = at[n]
    BY <1>1, <1>2 DEF Receive, NoticeClosed, Hash, SendStats, SendCompleted, MinerTypeOK
  <2> QED BY <2>1, SameAhead
<1>5. Ahead(m) \subseteq searched' \cup Ahead(m)'
  <2>1. CASE Receive(m)
    <3>1. /\ doing[m] = "waiting" /\ inbox[m] # <<>>
          /\ inbox'[m] = <<>> /\ chunk'[m] = inbox[m][1] /\ doing'[m] = "searching"
          /\ at'[m] = inbox[m][1].startNonce
      BY <1>1, <2>1 DEF Receive, MinerTypeOK
    <3>2. Ahead(m)' = Pairs(chunk'[m], at'[m] .. chunk'[m].endNonce - 1)
      BY <3>1, ChunkAheadNext DEF Pairs
    <3>3. Ahead(m) = Pairs(inbox[m][1], inbox[m][1].startNonce .. inbox[m][1].endNonce - 1)
      BY <1>1, <3>1, InboxAhead
    <3> QED BY <3>1, <3>2, <3>3
  <2>2. CASE NoticeClosed(m)
    BY <2>2, NothingAhead DEF NoticeClosed
  <2>3. CASE SendStats(m)
    BY <2>3, SameAhead DEF SendStats
  <2>4. CASE SendCompleted(m)
    <3>1. doing[m] = "searching" /\ Left(m) = {} /\ inbox[m] = <<>>
      BY <1>1, <2>4 DEF SendCompleted, MinerInv, MinerTypeOK
    <3>2. Ahead(m) = {}
      BY <3>1, ChunkAhead DEF Left, Pairs
    <3> QED BY <3>2
  <2>5. CASE Hash(m)
    <3>1. /\ at[m] \in Left(m) /\ doing[m] = "searching" /\ inbox[m] = <<>>
          /\ searched' = searched \cup {<<chunk[m].job, chunk[m].extranonce2, at[m]>>}
          /\ at'[m] = at[m] + 1 /\ chunk' = chunk /\ inbox' = inbox /\ doing' = doing
      BY <1>1, <2>5 DEF Hash, Left, MinerInv, MinerTypeOK
    <3>2. at[m] \in Int /\ chunk[m].endNonce \in Int
      BY <1>1 DEF MinerTypeOK, Work, Nonces
    <3>3. Ahead(m) = Pairs(chunk[m], at[m] .. chunk[m].endNonce - 1)
      BY <3>1, ChunkAhead
    <3>4. Ahead(m)' = Pairs(chunk[m], at[m] + 1 .. chunk[m].endNonce - 1)
      <4>1. Ahead(m)' = Pairs(chunk'[m], at'[m] .. chunk'[m].endNonce - 1)
        BY <3>1, ChunkAheadNext DEF Pairs
      <4> QED BY <3>1, <4>1
    <3>5. at[m] .. chunk[m].endNonce - 1
            \subseteq {at[m]} \cup (at[m] + 1 .. chunk[m].endNonce - 1)
      BY <3>2
    <3> QED BY <3>1, <3>3, <3>4, <3>5 DEF Pairs
  <2> QED BY <1>2, <2>1, <2>2, <2>3, <2>4, <2>5
<1> QED BY <1>3, <1>4, <1>5, StaysCovered DEF vars, jobVars, history

\* A step that leaves the miners, the job and its chunks alone.
LEMMA NothingTaken ==
    ASSUME HandedIsSearched, failures = 0,
           UNCHANGED <<jobId, handed, doing, inbox, chunk, at, searched>>
    PROVE  HandedIsSearched'
<1>1. \A n \in Miners : Ahead(n)' = Ahead(n)
  BY SameAhead
<1> QED BY <1>1, StaysCovered

LEMMA InitDeliveryInv == HashNetInit => DeliveryInv
<1> SUFFICES ASSUME HashNetInit PROVE DeliveryInv
  OBVIOUS
<1>1. HandedIsSearched
  BY DEF HashNetInit, Init, HandedIsSearched
<1>2. \A c \in Clients : link[c] = "absent" /\ outbox[c] = <<>> /\ DOMAIN outbox[c] = {}
  BY DEF HashNetInit, Init
<1>3. CalmInv
  BY <1>2 DEF HashNetInit, CalmInv
<1> QED BY <1>1, <1>3, InitStepInv DEF DeliveryInv

LEMMA NextDeliveryInv ==
    ASSUME DeliveryInv, [HashNetNext]_allVars
    PROVE  DeliveryInv'
<1>1. StepInv /\ StepInv' /\ MinerTypeOK' /\ IndInv' /\ TypeOK
  BY NextStepInv DEF DeliveryInv, StepInv, IndInv
<1>2. SUFFICES ASSUME failures' = 0 PROVE CalmInv' /\ HandedIsSearched'
  BY <1>1 DEF DeliveryInv, CalmInv, HandedIsSearched
<1>3. failures = 0 /\ ~ Failure
  <2>1. failures \in Nat
    BY <1>1 DEF StepInv, MinerTypeOK
  <2>2. ~ Failure
    BY <1>2, <2>1 DEF Failure
  <2>3. failures' = failures
    BY <2>2 DEF HashNetNext, Die, Connect, Receive, PassOver, NoticeClosed, Hash, SendStats,
       SendIntoVoid, Find, SendCompleted, ServeStats, ServeCompleted, ServeMisread, ServeIdle,
       Close, Sweep, SweepEarly, ServerRestart, PoolActs, allVars, minerVars
  <2> QED BY <1>2, <2>2, <2>3
<1>4. CalmInv /\ HandedIsSearched
  BY DEF DeliveryInv
<1>5. ASSUME NEW m \in Miners,
             \/ Die(m) \/ Receive(m) \/ PassOver(m) \/ NoticeClosed(m) \/ Hash(m)
             \/ SendStats(m) \/ SendIntoVoid(m) \/ Find(m) \/ SendCompleted(m)
      PROVE  CalmInv' /\ HandedIsSearched'
  BY <1>1, <1>2, <1>3, <1>4, <1>5, MinerCalm, MinerDelivers
<1>6. ASSUME NEW m \in Miners, Connect(m) PROVE CalmInv' /\ HandedIsSearched'
  <2>1. CalmInv'
    BY <1>1, <1>3, <1>4, <1>6, ConnectCalm
  <2>2. /\ UNCHANGED <<jobId, handed, inbox, chunk, at, searched>>
        /\ doing[m] = "connecting" /\ doing' = [doing EXCEPT ![m] = "waiting"]
    BY <1>6 DEF Connect, Accept, jobVars, history
  <2>3. \A n \in Miners \ {m} : doing'[n] = doing[n]
    BY <1>1, <2>2 DEF StepInv, MinerTypeOK
  <2>4. \A n \in Miners \ {m} : Ahead(n)' = Ahead(n)
    BY <2>2, <2>3, SameAhead
  <2>5. Ahead(m) = {}
    <3>1. inbox[m] = <<>>
      BY <1>1, <2>2 DEF StepInv, MinerInv
    <3> QED BY <2>2, <3>1, NothingAhead
  <2>6. HandedIsSearched'
    BY <1>3, <1>4, <2>2, <2>4, <2>5, StaysCovered
  <2> QED BY <2>1, <2>6
<1>7. ASSUME NEW c \in Clients, ServeStats(c) PROVE CalmInv' /\ HandedIsSearched'
  <2>1. /\ outbox[c] # <<>> /\ Taken(c)
        /\ UNCHANGED <<jobId, handed, link, conn, doing, inbox, chunk, at, searched>>
    BY <1>7 DEF ServeStats, Reads, Report, history
  <2> QED BY <1>1, <1>3, <1>4, <2>1, ServeCalm, NothingTaken
<1>8. ASSUME NEW c \in Clients, ServeCompleted(c) PROVE CalmInv' /\ HandedIsSearched'
  <2>1. PICK t \in ChunkTimes : Complete(c, t)
    BY <1>8 DEF ServeCompleted
  <2>2. /\ Reads(c, "completed") /\ outbox[c] # <<>> /\ Taken(c)
        /\ IF Ready THEN Deliver(c) ELSE UNCHANGED inbox
        /\ UNCHANGED <<jobId, link, conn, doing, chunk, at, searched>>
        /\ link[c] # "absent"
    BY <1>8, <2>1 DEF ServeCompleted, Complete, Reads
  <2>3. CalmInv'
    BY <1>1, <1>3, <1>4, <2>2, ServeCalm
  <2>4. CASE Ready
    <3>1. PICK diff : Distribute(c, diff)
      BY <2>1, <2>4 DEF Complete
    <3>2. PICK m \in Miners : conn[m] = c
      BY <1>1, <1>3, <1>4, <2>2, CalmSession
    <3>3. doing[m] = "waiting" /\ inbox[m] = <<>>
      BY <1>1, <2>2, <3>2, CompletedMinerWaits
    <3>4. HandedIsSearched'
      BY <1>1, <1>3, <1>4, <2>2, <2>4, <3>1, <3>2, <3>3, WorkIsCovered
    <3> QED BY <2>3, <3>4
  <2>5. CASE ~ Ready
    <3>1. UNCHANGED <<handed, inbox>>
      BY <2>1, <2>2, <2>5 DEF Complete, history
    <3> QED BY <1>3, <1>4, <2>2, <2>3, <3>1, NothingTaken
  <2> QED BY <2>4, <2>5
<1>9. ASSUME NEW c \in Clients, ServeIdle(c) PROVE CalmInv' /\ HandedIsSearched'
  <2>1. /\ outbox' = outbox /\ Deliver(c) /\ Distribute(c, difficulty[c])
        /\ extranonce2[c] = None /\ link[c] # "absent"
        /\ UNCHANGED <<jobId, link, conn, doing, chunk, at, searched>>
    BY <1>9 DEF ServeIdle, HandOut
  <2>2. CalmInv'
    BY <1>1, <1>3, <1>4, <2>1, ServeCalm
  <2>3. PICK m \in Miners : conn[m] = c
    BY <1>1, <1>3, <1>4, <2>1, CalmSession
  <2>4. doing[m] = "waiting" /\ inbox[m] = <<>>
    BY <1>1, <2>1, <2>3 DEF StepInv, MinerInv, TurnInv
  <2>5. HandedIsSearched'
    BY <1>1, <1>3, <1>4, <2>1, <2>3, <2>4, WorkIsCovered
  <2> QED BY <2>2, <2>5
<1>10. ASSUME NEW c \in Clients, ServeMisread(c) \/ Close(c) PROVE FALSE
  <2>1. ServeMisread(c) /\ outbox[c] # <<>> /\ Head(outbox[c]).method = "found"
    BY <1>3, <1>10 DEF Close, ServeMisread, Reads
  <2>2. outbox[c] \in Seq(Message)
    BY <1>1 DEF StepInv, MinerTypeOK
  <2>3. 1 \in DOMAIN outbox[c] /\ outbox[c][1].method = "found"
    BY <2>1, <2>2, TailMessages
  <2> QED BY <1>3, <1>4, <2>3 DEF CalmInv
<1>11. ASSUME NEW c \in Clients, Sweep(c) \/ SweepEarly(c)
       PROVE  CalmInv' /\ HandedIsSearched'
  <2>1. Sweep(c)
    BY <1>3, <1>11 DEF SweepEarly
  <2>2. UNCHANGED <<jobId, handed, doing, inbox, chunk, at, searched>>
    BY <2>1 DEF Sweep, End, Reap, jobVars, history
  <2> QED BY <1>1, <1>3, <1>4, <2>1, <2>2, SweepCalm, NothingTaken
<1>12. ASSUME ServerRestart PROVE FALSE
  BY <1>3, <1>12 DEF ServerRestart
<1>13. CASE PoolActs
  <2>1. /\ handed' = {} /\ UNCHANGED <<link, conn, doing, inbox, outbox>>
    BY <1>13 DEF PoolActs, NewCleanJob, PoolLost, ForgetChunks, minerVars, sessionVars
  <2> QED BY <1>3, <1>4, <2>1 DEF CalmInv, HandedIsSearched
<1>14. CASE UNCHANGED allVars
  <2>1. UNCHANGED <<jobId, handed, link, conn, doing, inbox, chunk, at, searched, outbox>>
    BY <1>14 DEF allVars, vars, jobVars, sessionVars, history, minerVars
  <2> QED BY <1>3, <1>4, <2>1, NothingTaken DEF CalmInv
<1> QED BY <1>5, <1>6, <1>7, <1>8, <1>9, <1>10, <1>11, <1>12, <1>13, <1>14 DEF HashNetNext

\* As long as nothing has failed, every nonce handed out in the current job,
\* but the last of its chunk, has been searched or lies before a miner.
THEOREM NothingHandedIsLost == HashNetSpec => []HandedIsSearched
<1>1. DeliveryInv => HandedIsSearched
  BY DEF DeliveryInv
<1>2. DeliveryInv /\ [HashNetNext]_allVars => DeliveryInv'
  BY NextDeliveryInv
<1> QED BY <1>1, <1>2, InitDeliveryInv, PTL DEF HashNetSpec
===============================================================================

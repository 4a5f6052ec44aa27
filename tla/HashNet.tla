-------------------------------- MODULE HashNet --------------------------------
(***************************************************************************)
(* The whole: the server's distribution of work (WorkChunks) with the miners *)
(* at the other end of its sessions, each a hashnet.cpp process that a script *)
(* starts again whenever it ends.  A process reads its socket only between two *)
(* chunks, so it searches on after the server has ended its session, while     *)
(* the server, which ignores what a "completed" message says of the chunk,     *)
(* books it on whatever the session holds.                                  *)
(*                                                                         *)
(* Each TCP stream is a sequence of messages: outbox towards the server, inbox *)
(* towards the miner.  How streams are cut into messages is the subject of    *)
(* MinerSession; here a work message can be missed as a whole.               *)
(***************************************************************************)
EXTENDS WorkChunks, Sequences

CONSTANTS
    Miners,       \* the hashnet.cpp processes
    NoSession,    \* a socket that leads to no session of the server
    MaxOutbox,    \* bound: messages of a session not read by the server
    MaxFailures   \* bound: failures in a behaviour

ASSUME HashNetAssumption ==
    /\ NoSession \notin Clients
    /\ MaxOutbox \in Nat \ {0}
    /\ MaxFailures \in Nat

VARIABLES
    conn,      \* the session at the other end of a miner's sock
    doing,     \* where main is: "connecting", in receive_data, in the nonce loop
    inbox,     \* work under way to a miner
    chunk,     \* the work a miner has received last
    at,        \* uiNonce
    outbox,    \* messages under way to the server, per session
    searched,  \* history: the pairs hashed, each with its job
    failures   \* history: crashes, closed sessions, missed messages

minerVars == <<conn, doing, inbox, chunk, at, outbox, searched, failures>>
allVars == <<vars, minerVars>>

Work == [job : 0 .. MaxJobs, extranonce2 : Extranonce2s \cup {None},
         startNonce : Nonces, endNonce : Nonces]

\* The work the server has on record for a session.
OnRecord(c) == [job |-> jobID[c], extranonce2 |-> extranonce2[c],
                startNonce |-> startNonce[c], endNonce |-> endNonce[c]]

NoWork == [job |-> NoJob, extranonce2 |-> None, startNonce |-> 0, endNonce |-> 0]

Message == [method : {"stats", "completed", "found"}, work : Work]

MinerTypeOK ==
    /\ conn \in [Miners -> Clients \cup {NoSession}]
    /\ doing \in [Miners -> {"connecting", "waiting", "searching"}]
    /\ inbox \in [Miners -> Seq(Work)] /\ \A m \in Miners : Len(inbox[m]) <= 1
    /\ chunk \in [Miners -> Work]
    /\ at \in [Miners -> Nonces]
    /\ outbox \in [Clients -> Seq(Message)]
    /\ \A c \in Clients : Len(outbox[c]) <= MaxOutbox + 1
    /\ searched \subseteq (1 .. MaxJobs) \X Extranonce2s \X Nonces
    /\ failures \in 0 .. MaxFailures

\* One invariant for the types of all variables: one work message at most is
\* under way to a miner, since the server speaks only when it is its turn.
HashNetTypeOK == TypeOK /\ MinerTypeOK

HashNetInit ==
    /\ Init
    /\ conn = [m \in Miners |-> NoSession]
    /\ doing = [m \in Miners |-> "connecting"]
    /\ inbox = [m \in Miners |-> <<>>]
    /\ chunk = [m \in Miners |-> NoWork]
    /\ at = [m \in Miners |-> 0]
    /\ outbox = [c \in Clients |-> <<>>]
    /\ searched = {}
    /\ failures = 0

Failure == failures < MaxFailures /\ failures' = failures + 1

-------------------------------------------------------------------------------
(***************************************************************************)
(* The miners.                                                             *)
(***************************************************************************)

\* The process ends and the script starts it again.  The kernel closes its
\* socket; what it has sent still arrives.
Restart(m) ==
    /\ conn' = [conn EXCEPT ![m] = NoSession]
    /\ doing' = [doing EXCEPT ![m] = "connecting"]
    /\ inbox' = [inbox EXCEPT ![m] = <<>>]
    /\ chunk' = [chunk EXCEPT ![m] = NoWork]
    /\ at' = [at EXCEPT ![m] = 0]

Die(m) ==
    /\ doing[m] # "connecting"
    /\ Restart(m)
    /\ Failure
    /\ UNCHANGED <<vars, outbox, searched>>

\* sock <= 0: connect_to_pool, and the server's accept block.
Connect(m) ==
    /\ doing[m] = "connecting"
    /\ \E c \in Clients : Accept(c) /\ conn' = [conn EXCEPT ![m] = c]
    /\ doing' = [doing EXCEPT ![m] = "waiting"]
    /\ UNCHANGED <<inbox, chunk, at, outbox, searched, failures>>

\* receive_data returns a "work" message.
Receive(m) ==
    /\ doing[m] = "waiting"
    /\ inbox[m] # <<>>
    /\ inbox' = [inbox EXCEPT ![m] = <<>>]
    /\ chunk' = [chunk EXCEPT ![m] = Head(inbox[m])]
    /\ at' = [at EXCEPT ![m] = Head(inbox[m]).startNonce]
    /\ doing' = [doing EXCEPT ![m] = "searching"]
    /\ UNCHANGED <<vars, conn, outbox, searched, failures>>

\* A recv that returns a part of the message: neither part is understood.
PassOver(m) ==
    /\ doing[m] = "waiting"
    /\ inbox[m] # <<>>
    /\ inbox' = [inbox EXCEPT ![m] = <<>>]
    /\ Failure
    /\ UNCHANGED <<vars, conn, doing, chunk, at, outbox, searched>>

\* receive_data finds the end of the stream: "Connection closed by server".
NoticeClosed(m) ==
    /\ doing[m] = "waiting"
    /\ conn[m] = NoSession
    /\ inbox[m] = <<>>
    /\ doing' = [doing EXCEPT ![m] = "connecting"]
    /\ UNCHANGED <<vars, conn, inbox, chunk, at, outbox, searched, failures>>

\* send_data.  Nothing is heard of what is sent on a closed connection.
Send(m, method) ==
    outbox' = [c \in Clients |->
                  IF c = conn[m]
                  THEN Append(outbox[c], [method |-> method, work |-> chunk[m]])
                  ELSE outbox[c]]

\* The nonces left to a miner: nonce_end itself is not hashed.
Left(m) == IF doing[m] = "searching" THEN at[m] .. chunk[m].endNonce - 1 ELSE {}

\* One turn of the nonce loop.
Hash(m) ==
    /\ at[m] \in Left(m)
    /\ searched' = searched \cup {<<chunk[m].job, chunk[m].extranonce2, at[m]>>}
    /\ at' = [at EXCEPT ![m] = at[m] + 1]
    /\ UNCHANGED <<vars, conn, doing, inbox, chunk, outbox, failures>>

\* "stats", once a second, at the end of a turn.
SendStats(m) ==
    /\ doing[m] = "searching" /\ at[m] > chunk[m].startNonce
    /\ conn[m] # NoSession /\ Len(outbox[conn[m]]) < MaxOutbox
    /\ Send(m, "stats")
    /\ UNCHANGED <<vars, conn, doing, inbox, chunk, at, searched, failures>>

\* A send on a connection that the peer has closed: SIGPIPE ends the process.
SendIntoVoid(m) ==
    /\ doing[m] = "searching"
    /\ conn[m] = NoSession
    /\ Restart(m)
    /\ UNCHANGED <<vars, outbox, searched, failures>>

\* The hash is below the target.  "found" has no end of line, so the server
\* takes it and the "completed" that follows for one line, a parse error.
Find(m) ==
    /\ at[m] \in Left(m)
    /\ searched' = searched \cup {<<chunk[m].job, chunk[m].extranonce2, at[m]>>}
    /\ Send(m, "found")
    /\ doing' = [doing EXCEPT ![m] = "waiting"]
    /\ Failure
    /\ UNCHANGED <<vars, conn, inbox, chunk, at>>

\* Mutant: the loop may be left before its end.
SendCompletedEarly(m) ==
    /\ doing[m] = "searching"
    /\ Send(m, "completed")
    /\ doing' = [doing EXCEPT ![m] = "waiting"]
    /\ UNCHANGED <<vars, conn, inbox, chunk, at, searched, failures>>

\* "completed", after the loop.
SendCompleted(m) ==
    /\ doing[m] = "searching"
    /\ Left(m) = {}
    /\ Send(m, "completed")
    /\ doing' = [doing EXCEPT ![m] = "waiting"]
    /\ UNCHANGED <<vars, conn, inbox, chunk, at, searched, failures>>

-------------------------------------------------------------------------------
(***************************************************************************)
(* The server.                                                             *)
(***************************************************************************)

\* The socket of session c is closed: its miner, if there still is one, has a
\* connection that leads nowhere.
CutOff(closing) ==
    conn' = [m \in Miners |-> IF conn[m] \in closing THEN NoSession ELSE conn[m]]

\* SendTo of the work just put on record.
Deliver(c) ==
    inbox' = [m \in Miners |->
                 IF conn[m] = c
                 THEN Append(inbox[m], [job |-> jobID'[c], extranonce2 |-> extranonce2'[c],
                                        startNonce |-> startNonce'[c], endNonce |-> endNonce'[c]])
                 ELSE inbox[m]]

\* The next message of session c.
Reads(c, method) == outbox[c] # <<>> /\ Head(outbox[c]).method = method

Taken(c) == outbox' = [outbox EXCEPT ![c] = Tail(@)]

ServeStats(c) ==
    /\ Reads(c, "stats")
    /\ \E d \in Distances : Report(c, d)
    /\ Taken(c)
    /\ UNCHANGED <<conn, doing, inbox, chunk, at, searched, failures>>

ServeCompleted(c) ==
    /\ Reads(c, "completed")
    /\ \E t \in ChunkTimes : Complete(c, t)
    /\ IF Ready THEN Deliver(c) ELSE UNCHANGED inbox
    /\ Taken(c)
    /\ UNCHANGED <<conn, doing, chunk, at, searched, failures>>

\* The line that is no message: ThrottleIP closes the session.
ServeMisread(c) ==
    /\ Reads(c, "found")
    /\ Disconnect(c)
    /\ CutOff({c})
    /\ Taken(c)
    /\ UNCHANGED <<doing, inbox, chunk, at, searched, failures>>

\* Mutant: a session with a chunk of an earlier job is given a new one.
ServeIdleOrOutdated(c) ==
    /\ outbox[c] = <<>>
    /\ link[c] # "absent"
    /\ Ready
    /\ extranonce2[c] = None \/ jobID[c] # jobId
    /\ Distribute(c, difficulty[c])
    /\ Deliver(c)
    /\ UNCHANGED <<jobId, totalJobs, bestExtranonce2, link, difficulty,
                   conn, doing, chunk, at, outbox, searched, failures>>

\* The distribution block for a session without commands.
ServeIdle(c) ==
    /\ outbox[c] = <<>>
    /\ HandOut(c)
    /\ Deliver(c)
    /\ UNCHANGED <<conn, doing, chunk, at, outbox, searched, failures>>

\* DisconnectIP for another session of the same address.
Close(c) ==
    /\ Disconnect(c)
    /\ CutOff({c})
    /\ Failure
    /\ UNCHANGED <<doing, inbox, chunk, at, outbox, searched>>

\* Nothing comes from session c and nothing will: its miner is gone, or waits
\* for a message that is not under way.  An idle session does not wait while
\* there is a job, Tick serves it in the same turn.
Silent(c) ==
    /\ outbox[c] = <<>>
    /\ ~ Ready \/ extranonce2[c] # None
    /\ \A m \in Miners : conn[m] = c => doing[m] = "waiting" /\ inbox[m] = <<>>

\* The session leaves the table and its messages with it.
End(c) ==
    /\ Reap(c)
    /\ CutOff({c})
    /\ outbox' = [outbox EXCEPT ![c] = <<>>]
    /\ UNCHANGED <<doing, inbox, chunk, at, searched>>

\* Mutant: a session lasts until its socket reports an error.
SweepDead(c) ==
    /\ link[c] = "dead"
    /\ End(c)
    /\ UNCHANGED failures

\* The sweeps: a closed session, the end of its stream, SESSION_TIMEOUT.
Sweep(c) ==
    /\ link[c] = "dead" \/ Silent(c)
    /\ End(c)
    /\ UNCHANGED failures

\* A timeout of a miner whose messages are late, or an error on its socket.
SweepEarly(c) ==
    /\ link[c] = "live"
    /\ End(c)
    /\ Failure

\* The server ends, on SIGINT or an uncaught exception, and is started again:
\* no session, no job.  Numbers of jobs go on, since a pool connection has an
\* extranonce1 of its own and the work of no two of them is the same.
ServerRestart ==
    /\ jobId' = NoJob
    /\ ForgetChunks
    /\ link' = [c \in Clients |-> "absent"]
    /\ extranonce2' = [c \in Clients |-> None]
    /\ startNonce' = [c \in Clients |-> 0]
    /\ endNonce' = [c \in Clients |-> 0]
    /\ jobID' = [c \in Clients |-> NoJob]
    /\ difficulty' = [c \in Clients |-> 0]
    /\ score' = [c \in Clients |-> 0]
    /\ CutOff(Clients)
    /\ outbox' = [c \in Clients |-> <<>>]
    /\ Failure
    /\ UNCHANGED <<totalJobs, doing, inbox, chunk, at, searched>>

\* A new job, and the loss of the pool, reach no miner.
PoolActs == (NewCleanJob \/ PoolLost) /\ UNCHANGED minerVars

HashNetNext ==
    \/ \E m \in Miners :
        \/ Die(m) \/ Connect(m) \/ Receive(m) \/ PassOver(m) \/ NoticeClosed(m)
        \/ Hash(m) \/ SendStats(m) \/ SendIntoVoid(m) \/ Find(m) \/ SendCompleted(m)
    \/ \E c \in Clients :
        \/ ServeStats(c) \/ ServeCompleted(c) \/ ServeMisread(c) \/ ServeIdle(c)
        \/ Close(c) \/ Sweep(c) \/ SweepEarly(c)
    \/ ServerRestart
    \/ PoolActs

\* The processes run, the server visits every session in each Tick.
HashNetSpec ==
    /\ HashNetInit /\ [][HashNetNext]_allVars
    /\ \A m \in Miners :
        /\ WF_allVars(Connect(m)) /\ WF_allVars(Receive(m)) /\ WF_allVars(NoticeClosed(m))
        /\ WF_allVars(Hash(m)) /\ WF_allVars(SendCompleted(m))
    /\ \A c \in Clients :
        /\ WF_allVars(ServeStats(c)) /\ WF_allVars(ServeCompleted(c))
        /\ WF_allVars(ServeMisread(c)) /\ WF_allVars(ServeIdle(c)) /\ WF_allVars(Sweep(c))

-------------------------------------------------------------------------------
(***************************************************************************)
(* Properties.                                                             *)
(***************************************************************************)

\* What a miner works on is what its session has on record, and every message
\* that reaches a session is about it: the server may ignore the job and the
\* nonces of "completed", and a report never counts for another chunk, nor for
\* the empty extranonce2 of a session without one, which the server does not
\* exclude (CServer.cpp:392, :399) and WorkChunks takes for granted.
InStep ==
    /\ \A c \in Clients : \A i \in DOMAIN outbox[c] :
        extranonce2[c] # None /\ outbox[c][i].work = OnRecord(c)
    /\ \A m \in Miners : conn[m] # NoSession =>
        /\ doing[m] = "searching" => chunk[m] = OnRecord(conn[m])
        /\ \A i \in DOMAIN inbox[m] : inbox[m][i] = OnRecord(conn[m])

Pairs(w, nonces) == {w.job} \X {w.extranonce2} \X nonces

\* The pairs a miner has before it.
Ahead(m) ==
    Pairs(chunk[m], Left(m)) \cup
        UNION {Pairs(w, w.startNonce .. w.endNonce - 1) : w \in {inbox[m][i] : i \in DOMAIN inbox[m]}}

\* No pair of a job is searched twice, by any two processes, sessions or
\* incarnations of the server: what a miner has before it was not searched by
\* anybody and is before nobody else.
SearchedOnce ==
    \A m \in Miners :
        /\ Ahead(m) \cap searched = {}
        /\ \A n \in Miners \ {m} : Ahead(m) \cap Ahead(n) = {}

\* As long as nothing has failed, every nonce the server has handed out in this
\* job, but the last of its chunk, has been searched or lies before the miner
\* that will: no record of the server stands for work that reached nobody.
HandedIsSearched ==
    failures = 0 =>
        \A h \in handed :
            Pairs([job |-> jobId, extranonce2 |-> h.extranonce2], h.startNonce .. h.endNonce - 1)
                \subseteq searched \cup UNION {Ahead(m) : m \in Miners}

\* Within the bound no chunk can be cut any more, and that is what miner m, or a
\* session that keeps its place, waits for.
AtTheBound(m) ==
    /\ \A e \in Extranonce2s : issued[e] + IterationsPerMiner > MaxIssued
    /\ \/ conn[m] # NoSession /\ extranonce2[conn[m]] = None
       \/ \E c \in Clients : outbox[c] # <<>>

\* Whatever has failed before, every miner is given work again and again as
\* long as the pool has a job: no session, message or place is stuck.
EveryMinerWorks ==
    \A m \in Miners : []<>(doing[m] = "searching" \/ ~ Ready \/ AtTheBound(m))

-------------------------------------------------------------------------------
(***************************************************************************)
(* The inductive invariant behind the theorems of HashNetProofs.            *)
(***************************************************************************)

\* Work that is searched or under way is of a job and an extranonce2.
WorkGiven == [job : 1 .. totalJobs, extranonce2 : Extranonce2s,
              startNonce : Nonces, endNonce : Nonces]

\* What is absent holds nothing; the message after which the server has its
\* turn is the last, and each message is about what is on record.
SessionInv(c) ==
    /\ link[c] = "absent" => extranonce2[c] = None
    /\ extranonce2[c] = None => outbox[c] = <<>>
    /\ \A i \in DOMAIN outbox[c] :
        /\ outbox[c][i].work = OnRecord(c)
        /\ outbox[c][i].method # "stats" => i = Len(outbox[c])

\* Either the server has its turn, or work is under way to miner m, or m
\* searches and has sent nothing but "stats", or its last word is under way.
TurnInv(m, c) ==
    /\ link[c] = "live" /\ doing[m] # "connecting"
    /\ extranonce2[c] = None => doing[m] = "waiting" /\ inbox[m] = <<>>
    /\ inbox[m] # <<>> => outbox[c] = <<>> /\ inbox[m][1] = OnRecord(c)
    /\ doing[m] = "searching" =>
        /\ chunk[m] = OnRecord(c)
        /\ Len(outbox[c]) <= MaxOutbox
        /\ \A i \in DOMAIN outbox[c] : outbox[c][i].method = "stats"

MinerInv(m) ==
    /\ inbox[m] # <<>> => doing[m] = "waiting" /\ inbox[m][1] \in WorkGiven
    /\ doing[m] = "searching" => chunk[m] \in WorkGiven
    /\ conn[m] # NoSession => TurnInv(m, conn[m])

ConnInv ==
    \A m, n \in Miners : conn[m] # NoSession /\ conn[m] = conn[n] => m = n

\* What was searched or is going to be is of a job the server had, and handed
\* out if that is the current one.
Accounted(x) ==
    /\ x[1] \in 1 .. totalJobs
    /\ x[1] = jobId => <<x[2], x[3]>> \in pairsHanded

HandedInv == \A x \in searched \cup UNION {Ahead(m) : m \in Miners} : Accounted(x)

\* Inductive: it implies InStep.
StepInv ==
    /\ IndInv
    /\ MinerTypeOK
    /\ \A c \in Clients : SessionInv(c)
    /\ \A m \in Miners : MinerInv(m)
    /\ ConnInv

\* Inductive as long as no extranonce2 can be exhausted.
SearchInv == StepInv /\ HandedInv /\ SearchedOnce

\* Before the first failure no socket is closed under a miner that has or
\* expects work, every session has its miner, and nothing is misread.
CalmInv ==
    failures = 0 =>
        /\ \A c \in Clients :
            /\ link[c] # "dead"
            /\ link[c] = "live" => \E m \in Miners : conn[m] = c
            /\ \A i \in DOMAIN outbox[c] : outbox[c][i].method # "found"
        /\ \A m \in Miners :
            conn[m] = NoSession => doing[m] # "searching" /\ inbox[m] = <<>>

\* Inductive: it implies HandedIsSearched.
DeliveryInv == StepInv /\ CalmInv /\ HandedIsSearched
===============================================================================

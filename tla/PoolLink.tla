------------------------------- MODULE PoolLink -------------------------------
(***************************************************************************)
(* The server's link to the mining pool: the POOL block of CServer::Tick,    *)
(* POOL_Connect, POOL_Connected, POOL_Send, POOL_Receive and the submission   *)
(* of a found block, which talks to the pool from inside the handling of a    *)
(* miner's command.                                                         *)
(*                                                                         *)
(* The pool sends a stream of messages.  One recv returns a nonempty prefix   *)
(* of what has arrived: one message, several, or a message without its end.   *)
(* The code treats what one recv returns as one message.  The newline         *)
(* between two messages is white space to the parser, so it does not matter   *)
(* on which side of a cut it falls.                                          *)
(*                                                                         *)
(* What the code sees of the socket is the kernel's doing:                   *)
(*   "none"    no socket yet: getsockopt fails;                              *)
(*   "failed"  connect failed: no error is pending, select reports it         *)
(*             readable and recv fails;                                      *)
(*   "up"      connected;                                                   *)
(*   "eof"     the pool closed: no error pending, recv returns 0 bytes;       *)
(*   "reset"   an error is pending, which getsockopt reports once;            *)
(*   "dead"    a reset socket after its error was reported: like "eof".       *)
(***************************************************************************)
EXTENDS Integers, Sequences

CONSTANTS
    MaxConns,   \* bound: connections to the pool
    MaxJobs,    \* bound: jobs the pool notifies
    MaxStream   \* bound: messages on their way

ASSUME PoolLinkAssumption ==
    /\ {MaxConns, MaxJobs, MaxStream} \subseteq Nat
    /\ MaxStream > 0 \* room for what the answer to mining.subscribe leaves

VARIABLES
    status,      \* "running", "exited", "crashed", or in POOL_Receive for as long as the
                 \* pool takes: "subscribing", or "blocked" in that of a submission
    socket,      \* m_PoolSocket, as above
    conn,        \* number of the connection, 0 before the first
    extranonce1, \* m_mMapping["extranonce1"]: the connection it came from, or 0
    cleanJobs,   \* m_mMapping["clean_jobs"] is "true"
    job,         \* the job of m_tCurrentJob; NoJob unless m_mMapping["ready"]
    stream,      \* messages of this connection not received yet
    poolJob,     \* the last job the pool notified, on any connection
    lastSent,    \* the last clean job sent on this connection, or 0
    submitted    \* what the pool has of the last submission: "none", "text" or "line"

poolVars == <<poolJob, lastSent>>
vars == <<status, socket, conn, extranonce1, cleanJobs, job, stream, poolVars, submitted>>

Sockets == {"none", "failed", "up", "eof", "reset", "dead"}

\* A mining.notify with clean_jobs, one without, or one too short to have the
\* parameter; any other message; the rest of a message whose start was received
\* before.
Notifications == {"clean", "update", "short"}
Messages == [kind : Notifications \cup {"other", "rest"}, number : 0 .. MaxJobs]
Notify(kind, n) == [kind |-> kind, number |-> n]
Other == [kind |-> "other", number |-> 0]
Rest == [kind |-> "rest", number |-> 0]

NoJob == [conn |-> 0, kind |-> "none", number |-> 0]
Jobs == [conn : 0 .. MaxConns, kind : Notifications \cup {"none"}, number : 0 .. MaxJobs]

TypeOK ==
    /\ status \in {"running", "subscribing", "blocked", "exited", "crashed"}
    /\ socket \in Sockets
    /\ conn \in 0 .. MaxConns
    /\ extranonce1 \in 0 .. MaxConns
    /\ cleanJobs \in BOOLEAN
    /\ job \in Jobs
    /\ stream \in Seq(Messages) /\ Len(stream) <= MaxStream
    /\ poolJob \in 0 .. MaxJobs
    /\ lastSent \in 0 .. poolJob
    /\ submitted \in {"none", "text", "line"}

Init ==
    /\ status = "running"
    /\ socket = "none"
    /\ conn = 0
    /\ extranonce1 = 0
    /\ cleanJobs = FALSE
    /\ job = NoJob
    /\ stream = <<>>
    /\ poolJob = 0 /\ lastSent = 0
    /\ submitted = "none"

-------------------------------------------------------------------------------
\* POOL_Connected: the descriptor is valid and has no error pending.
POOL_Connected == socket \notin {"none", "reset"}

\* POOL_Receive with data to read: k messages, and if cut the start of one more.
Received(k, cut) ==
    /\ k + cut >= 1
    /\ stream' = IF cut = 0 THEN SubSeq(stream, k + 1, Len(stream))
                 ELSE <<Rest>> \o SubSeq(stream, k + 2, Len(stream))

\* What recv may return of the stream.
Receives(k, cut) == k \in 0 .. Len(stream) /\ cut \in {0, 1} /\ k + cut <= Len(stream)

\* The notification is understood when recv returned it alone and whole: anything
\* after it, or a missing end, is a parse error and is passed over.
Understood(k, cut) == k = 1 /\ cut = 0 /\ stream[1].kind \in Notifications

\* Mutant: the flag is set and never taken back.
FlagKept(kind) == cleanJobs \/ kind = "clean"

\* The flag behind a notification: one that is too short leaves the old one.
FlagAfter(kind) ==
    CASE kind = "clean" -> TRUE
      [] kind = "update" -> FALSE
      [] kind = "short" -> cleanJobs

\* POOL block, connected, data: a notification with the flag set replaces the
\* current job, unless its Merkle branch or its nbits are wrong: exit.  What
\* arrived before the pool closed is still received.
PoolReads ==
    /\ status = "running"
    /\ socket \in {"up", "eof"}
    /\ \E k \in 0 .. MaxStream, cut \in {0, 1} :
        /\ Receives(k, cut)
        /\ Received(k, cut)
        /\ \/ ~ Understood(k, cut) /\ UNCHANGED <<status, cleanJobs, job>>
           \/ /\ Understood(k, cut)
              /\ cleanJobs' = FlagAfter(stream[1].kind)
              /\ \/ ~ cleanJobs' /\ UNCHANGED <<status, job>>
                 \/ /\ cleanJobs'
                    /\ job' = [conn |-> conn, kind |-> stream[1].kind, number |-> stream[1].number]
                    /\ UNCHANGED status
                 \/ cleanJobs' /\ status' = "exited" /\ UNCHANGED job
    /\ UNCHANGED <<socket, conn, extranonce1, poolVars, submitted>>

\* POOL block, connected, but the pool has closed: recv returns no bytes, the
\* response is the empty string and nothing comes of it.
PoolReadsNothing ==
    /\ status = "running"
    /\ socket \in {"eof", "dead"}
    /\ stream = <<>>
    /\ UNCHANGED vars

\* recv fails: POOL_Receive makes a string of (size_t)-1 bytes, which throws
\* an exception nobody catches.  The error can also come between the check of
\* POOL_Connected and recv.
PoolReadFails ==
    /\ status = "running"
    /\ socket \in {"failed", "up"}
    /\ status' = "crashed"
    /\ UNCHANGED <<socket, conn, extranonce1, cleanJobs, job, stream, poolVars, submitted>>

-------------------------------------------------------------------------------
\* Mutant: the job survives the connection.
ClearNothing == UNCHANGED <<extranonce1, cleanJobs, job>>

\* POOL block, not connected: tCurrentJob::Clear ...
Clear == extranonce1' = 0 /\ cleanJobs' = FALSE /\ job' = NoJob

\* ... and POOL_Connect finds no host.  The old descriptor stays; its pending
\* error has been reported.
ReconnectNoHost ==
    /\ status = "running"
    /\ ~ POOL_Connected
    /\ Clear
    /\ socket' = IF socket = "reset" THEN "dead" ELSE socket
    /\ stream' = <<>>
    /\ UNCHANGED <<status, conn, poolVars, submitted>>

\* ... or connect fails.
ReconnectFails ==
    /\ status = "running"
    /\ ~ POOL_Connected
    /\ Clear
    /\ socket' = "failed"
    /\ stream' = <<>>
    /\ UNCHANGED <<status, conn, poolVars, submitted>>

\* ... or it succeeds: mining.subscribe is sent, and Tick waits for the answer.
Reconnect ==
    /\ status = "running"
    /\ ~ POOL_Connected
    /\ conn < MaxConns
    /\ Clear
    /\ conn' = conn + 1
    /\ socket' = "up"
    /\ stream' = <<>>
    /\ lastSent' = 0
    /\ status' = "subscribing"
    /\ UNCHANGED <<poolJob, submitted>>

\* Mutant: the answer's extranonce1 is not stored.
SubscribedForgetting ==
    /\ status = "subscribing"
    /\ socket = "up"
    /\ status' = "running"
    /\ UNCHANGED <<socket, conn, extranonce1, cleanJobs, job, stream, poolVars, submitted>>

\* The answer comes and mining.authorize is sent.  The answer is taken from the
\* first recv; a notify that the same recv returns after it is dropped, or its
\* start is.
Subscribed ==
    /\ status = "subscribing"
    /\ socket = "up"
    /\ status' = "running"
    /\ extranonce1' = conn
    /\ \/ UNCHANGED <<stream, poolVars>>
       \/ /\ poolJob < MaxJobs
          /\ poolJob' = poolJob + 1
          /\ lastSent' = poolJob + 1
          /\ stream' \in {<<>>, <<Rest>>, <<Notify("clean", poolJob + 1)>>}
    /\ UNCHANGED <<socket, conn, cleanJobs, job, submitted>>

\* ... or what comes is not the answer that was expected, the empty string of a
\* pool that has closed for one: exit.  On a reset connection send raises SIGPIPE
\* or recv fails.
SubscribeFails ==
    /\ status = "subscribing"
    /\ status' = IF socket = "reset" THEN "crashed" ELSE "exited"
    /\ UNCHANGED <<socket, conn, extranonce1, cleanJobs, job, stream, poolVars, submitted>>

-------------------------------------------------------------------------------
(***************************************************************************)
(* "found" in the handling of commands: POOL_Send of mining.submit, without   *)
(* a newline at its end, and POOL_Receive, which blocks until the pool sends  *)
(* something and takes it for the response.                                 *)
(***************************************************************************)

Found ==
    /\ status = "running"
    /\ socket = "up"
    /\ submitted' = "text"
    /\ status' = "blocked"
    /\ UNCHANGED <<socket, conn, extranonce1, cleanJobs, job, stream, poolVars>>

\* The pool has closed: the submission makes it reset the connection, and
\* POOL_Receive returns at once.  On a socket already reset the send may raise
\* SIGPIPE.
FoundAfterClose ==
    /\ status = "running"
    /\ \/ socket = "eof" /\ socket' = "reset" /\ UNCHANGED status
       \/ socket = "reset" /\ socket' = "dead" /\ UNCHANGED status
       \/ socket \in {"none", "failed", "reset", "dead"} /\ status' = "crashed" /\ UNCHANGED socket
    /\ UNCHANGED <<conn, extranonce1, cleanJobs, job, stream, poolVars, submitted>>

\* The blocked POOL_Receive returns with whatever comes first.
ResponseArrives ==
    /\ status = "blocked"
    /\ \/ \E k \in 0 .. MaxStream, cut \in {0, 1} :
            Receives(k, cut) /\ Received(k, cut) /\ status' = "running"
       \/ stream = <<>> /\ socket \in {"eof", "dead"} /\ status' = "running" /\ UNCHANGED stream
       \/ socket = "reset" /\ status' = "crashed" /\ UNCHANGED stream
    /\ UNCHANGED <<socket, conn, extranonce1, cleanJobs, job, poolVars, submitted>>

-------------------------------------------------------------------------------
(***************************************************************************)
(* The pool.                                                               *)
(***************************************************************************)

PoolNotifies ==
    /\ socket = "up" /\ status # "subscribing"
    /\ Len(stream) < MaxStream
    /\ poolJob < MaxJobs
    /\ poolJob' = poolJob + 1
    /\ \E kind \in Notifications :
        /\ stream' = Append(stream, Notify(kind, poolJob + 1))
        /\ lastSent' = IF kind = "clean" THEN poolJob + 1 ELSE lastSent
    /\ UNCHANGED <<status, socket, conn, extranonce1, cleanJobs, job, submitted>>

PoolSendsOther ==
    /\ socket = "up" /\ status # "subscribing"
    /\ Len(stream) < MaxStream
    /\ stream' = Append(stream, Other)
    /\ UNCHANGED <<status, socket, conn, extranonce1, cleanJobs, job, poolVars, submitted>>

\* The connection ends, orderly or with a reset, which drops unread data.
PoolCloses ==
    /\ socket = "up"
    /\ \/ socket' = "eof" /\ UNCHANGED stream
       \/ socket' = "reset" /\ stream' = <<>>
    /\ UNCHANGED <<status, conn, extranonce1, cleanJobs, job, poolVars, submitted>>

PoolBlock ==
    \/ PoolReads \/ PoolReadsNothing \/ PoolReadFails
    \/ ReconnectNoHost \/ ReconnectFails \/ Reconnect

Next ==
    \/ PoolBlock
    \/ Subscribed \/ SubscribeFails
    \/ Found \/ FoundAfterClose \/ ResponseArrives
    \/ PoolNotifies \/ PoolSendsOther \/ PoolCloses

\* main runs the POOL block again and again while the server runs and does not
\* wait for the pool.  Nothing makes the pool answer.
Spec == Init /\ [][Next]_vars /\ WF_vars(PoolBlock)

-------------------------------------------------------------------------------
(***************************************************************************)
(* Properties.                                                             *)
(***************************************************************************)

Ready == job # NoJob

\* The job handed to miners and the extranonce1 sent with it come from the
\* same connection, the current one, however the link was lost and made.
JobOfThisConnection ==
    Ready => job.conn = conn /\ extranonce1 = conn

\* Jobs only move forward: data of an earlier connection or an earlier job
\* never replaces the current job.  Nor does a job the pool sends without
\* clean_jobs: miners keep digging on what they have.
JobsMoveForward ==
    [][job' # job =>
        \/ job' = NoJob
        \/ job'.number > job.number /\ job'.kind # "update"]_vars

\* CServer.cpp:761: "Check if the socket is still connected".  A socket that
\* never connected does not pass.
FailedIsNotConnected == socket = "failed" => ~ POOL_Connected

\* CServer.cpp:761 again: once the pool has closed, the server ends up not
\* taking the link for a connection.
CloseIsNoticed == socket = "eof" ~> (socket # "eof" \/ status # "running")

\* CServer.cpp:137: "Update current_job only when new jobs come in".  When
\* everything the pool sent has been received, the current job is the last clean
\* one, or a later one.
CleanJobIsTaken ==
    (status = "running" /\ socket = "up" /\ stream = <<>> /\ lastSent # 0)
        => job.number >= lastSent

\* CServer.cpp:366: "Submitting found nonce to pool".  When the server goes on,
\* the pool has the submission as a message, a line of the protocol.
SubmissionIsALine == submitted = "text" => status = "blocked"

-------------------------------------------------------------------------------
(***************************************************************************)
(* The inductive invariant behind the theorems of PoolLinkProofs.           *)
(***************************************************************************)

\* On a socket from which data is read, the server is subscribed; before, there
\* is no job.
SubscribedInv ==
    /\ status \in {"running", "blocked"} /\ socket \in {"up", "eof"} => extranonce1 = conn
    /\ status = "subscribing" => ~ Ready

\* The jobs on their way follow each other and the current job.
StreamInv ==
    /\ job.number <= poolJob
    /\ \A i \in 1 .. Len(stream) :
        stream[i].kind \in Notifications =>
            /\ job.number < stream[i].number
            /\ stream[i].number <= poolJob
            /\ \A j \in 1 .. i - 1 :
                stream[j].kind \in Notifications => stream[j].number < stream[i].number

LinkInv ==
    /\ TypeOK
    /\ SubscribedInv
    /\ StreamInv
    /\ JobOfThisConnection
===============================================================================

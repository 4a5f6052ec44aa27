---------------------------- MODULE PoolLinkProofs ----------------------------
(***************************************************************************)
(* The current job belongs to the connection in use and never goes back, for *)
(* any number of connections, jobs and messages, however they are cut.       *)
(***************************************************************************)
EXTENDS PoolLink, SequenceTheorems, TLAPS

USE PoolLinkAssumption

LEMMA NoJobIsJob == NoJob \in Jobs /\ NoJob.number = 0
<1>1. 0 \in 0 .. MaxConns /\ 0 \in 0 .. MaxJobs
  OBVIOUS
<1> QED BY <1>1 DEF NoJob, Jobs

LEMMA InitLinkInv == Init => LinkInv
<1> SUFFICES ASSUME Init PROVE LinkInv
  OBVIOUS
<1> USE DEF Init
<1>1. TypeOK
  <2>1. 0 \in 0 .. MaxConns /\ 0 \in 0 .. MaxJobs /\ 0 \in 0 .. 0 /\ 0 <= MaxStream
    OBVIOUS
  <2>2. stream \in Seq(Messages) /\ Len(stream) = 0
    BY EmptySeq
  <2>3. job \in Jobs /\ socket \in Sockets
    BY NoJobIsJob DEF Sockets
  <2> QED BY <2>1, <2>2, <2>3 DEF TypeOK
<1>2. StreamInv
  <2>1. 1 .. Len(stream) = {} /\ job.number <= poolJob
    BY NoJobIsJob
  <2> QED BY <2>1 DEF StreamInv
<1> QED BY <1>1, <1>2 DEF LinkInv, SubscribedInv, JobOfThisConnection, Ready

LEMMA RestIsMessage == Rest \in Messages /\ Rest.kind \notin Notifications
BY DEF Rest, Messages, Notifications

\* What a recv leaves: the messages after the first k, or Rest for the one cut.
LEMMA ReceivedLeaves ==
    ASSUME TypeOK, NEW k \in Nat, NEW cut \in {0, 1}, Receives(k, cut), Received(k, cut)
    PROVE  /\ stream' \in Seq(Messages)
           /\ Len(stream') = Len(stream) - k
           /\ \A i \in 1 .. Len(stream') : stream'[i] = Rest \/ stream'[i] = stream[k + i]
<1>1. /\ stream \in Seq(Messages) /\ Len(stream) \in Nat /\ k + cut <= Len(stream)
      /\ \A i \in 1 .. Len(stream) : stream[i] \in Messages
  BY LenProperties, ElementOfSeq DEF TypeOK, Receives
<1>2. CASE cut = 0
  <2>1. \A i \in k + 1 .. Len(stream) : stream[i] \in Messages
    BY <1>1
  <2>2. stream' = SubSeq(stream, k + 1, Len(stream))
    BY <1>2 DEF Received
  <2>3. /\ stream' \in Seq(Messages)
        /\ Len(stream') = IF k + 1 <= Len(stream) THEN Len(stream) - (k + 1) + 1 ELSE 0
        /\ \A i \in 1 .. Len(stream) - (k + 1) + 1 : stream'[i] = stream[(k + 1) + i - 1]
    BY <1>1, <2>1, <2>2, SubSeqProperties
  <2>4. Len(stream') = Len(stream) - k
    BY <1>1, <1>2, <2>3
  <2>5. ASSUME NEW i \in 1 .. Len(stream')
        PROVE  stream'[i] = stream[k + i]
    <3>1. i \in 1 .. Len(stream) - (k + 1) + 1 /\ (k + 1) + i - 1 = k + i
      BY <1>1, <2>4
    <3> QED BY <2>3, <3>1
  <2> QED BY <2>3, <2>4, <2>5
<1>3. CASE cut = 1
  <2> DEFINE after == SubSeq(stream, k + 2, Len(stream))
  <2>1. /\ after \in Seq(Messages)
        /\ Len(after) = Len(stream) - k - 1
        /\ \A i \in 1 .. Len(stream) - k - 1 : after[i] = stream[k + 2 + i - 1]
    <3>1. \A i \in k + 2 .. Len(stream) : stream[i] \in Messages
      BY <1>1
    <3> QED BY <1>1, <1>3, <3>1, SubSeqProperties
  <2> HIDE DEF after
  <2>2. stream' = <<Rest>> \o after
    BY <1>3 DEF Received, after
  <2>3. <<Rest>> \in Seq(Messages) /\ Len(<<Rest>>) = 1 /\ <<Rest>>[1] = Rest
    BY RestIsMessage
  <2>4. /\ stream' \in Seq(Messages)
        /\ Len(stream') = 1 + Len(after)
        /\ \A i \in 1 .. 1 + Len(after) :
            stream'[i] = IF i <= 1 THEN <<Rest>>[i] ELSE after[i - 1]
    BY <2>1, <2>2, <2>3, ConcatProperties
  <2>5. Len(stream') = Len(stream) - k
    BY <1>1, <2>1, <2>4
  <2>6. ASSUME NEW i \in 1 .. Len(stream')
        PROVE  stream'[i] = Rest \/ stream'[i] = stream[k + i]
    <3>1. CASE i = 1
      BY <2>3, <2>4, <2>5, <3>1
    <3>2. CASE i > 1
      <4>1. i - 1 \in 1 .. Len(stream) - k - 1 /\ k + 2 + (i - 1) - 1 = k + i
        BY <1>1, <2>5, <3>2
      <4> QED BY SMTT(30), <1>1, <2>1, <2>3, <2>4, <2>5, <3>2, <4>1
    <3> QED BY <1>1, <2>5, <3>1, <3>2
  <2> QED BY <2>4, <2>5, <2>6
<1> QED BY <1>2, <1>3

\* The order of the jobs on their way does not depend on what is received.
LEMMA ReceivedKeepsOrder ==
    ASSUME TypeOK, StreamInv, NEW k \in Nat, NEW cut \in {0, 1},
           Receives(k, cut), Received(k, cut), UNCHANGED <<job, poolJob>>
    PROVE  StreamInv' /\ stream' \in Seq(Messages) /\ Len(stream') <= MaxStream
<1>1. /\ stream' \in Seq(Messages)
      /\ Len(stream') = Len(stream) - k
      /\ \A i \in 1 .. Len(stream') : stream'[i] = Rest \/ stream'[i] = stream[k + i]
  BY ReceivedLeaves
<1>2. Len(stream) \in Nat /\ Len(stream) <= MaxStream
  BY LenProperties DEF TypeOK
<1>3. ASSUME NEW i \in 1 .. Len(stream'), stream'[i].kind \in Notifications
      PROVE  stream'[i] = stream[k + i] /\ k + i \in 1 .. Len(stream)
  BY <1>1, <1>2, <1>3, RestIsMessage
<1>4. ASSUME NEW i \in 1 .. Len(stream'), stream'[i].kind \in Notifications,
             NEW j \in 1 .. i - 1, stream'[j].kind \in Notifications
      PROVE  stream'[j].number < stream'[i].number
  <2>1. j \in 1 .. Len(stream') /\ k + j \in 1 .. (k + i) - 1
    BY <1>1, <1>2
  <2> QED BY <1>3, <1>4, <2>1 DEF StreamInv
<1>5. StreamInv'
  <2>1. ASSUME NEW i \in 1 .. Len(stream'), stream'[i].kind \in Notifications
        PROVE  job.number < stream'[i].number /\ stream'[i].number <= poolJob
    BY <1>3, <2>1 DEF StreamInv
  <2> QED BY <1>4, <2>1 DEF StreamInv
<1> QED BY <1>1, <1>2, <1>5

\* A job taken from the head of the stream comes after the current one.
LEMMA UnderstoodIsNewer ==
    ASSUME LinkInv, NEW k \in Nat, NEW cut \in {0, 1}, Receives(k, cut), Understood(k, cut)
    PROVE  /\ k = 1 /\ cut = 0
           /\ 1 \in 1 .. Len(stream) /\ stream[1] \in Messages /\ stream[1].kind \in Notifications
           /\ stream[1].number \in 0 .. MaxJobs
           /\ job.number < stream[1].number /\ stream[1].number <= poolJob
<1>1. stream \in Seq(Messages) /\ Len(stream) \in Nat
  BY LenProperties DEF LinkInv, TypeOK
<1>2. 1 \in 1 .. Len(stream) /\ stream[1].kind \in Notifications /\ k = 1 /\ cut = 0
  BY <1>1 DEF Receives, Understood
<1>3. stream[1] \in Messages
  BY <1>1, <1>2, ElementOfSeq
<1> QED BY <1>2, <1>3 DEF LinkInv, StreamInv, Messages

\* PoolReads with a job taken.
LEMMA TakeJob ==
    ASSUME LinkInv, PoolReads, job' # job
    PROVE  /\ job'.number > job.number
           /\ job'.kind # "update"
           /\ LinkInv'
<1>1. PICK k \in 0 .. MaxStream, cut \in {0, 1} :
          /\ Receives(k, cut) /\ Received(k, cut)
          /\ Understood(k, cut)
          /\ cleanJobs' = FlagAfter(stream[1].kind) /\ cleanJobs'
          /\ job' = [conn |-> conn, kind |-> stream[1].kind, number |-> stream[1].number]
          /\ UNCHANGED status
  BY DEF PoolReads
<1>2. k \in Nat
  OBVIOUS
<1>3. /\ k = 1 /\ cut = 0
      /\ stream[1].kind \in Notifications
      /\ stream[1].number \in 0 .. MaxJobs
      /\ job.number < stream[1].number /\ stream[1].number <= poolJob
  BY <1>1, <1>2, UnderstoodIsNewer
<1>4. /\ stream' \in Seq(Messages) /\ Len(stream') = Len(stream) - 1
      /\ \A i \in 1 .. Len(stream') : stream'[i] = Rest \/ stream'[i] = stream[1 + i]
  BY <1>1, <1>3, ReceivedLeaves DEF LinkInv
<1>5. /\ socket \in {"up", "eof"} /\ status = "running"
      /\ UNCHANGED <<socket, conn, extranonce1, poolJob, lastSent, submitted>>
  BY DEF PoolReads, poolVars
<1>6. Len(stream) \in Nat /\ Len(stream) <= MaxStream
  BY LenProperties DEF LinkInv, TypeOK
<1>7. TypeOK'
  <2>1. job' \in Jobs /\ cleanJobs' \in BOOLEAN
    BY <1>1, <1>3 DEF LinkInv, TypeOK, Jobs
  <2>2. stream' \in Seq(Messages) /\ Len(stream') <= MaxStream
    BY <1>4, <1>6
  <2> QED BY <1>1, <1>5, <2>1, <2>2 DEF LinkInv, TypeOK
<1>8. StreamInv'
  <2>1. ASSUME NEW i \in 1 .. Len(stream'), stream'[i].kind \in Notifications
        PROVE  /\ stream'[i] = stream[1 + i] /\ 1 + i \in 1 .. Len(stream)
               /\ 1 \in 1 .. (1 + i) - 1
    BY <1>4, <1>6, <2>1, RestIsMessage
  <2>2. ASSUME NEW i \in 1 .. Len(stream'), stream'[i].kind \in Notifications
        PROVE  job'.number < stream'[i].number /\ stream'[i].number <= poolJob'
    BY <1>1, <1>3, <1>5, <2>1, <2>2 DEF LinkInv, StreamInv
  <2>3. ASSUME NEW i \in 1 .. Len(stream'), stream'[i].kind \in Notifications,
               NEW j \in 1 .. i - 1, stream'[j].kind \in Notifications
        PROVE  stream'[j].number < stream'[i].number
    <3>1. j \in 1 .. Len(stream') /\ 1 + j \in 1 .. (1 + i) - 1
      BY <1>4, <1>6
    <3> QED BY <2>1, <2>3, <3>1 DEF LinkInv, StreamInv
  <2>4. job'.number <= poolJob'
    BY <1>1, <1>3, <1>5
  <2> QED BY <2>2, <2>3, <2>4 DEF StreamInv
<1>9. SubscribedInv' /\ JobOfThisConnection'
  BY <1>1, <1>5 DEF LinkInv, SubscribedInv, JobOfThisConnection
<1>10. job'.kind # "update"
  <2>1. FlagAfter("update") = FALSE
    BY DEF FlagAfter
  <2> QED BY <1>1, <2>1
<1> QED BY <1>1, <1>3, <1>7, <1>8, <1>9, <1>10 DEF LinkInv

\* A message the pool sends goes to the end of the stream.
LEMMA AppendKeepsOrder ==
    ASSUME LinkInv, NEW m \in Messages, NEW p \in poolJob .. MaxJobs,
           Len(stream) < MaxStream, stream' = Append(stream, m), poolJob' = p, job' = job,
           m.kind \in Notifications => m.number = p /\ p > poolJob
    PROVE  StreamInv' /\ stream' \in Seq(Messages) /\ Len(stream') <= MaxStream
<1>1. /\ stream \in Seq(Messages) /\ Len(stream) \in Nat /\ poolJob \in Nat /\ job.number \in Nat
      /\ \A i \in 1 .. Len(stream) : stream[i] \in Messages
  BY LenProperties, ElementOfSeq DEF LinkInv, TypeOK, Jobs
<1>2. /\ stream' \in Seq(Messages) /\ Len(stream') = Len(stream) + 1
      /\ \A i \in 1 .. Len(stream) : stream'[i] = stream[i]
      /\ stream'[Len(stream) + 1] = m
  BY <1>1
<1>3. \A i \in 1 .. Len(stream') : i \in 1 .. Len(stream) \/ i = Len(stream) + 1
  BY <1>1, <1>2
<1>4. \A i \in 1 .. Len(stream) : stream[i].kind \in Notifications =>
          stream[i].number \in Nat /\ stream[i].number <= poolJob
  BY <1>1 DEF LinkInv, StreamInv, Messages
<1>5. ASSUME NEW i \in 1 .. Len(stream'), stream'[i].kind \in Notifications
      PROVE  job.number < stream'[i].number /\ stream'[i].number <= p
  <2>1. CASE i \in 1 .. Len(stream)
    BY <1>1, <1>2, <1>4, <1>5, <2>1 DEF LinkInv, StreamInv
  <2>2. CASE i = Len(stream) + 1
    BY <1>1, <1>2, <1>5, <2>2 DEF LinkInv, StreamInv
  <2> QED BY <1>3, <2>1, <2>2
<1>6. ASSUME NEW i \in 1 .. Len(stream'), stream'[i].kind \in Notifications,
             NEW j \in 1 .. i - 1, stream'[j].kind \in Notifications
      PROVE  stream'[j].number < stream'[i].number
  <2>1. j \in 1 .. Len(stream) /\ stream'[j] = stream[j]
    BY <1>1, <1>2
  <2>2. CASE i \in 1 .. Len(stream)
    BY <1>2, <1>6, <2>1, <2>2 DEF LinkInv, StreamInv
  <2>3. CASE i = Len(stream) + 1
    BY <1>1, <1>2, <1>4, <1>6, <2>1, <2>3
  <2> QED BY <1>3, <2>2, <2>3
<1> QED BY SMTT(30), <1>1, <1>2, <1>5, <1>6 DEF LinkInv, StreamInv

\* A new connection, or none: there is no job and no message.
LEMMA ClearedLinkInv ==
    ASSUME LinkInv, Clear, poolJob' = poolJob, stream' = <<>>
    PROVE  /\ StreamInv' /\ stream' \in Seq(Messages) /\ Len(stream') <= MaxStream
           /\ job' \in Jobs /\ cleanJobs' \in BOOLEAN /\ ~ Ready' /\ extranonce1' = 0
<1>1. job'.number = 0 /\ poolJob' \in 0 .. MaxJobs
  BY NoJobIsJob DEF Clear, LinkInv, TypeOK
<1>2. StreamInv' /\ stream' \in Seq(Messages) /\ Len(stream') <= MaxStream
  BY <1>1, EmptySeq DEF StreamInv
<1> QED BY <1>2, NoJobIsJob DEF Clear, Ready

\* What the answer to mining.subscribe leaves: at most one message.
LEMMA AnswerKeepsOrder ==
    ASSUME LinkInv, job' = job, poolJob' \in poolJob .. MaxJobs,
           \/ stream' = <<>>
           \/ stream' = <<Rest>>
           \/ stream' = <<Notify("clean", poolJob')>> /\ poolJob' > poolJob
    PROVE  StreamInv' /\ stream' \in Seq(Messages) /\ Len(stream') <= MaxStream
<1>1. job.number <= poolJob /\ poolJob' \in 0 .. MaxJobs /\ poolJob \in Nat /\ job.number \in Nat
  BY DEF LinkInv, StreamInv, TypeOK, Jobs
<1>2. CASE stream' = <<>>
  BY <1>1, <1>2, EmptySeq DEF StreamInv
<1>3. CASE stream' = <<Rest>>
  <2>1. stream' \in Seq(Messages) /\ Len(stream') = 1 /\ stream'[1] = Rest
    BY <1>3, RestIsMessage
  <2> QED BY <1>1, <2>1, RestIsMessage DEF StreamInv
<1>4. CASE stream' = <<Notify("clean", poolJob')>> /\ poolJob' > poolJob
  <2>1. Notify("clean", poolJob') \in Messages /\ Notify("clean", poolJob').number = poolJob'
    BY <1>1 DEF Notify, Messages, Notifications
  <2>2. stream' \in Seq(Messages) /\ Len(stream') = 1 /\ stream'[1] = Notify("clean", poolJob')
    BY <1>4, <2>1
  <2> QED BY <1>1, <1>4, <2>1, <2>2 DEF StreamInv
<1> QED BY <1>2, <1>3, <1>4

LEMMA NextLinkInv == LinkInv /\ [Next]_vars => LinkInv'
<1> SUFFICES ASSUME LinkInv, [Next]_vars PROVE LinkInv'
  OBVIOUS
<1>0. poolJob \in Nat /\ poolJob \in 0 .. MaxJobs /\ lastSent \in 0 .. poolJob
  BY DEF LinkInv, TypeOK
<1>1. CASE PoolReads
  <2>1. CASE job' # job
    BY <1>1, <2>1, TakeJob
  <2>2. CASE job' = job
    <3>1. PICK k \in 0 .. MaxStream, cut \in {0, 1} : Receives(k, cut) /\ Received(k, cut)
      BY <1>1 DEF PoolReads
    <3>2. /\ status = "running"
          /\ UNCHANGED <<socket, conn, extranonce1, job, poolJob, lastSent, submitted>>
      BY <1>1, <2>2 DEF PoolReads, poolVars
    <3>3. status' \in {"running", "exited"} /\ cleanJobs' \in BOOLEAN
      <4>1. /\ cleanJobs' = cleanJobs \/ \E kind \in Notifications : cleanJobs' = FlagAfter(kind)
            /\ status' = status \/ status' = "exited"
        BY <1>1 DEF PoolReads, Understood
      <4>2. cleanJobs \in BOOLEAN
        BY DEF LinkInv, TypeOK
      <4>3. \A kind \in Notifications : FlagAfter(kind) \in BOOLEAN
        BY <4>2 DEF FlagAfter, Notifications
      <4> QED BY <3>2, <4>1, <4>2, <4>3
    <3>4. StreamInv' /\ stream' \in Seq(Messages) /\ Len(stream') <= MaxStream
      BY <3>1, <3>2, ReceivedKeepsOrder DEF LinkInv
    <3> QED BY <3>2, <3>3, <3>4 DEF LinkInv, TypeOK, SubscribedInv, JobOfThisConnection, Ready
  <2> QED BY <2>1, <2>2
<1>2. CASE UNCHANGED vars \/ PoolReadsNothing
  BY <1>2 DEF PoolReadsNothing, vars, poolVars, LinkInv, TypeOK, SubscribedInv, StreamInv,
     JobOfThisConnection, Ready
<1>3. CASE PoolReadFails \/ SubscribeFails
  BY <1>3 DEF PoolReadFails, SubscribeFails, poolVars, LinkInv, TypeOK, SubscribedInv, StreamInv,
     JobOfThisConnection, Ready
<1>4. CASE ReconnectNoHost \/ ReconnectFails
  <2>1. /\ Clear /\ stream' = <<>> /\ status = "running"
        /\ socket' \in Sockets \ {"up", "eof"}
        /\ UNCHANGED <<status, conn, poolJob, lastSent, submitted>>
    BY <1>4 DEF ReconnectNoHost, ReconnectFails, POOL_Connected, poolVars, Sockets, LinkInv, TypeOK
  <2>2. /\ StreamInv' /\ stream' \in Seq(Messages) /\ Len(stream') <= MaxStream
        /\ job' \in Jobs /\ cleanJobs' \in BOOLEAN /\ ~ Ready' /\ extranonce1' = 0
    BY <2>1, ClearedLinkInv
  <2> QED BY <2>1, <2>2 DEF LinkInv, TypeOK, SubscribedInv, JobOfThisConnection
<1>5. CASE Reconnect
  <2>1. /\ Clear /\ stream' = <<>> /\ status' = "subscribing" /\ socket' = "up"
        /\ conn' \in 0 .. MaxConns /\ lastSent' = 0
        /\ UNCHANGED <<poolJob, submitted>>
    BY <1>5 DEF Reconnect, LinkInv, TypeOK
  <2>2. /\ StreamInv' /\ stream' \in Seq(Messages) /\ Len(stream') <= MaxStream
        /\ job' \in Jobs /\ cleanJobs' \in BOOLEAN /\ ~ Ready' /\ extranonce1' = 0
    BY <2>1, ClearedLinkInv
  <2> QED BY <1>0, <2>1, <2>2 DEF LinkInv, TypeOK, Sockets, SubscribedInv, JobOfThisConnection
<1>6. CASE Subscribed
  <2>1. /\ status = "subscribing" /\ status' = "running" /\ extranonce1' = conn
        /\ UNCHANGED <<socket, conn, cleanJobs, job, submitted>>
    BY <1>6 DEF Subscribed
  <2>2. /\ poolJob' \in poolJob .. MaxJobs /\ lastSent' \in 0 .. poolJob'
        /\ StreamInv' /\ stream' \in Seq(Messages) /\ Len(stream') <= MaxStream
    <3>1. CASE UNCHANGED <<stream, poolVars>>
      BY <1>0, <2>1, <3>1 DEF poolVars, LinkInv, TypeOK, StreamInv
    <3>2. CASE ~ UNCHANGED <<stream, poolVars>>
      <4>1. /\ poolJob' = poolJob + 1 /\ poolJob < MaxJobs /\ lastSent' = poolJob'
            /\ stream' \in {<<>>, <<Rest>>, <<Notify("clean", poolJob')>>}
        BY <1>6, <3>2 DEF Subscribed
      <4>2. poolJob' \in poolJob .. MaxJobs /\ poolJob' > poolJob /\ lastSent' \in 0 .. poolJob'
        BY <1>0, <4>1
      <4> QED BY <2>1, <4>1, <4>2, AnswerKeepsOrder
    <3> QED BY <3>1, <3>2
  <2>3. ~ Ready /\ ~ Ready'
    BY <2>1 DEF LinkInv, SubscribedInv, Ready
  <2>4. poolJob' \in 0 .. MaxJobs
    BY <1>0, <2>2
  <2> QED BY <2>1, <2>2, <2>3, <2>4 DEF LinkInv, TypeOK, SubscribedInv, JobOfThisConnection
<1>7. CASE Found \/ FoundAfterClose
  BY <1>7 DEF Found, FoundAfterClose, poolVars, LinkInv, TypeOK, Sockets, SubscribedInv,
     StreamInv, JobOfThisConnection, Ready
<1>8. CASE ResponseArrives
  <2>1. /\ status = "blocked" /\ status' \in {"running", "crashed"}
        /\ UNCHANGED <<socket, conn, extranonce1, cleanJobs, job, poolJob, lastSent, submitted>>
    BY <1>8 DEF ResponseArrives, poolVars
  <2>2. StreamInv' /\ stream' \in Seq(Messages) /\ Len(stream') <= MaxStream
    <3>1. CASE UNCHANGED stream
      BY <2>1, <3>1 DEF LinkInv, TypeOK, StreamInv
    <3>2. CASE \E k \in 0 .. MaxStream, cut \in {0, 1} : Receives(k, cut) /\ Received(k, cut)
      BY <2>1, <3>2, ReceivedKeepsOrder DEF LinkInv
    <3> QED BY <1>8, <3>1, <3>2 DEF ResponseArrives
  <2> QED BY <2>1, <2>2 DEF LinkInv, TypeOK, SubscribedInv, JobOfThisConnection, Ready
<1>9. CASE PoolNotifies
  <2>1. PICK kind \in Notifications :
          /\ stream' = Append(stream, Notify(kind, poolJob + 1))
          /\ lastSent' = IF kind = "clean" THEN poolJob + 1 ELSE lastSent
    BY <1>9 DEF PoolNotifies
  <2>2. /\ Len(stream) < MaxStream /\ poolJob' = poolJob + 1
        /\ poolJob' \in poolJob .. MaxJobs /\ poolJob' > poolJob
        /\ stream' = Append(stream, Notify(kind, poolJob'))
        /\ UNCHANGED <<status, socket, conn, extranonce1, cleanJobs, job, submitted>>
    BY <1>0, <1>9, <2>1 DEF PoolNotifies
  <2>3. Notify(kind, poolJob') \in Messages /\ Notify(kind, poolJob').number = poolJob'
    BY <1>0, <2>2 DEF Notify, Messages
  <2>4. StreamInv' /\ stream' \in Seq(Messages) /\ Len(stream') <= MaxStream
    BY <2>2, <2>3, AppendKeepsOrder
  <2>5. poolJob' \in 0 .. MaxJobs /\ lastSent' \in 0 .. poolJob'
    BY <1>0, <2>1, <2>2
  <2> QED BY <2>2, <2>4, <2>5 DEF LinkInv, TypeOK, SubscribedInv, JobOfThisConnection, Ready
<1>10. CASE PoolSendsOther
  <2>1. /\ Len(stream) < MaxStream /\ stream' = Append(stream, Other)
        /\ UNCHANGED <<status, socket, conn, extranonce1, cleanJobs, job, poolJob, lastSent, submitted>>
    BY <1>10 DEF PoolSendsOther, poolVars
  <2>2. Other \in Messages /\ Other.kind \notin Notifications /\ poolJob' \in poolJob .. MaxJobs
    BY <1>0, <2>1 DEF Other, Messages, Notifications
  <2>3. StreamInv' /\ stream' \in Seq(Messages) /\ Len(stream') <= MaxStream
    BY <2>1, <2>2, AppendKeepsOrder
  <2> QED BY <2>1, <2>3 DEF LinkInv, TypeOK, SubscribedInv, JobOfThisConnection, Ready
<1>11. CASE PoolCloses
  <2>1. /\ socket = "up" /\ socket' \in {"eof", "reset"}
        /\ UNCHANGED <<status, conn, extranonce1, cleanJobs, job, poolJob, lastSent, submitted>>
    BY <1>11 DEF PoolCloses, poolVars
  <2>2. StreamInv' /\ stream' \in Seq(Messages) /\ Len(stream') <= MaxStream
    <3>1. CASE UNCHANGED stream
      BY <2>1, <3>1 DEF LinkInv, TypeOK, StreamInv
    <3>2. CASE stream' = <<>>
      BY <2>1, <3>2, EmptySeq DEF LinkInv, StreamInv
    <3> QED BY <1>11, <3>1, <3>2 DEF PoolCloses
  <2> QED BY <2>1, <2>2 DEF LinkInv, TypeOK, Sockets, SubscribedInv, JobOfThisConnection, Ready
<1> QED BY <1>1, <1>2, <1>3, <1>4, <1>5, <1>6, <1>7, <1>8, <1>9, <1>10, <1>11
     DEF Next, PoolBlock

\* A step either clears the job, takes a newer one from the head of the stream
\* or leaves it alone.
LEMMA StepMovesForward ==
    ASSUME LinkInv, Next, job' # job
    PROVE  job' = NoJob \/ (job'.number > job.number /\ job'.kind # "update")
<1>1. CASE PoolReads
  BY <1>1, TakeJob
<1>2. CASE ~ PoolReads
  BY <1>2 DEF Next, PoolBlock, PoolReadsNothing, vars, PoolReadFails, ReconnectNoHost,
     ReconnectFails, Reconnect, Subscribed, SubscribeFails, Clear, Found, FoundAfterClose,
     ResponseArrives, PoolNotifies, PoolSendsOther, PoolCloses
<1> QED BY <1>1, <1>2

-------------------------------------------------------------------------------
\* Whatever is lost, cut or reset, and however long the pool lets the server
\* wait: the server reads data only where it is subscribed, has no job before,
\* and the jobs on their way come after the one it has.
THEOREM LinkInvariance == Spec => []LinkInv
BY InitLinkInv, NextLinkInv, PTL DEF Spec

\* The job handed to miners and the extranonce1 sent with it are of the
\* connection in use: CServer::Tick never mixes two.
THEOREM JobIsOfThisConnection == Spec => []JobOfThisConnection
<1>1. LinkInv => JobOfThisConnection
  BY DEF LinkInv
<1> QED BY <1>1, LinkInvariance, PTL

\* The current job is only ever cleared, or replaced by a later job of the pool
\* that was not sent as an update.
THEOREM JobsOnlyMoveForward == Spec => JobsMoveForward
<1>1. LinkInv /\ [Next]_vars =>
          [job' # job => \/ job' = NoJob
                         \/ job'.number > job.number /\ job'.kind # "update"]_vars
  BY StepMovesForward
<1> QED BY LinkInvariance, <1>1, PTL DEF Spec, JobsMoveForward
==============================================================================

------------------------------ MODULE MinerSession ------------------------------
(***************************************************************************)
(* One miner and its session on the server: the messages of hashnet.cpp, the *)
(* framing of CClient::Tick, and the exchange of work against "completed".   *)
(*                                                                         *)
(* TCP carries tokens in order and cuts them anywhere.  A token is the text   *)
(* of one message ("stats", "found", "completed"), a carriage return or a     *)
(* line feed.  "stats" and "completed" end in "\r\n"; "found" does not, and   *)
(* "completed" always follows it.                                           *)
(*                                                                         *)
(* Time is not counted: a session grows too old only while nothing comes      *)
(* from its miner, or while the server does not look.  A miner that hashes    *)
(* sends "stats" every STATS_INTERVAL, one second, and SESSION_TIMEOUT is     *)
(* fifteen; but the server is one thread and stands still while it waits for  *)
(* the pool (module Sessions).                                              *)
(***************************************************************************)
EXTENDS Integers, Sequences, SequencesExt, FiniteSetsExt

CONSTANTS
    MaxBuffer,  \* CLIENT_MAX_BUFFER, in tokens: the limit of m_strBuffer and of one recv
    MaxSent     \* bound: tokens the miner sends

\* The longest line that can wait for its end is three tokens, "found",
\* "completed" and a carriage return: some hundred bytes of the 2048.
ASSUME MinerSessionAssumption == MaxBuffer \in Nat /\ MaxBuffer >= 3 /\ MaxSent \in Nat

VARIABLES
    miner,      \* "waiting" in receive_data, "hashing", "found" before its "completed", or "gone"
    work,       \* a "work" message is on its way to the miner
    wire,       \* tokens on their way to the server
    session,    \* "live", or "closed" with m_Socket = -1
    buffer,     \* CClient::m_strBuffer
    commands,   \* CClient::m_vCommands, lines without their end
    busy,       \* CClient::m_strExtranonce2 is not empty
    late,       \* m_iLastHB is SESSION_TIMEOUT old
    stalled,    \* the server sits in POOL_Receive, on account of the pool or of another session
    sent,       \* history: all tokens sent
    handled     \* history: all lines the server has handled

minerVars == <<miner, work, wire, sent>>
sessionVars == <<session, buffer, commands, busy, late, handled>>
vars == <<minerVars, sessionVars, stalled>>

Texts == {"stats", "found", "completed"}
Tokens == Texts \cup {"\r", "\n"}

\* The while loop of CClient::Tick: the lines of b and what remains after them.
LineEnds(b) == {i \in 1 .. Len(b) - 1 : b[i] = "\r" /\ b[i + 1] = "\n"}

\* The k-th line of b begins behind the end of the line before it.
LineEnd(b, k) ==
    CHOOSE i \in LineEnds(b) : Cardinality({j \in LineEnds(b) : j < i}) = k - 1
LineStart(b, k) == IF k = 1 THEN 1 ELSE LineEnd(b, k - 1) + 2

\* Mutant: a line keeps its carriage return.
LinesWithReturn(b) ==
    [k \in 1 .. Cardinality(LineEnds(b)) |-> SubSeq(b, LineStart(b, k), LineEnd(b, k))]

Lines(b) ==
    [k \in 1 .. Cardinality(LineEnds(b)) |-> SubSeq(b, LineStart(b, k), LineEnd(b, k) - 1)]

\* Mutant: "+2" is "+1", the line feed stays.
RemainderWithFeed(b) ==
    IF LineEnds(b) = {} THEN b ELSE SubSeq(b, Max(LineEnds(b)) + 1, Len(b))

Remainder(b) ==
    IF LineEnds(b) = {} THEN b ELSE SubSeq(b, Max(LineEnds(b)) + 2, Len(b))

TypeOK ==
    /\ miner \in {"waiting", "hashing", "found", "gone"}
    /\ work \in BOOLEAN
    /\ wire \in Seq(Tokens)
    /\ session \in {"live", "closed"}
    /\ buffer \in Seq(Tokens) /\ Len(buffer) <= 2 * MaxBuffer
    /\ commands \in Seq(Seq(Texts))
    /\ busy \in BOOLEAN
    /\ late \in BOOLEAN
    /\ stalled \in BOOLEAN
    /\ sent \in Seq(Tokens)
    /\ handled \in Seq(Seq(Texts))

Init ==
    /\ miner = "waiting"
    /\ work = FALSE
    /\ wire = <<>>
    /\ session = "live"
    /\ buffer = <<>>
    /\ commands = <<>>
    /\ busy = FALSE
    /\ late = FALSE
    /\ stalled = FALSE
    /\ sent = <<>>
    /\ handled = <<>>

-------------------------------------------------------------------------------
(***************************************************************************)
(* The miner.                                                              *)
(***************************************************************************)

Send(tokens) ==
    /\ Len(sent) + Len(tokens) <= MaxSent
    /\ wire' = wire \o tokens
    /\ sent' = sent \o tokens

\* receive_data returns what one recv finds.  When that is the whole "work"
\* message the search begins; a part of it is no message and is passed over.
ReceiveWork ==
    /\ miner = "waiting"
    /\ work
    /\ work' = FALSE
    /\ miner' \in {"hashing", "waiting"}
    /\ UNCHANGED <<wire, sent, sessionVars, stalled>>

SendStats ==
    /\ miner = "hashing"
    /\ Send(<<"stats", "\r", "\n">>)
    /\ UNCHANGED <<miner, work, sessionVars, stalled>>

SendFound ==
    /\ miner = "hashing"
    /\ Send(<<"found">>)
    /\ miner' = "found"
    /\ UNCHANGED <<work, sessionVars, stalled>>

SendCompleted ==
    /\ miner \in {"hashing", "found"}
    /\ Send(<<"completed", "\r", "\n">>)
    /\ miner' = "waiting"
    /\ UNCHANGED <<work, sessionVars, stalled>>

\* The miner is stopped or loses its connection; what it sent may be lost.
Leave ==
    /\ miner # "gone"
    /\ miner' = "gone"
    /\ work' = FALSE
    /\ wire' \in {wire, <<>>}
    /\ UNCHANGED <<sent, sessionVars, stalled>>

-------------------------------------------------------------------------------
(***************************************************************************)
(* The server.                                                             *)
(***************************************************************************)

\* Mutants: "if" in place of "while", one line is taken; the limit is tested
\* with the data appended.
TickReadsOneLine ==
    /\ ~ stalled
    /\ ~ late
    /\ session = "live"
    /\ commands = <<>>
    /\ \E n \in 1 .. Len(wire) :
        /\ n <= MaxBuffer
        /\ wire' = SubSeq(wire, n + 1, Len(wire))
        /\ LET data == buffer \o SubSeq(wire, 1, n) IN
           IF LineEnds(data) = {}
           THEN buffer' = data /\ UNCHANGED commands
           ELSE /\ commands' = <<Lines(data)[1]>>
                /\ buffer' = SubSeq(data, Min(LineEnds(data)) + 2, Len(data))
    /\ UNCHANGED <<miner, work, sent, session, busy, late, handled, stalled>>

TickReadsLimitLate ==
    /\ ~ stalled
    /\ ~ late
    /\ session = "live"
    /\ commands = <<>>
    /\ \E n \in 1 .. Len(wire) :
        LET data == buffer \o SubSeq(wire, 1, n) IN
        /\ n <= MaxBuffer
        /\ wire' = SubSeq(wire, n + 1, Len(wire))
        /\ IF Len(data) > MaxBuffer
           THEN session' = "closed" /\ UNCHANGED <<buffer, commands>>
           ELSE commands' = Lines(data) /\ buffer' = Remainder(data) /\ UNCHANGED session
    /\ UNCHANGED <<miner, work, sent, busy, late, handled, stalled>>

\* CClient::Tick with data to read: n tokens.  The limit is tested before the
\* data is appended; a buffer that is too long ends the session.
TickReads ==
    /\ ~ stalled
    /\ ~ late
    /\ session = "live"
    /\ commands = <<>>
    /\ \E n \in 1 .. Len(wire) :
        /\ n <= MaxBuffer
        /\ wire' = SubSeq(wire, n + 1, Len(wire))
        /\ IF Len(buffer) > MaxBuffer
           THEN /\ session' = "closed"
                /\ UNCHANGED <<buffer, commands>>
           ELSE LET data == buffer \o SubSeq(wire, 1, n) IN
                /\ commands' = Lines(data)
                /\ buffer' = Remainder(data)
                /\ UNCHANGED session
    /\ UNCHANGED <<miner, work, sent, busy, late, handled, stalled>>

\* CClient::Tick finds the end of the stream, or an error.
TickLosesPeer ==
    /\ ~ stalled
    /\ ~ late
    /\ session = "live"
    /\ commands = <<>>
    /\ miner = "gone" /\ wire = <<>>
    /\ session' = "closed"
    /\ UNCHANGED <<minerVars, buffer, commands, busy, late, handled, stalled>>

\* A line that is not one message is a parse error.
Misread(line) == Len(line) # 1

\* Mutant: every command frees the session.
HandleCommandsFreeing ==
    /\ ~ stalled
    /\ commands # <<>>
    /\ handled' = handled \o commands
    /\ commands' = <<>>
    /\ busy' = FALSE
    /\ session' = IF \E i \in DOMAIN commands : Misread(commands[i]) THEN "closed" ELSE session
    /\ late' = FALSE
    /\ UNCHANGED <<minerVars, buffer, stalled>>

\* "Handle miners logic" for this session: every command in turn; a parse
\* error throttles the address, which closes the session.  Pong.
HandleCommands ==
    /\ ~ stalled
    /\ commands # <<>>
    /\ handled' = handled \o commands
    /\ commands' = <<>>
    /\ busy' = (busy /\ \A i \in DOMAIN commands : commands[i] # <<"completed">>)
    /\ session' = IF \E i \in DOMAIN commands : Misread(commands[i]) THEN "closed" ELSE session
    /\ late' = FALSE
    /\ UNCHANGED <<minerVars, buffer, stalled>>

\* The distribution block, when the pool has given the server a job.
HandOut ==
    /\ ~ stalled
    /\ session = "live"
    /\ commands = <<>>
    /\ ~ busy
    /\ busy' = TRUE
    /\ work' = (miner # "gone")
    /\ UNCHANGED <<miner, wire, sent, session, buffer, commands, late, handled, stalled>>

\* Mutant: a session with a chunk is not timed out.
TimeoutIdleOnly ==
    /\ ~ stalled
    /\ session = "live"
    /\ commands = <<>>
    /\ late
    /\ ~ busy
    /\ session' = "closed"
    /\ UNCHANGED <<minerVars, buffer, commands, busy, late, handled, stalled>>

\* The timeout sweep, with which Tick begins: what has arrived in the meantime
\* is not looked at.
Timeout ==
    /\ ~ stalled
    /\ session = "live"
    /\ commands = <<>>
    /\ late
    /\ session' = "closed"
    /\ UNCHANGED <<minerVars, buffer, commands, busy, late, handled, stalled>>

\* The server subscribes, or submits a block another miner has found, and
\* waits for the pool's answer, as long as it takes.
PoolWaits ==
    /\ ~ stalled
    /\ stalled' = TRUE
    /\ UNCHANGED <<minerVars, sessionVars>>

PoolAnswers ==
    /\ stalled
    /\ stalled' = FALSE
    /\ UNCHANGED <<minerVars, sessionVars>>

-------------------------------------------------------------------------------
\* Nothing is coming from the miner.
Silent == miner \notin {"hashing", "found"} /\ wire = <<>> /\ commands = <<>>

\* The clock: SESSION_TIMEOUT passes without a command the server handles.
Second ==
    /\ ~ late
    /\ Silent \/ stalled
    /\ late' = TRUE
    /\ UNCHANGED <<minerVars, session, buffer, commands, busy, handled, stalled>>

Next ==
    \/ ReceiveWork \/ SendStats \/ SendFound \/ SendCompleted \/ Leave
    \/ TickReads \/ TickLosesPeer \/ HandleCommands \/ HandOut \/ Timeout
    \/ PoolWaits \/ PoolAnswers
    \/ Second

\* Whenever Tick runs it visits the session, and time passes.  Only waiting for
\* the pool keeps Tick from running, and it waits a finite number of times in
\* one round, so what stays to be done for the session between the waits is
\* done: strong fairness.  Nothing makes the pool answer.
Spec == Init /\ [][Next]_vars
        /\ WF_vars(ReceiveWork)
        /\ SF_vars(TickReads) /\ SF_vars(TickLosesPeer) /\ SF_vars(HandleCommands)
        /\ SF_vars(Timeout)
        /\ WF_vars(Second)

-------------------------------------------------------------------------------
(***************************************************************************)
(* Properties.                                                             *)
(***************************************************************************)

\* However TCP cuts the stream, between "\r" and "\n" too, the server handles
\* the lines the miner sent, in order, each once; while the miner is there the
\* others are still under way or in the buffer.
LinesIntact ==
    LET received == handled \o commands IN
    /\ IsPrefix(received, Lines(sent))
    /\ miner # "gone" => received \o Lines(buffer \o wire) = Lines(sent)

\* No full line waits in the buffer for more data to arrive.
NothingHeldBack == LineEnds(buffer) = {}

\* The server hands out a chunk only to a miner that waits for one: it never
\* replaces the chunk of a miner at work.
WorkIsAwaited == work => miner = "waiting" /\ busy

\* A session is closed because its miner is gone, was not heard for
\* SESSION_TIMEOUT or was misread; a burst of messages never makes the buffer
\* too long.
ClosedForAReason ==
    [][session' # session =>
        miner = "gone" \/ late \/ \E i \in DOMAIN commands : Misread(commands[i])]_vars

\* A miner that waits for work starts to hash, or its session ends: when the
\* "work" message was cut and passed over, the timeout sets both sides free.
WaitIsOver == miner = "waiting" ~> (miner # "waiting" \/ session = "closed")

\* That holds if the pool never leaves the server waiting for good.
WaitingEnds == []<> ~ stalled => WaitIsOver

\* CClient.cpp:142: "we got a full message, grab it".  What is grabbed is one
\* message.
LineIsAMessage == \A i \in DOMAIN commands : ~ Misread(commands[i])

-------------------------------------------------------------------------------
(***************************************************************************)
(* The inductive invariant: what the miner sent is divided, at any moment,   *)
(* into the lines handled, the lines taken, the buffer, what is under way    *)
(* and what was lost.                                                      *)
(***************************************************************************)

\* The tokens that may follow t in the miner's stream.
Follows(t) == CASE t \in {"stats", "completed"} -> {"\r"}
                [] t = "found" -> {"completed"}
                [] t = "\r" -> {"\n"}
                [] t = "\n" -> Texts

SentInv ==
    /\ sent # <<>> => sent[1] \in Texts /\ sent[Len(sent)] \in {"found", "\n"}
    /\ \A i \in 1 .. Len(sent) - 1 : sent[i + 1] \in Follows(sent[i])
    /\ miner # "gone" => (miner = "found" <=> sent # <<>> /\ sent[Len(sent)] = "found")

\* A line begins behind position i of the stream.
Boundary(i) == i = 0 \/ sent[i] = "\n"

Handled(h) == Boundary(h) /\ handled = Lines(SubSeq(sent, 1, h))
Taken(h, p) == Boundary(p) /\ commands = Lines(SubSeq(sent, h + 1, p))
Buffered(p, m) == buffer = SubSeq(sent, p + 1, m)
UnderWay(m, q) == wire = SubSeq(sent, m + 1, q) /\ (miner # "gone" => q = Len(sent))

\* The answers to chunks the server has yet to handle: at most one, and none
\* before the miner at work has sent it.
Answers(h, q) == {i \in h + 1 .. q : sent[i] = "completed"}

ExchangeInv(h, q) ==
    /\ work => miner = "waiting"
    /\ work \/ miner \in {"hashing", "found"} => busy /\ Answers(h, q) = {}
    /\ Answers(h, q) # {} => busy
    /\ \A i, j \in Answers(h, q) : i = j

\* The positions h <= p <= m <= q divide the stream.
StreamInv ==
    \E h \in 0 .. Len(sent) :
      /\ Handled(h)
      /\ \E p \in h .. Len(sent) :
          /\ Taken(h, p)
          /\ \E m \in p .. Len(sent) :
              /\ Buffered(p, m)
              /\ \E q \in m .. Len(sent) : UnderWay(m, q) /\ ExchangeInv(h, q)

IndInv ==
    /\ TypeOK
    /\ NothingHeldBack
    /\ commands # <<>> => session = "live"
    /\ SentInv
    /\ StreamInv
===============================================================================

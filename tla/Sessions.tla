------------------------------- MODULE Sessions -------------------------------
(***************************************************************************)
(* The server's table of sessions, m_vpSessions: who is admitted, when a    *)
(* session is closed and when it leaves the table, and the descriptors of     *)
(* the process.  CServer::Tick is one thread that runs, in this order and     *)
(* forever, the timeout sweep, the sweep that reads every socket, the pool    *)
(* block (module PoolLink; here the descriptors it takes and the time it      *)
(* takes), the accept block and the handling of commands.  Peers and the      *)
(* clock act between any two of these phases.  Within a sweep the sessions do *)
(* not depend on each other's order, so a sweep is one step; a command is one *)
(* step, because two of them stop the thread: after subscribing, and after     *)
(* submitting a block that a miner has found, Tick sits in recv on the pool's  *)
(* socket, without a timeout, until the pool sends something.                 *)
(*                                                                         *)
(* The kernel's side is what the code can observe of it: the descriptors     *)
(* that are open, what recv finds when the code reads, and the queue of       *)
(* connections that wait for accept.  Descriptors 0 to 2 and the listening   *)
(* socket stay open and are left out.                                       *)
(***************************************************************************)
EXTENDS Integers, Sequences

CONSTANTS
    MaxSessions,    \* m_uiMaxSessions, 1024 in the code
    MaxFds,         \* the descriptors the process may have for sessions and pool
    NoFd,           \* -1
    IPs,            \* peer addresses
    LocalIP,        \* "127.0.0.1", which is never throttled
    SessionTimeout, \* SESSION_TIMEOUT, seconds
    MaxBatch,       \* bound: commands of one session in one Tick
    MaxBacklog      \* bound: connections that wait for accept

Slots == 1 .. MaxSessions
Fds == 1 .. MaxFds
NoSlot == 0

ASSUME SessionsAssumption ==
    /\ MaxSessions \in Nat
    /\ MaxFds \in Nat
    /\ NoFd \notin Fds
    /\ LocalIP \in IPs
    /\ SessionTimeout \in Nat \ {0}
    /\ MaxBatch \in Nat
    /\ MaxBacklog \in Nat

VARIABLES
    phase,      \* the phase of Tick that runs next, the recv that Tick sits in, or "stopped"
    table,      \* the slots whose session is in m_vpSessions
    socket,     \* CClient::m_Socket
    ip,         \* CClient::m_strIP
    silence,    \* seconds since m_iLastHB, counted up to SessionTimeout
    commands,   \* CClient::m_vCommands
    serving,    \* the session some of whose commands are handled and some not
    throttled,  \* m_mThrottleIP
    poolFd,     \* m_PoolSocket
    leaked,     \* descriptors m_PoolSocket held before
    open,       \* kernel: descriptors of the process
    backlog     \* kernel: how many connections wait for accept

commandVars == <<commands, serving>>
sessionVars == <<table, socket, ip, silence, commandVars>>
poolVars == <<poolFd, leaked>>
kernelVars == <<open, backlog>>
vars == <<phase, sessionVars, throttled, poolVars, kernelVars>>

Phases == {"timeout", "read", "pool", "subscribing", "accept", "commands", "submitting",
           "stopped"}

\* A bad command is not JSON or of an unknown method.
Command == {"good", "bad"}
Batches == UNION {[1 .. n -> Command] : n \in 0 .. MaxBatch}

TypeOK ==
    /\ phase \in Phases
    /\ table \subseteq Slots
    /\ socket \in [Slots -> Fds \cup {NoFd}]
    /\ ip \in [Slots -> IPs]
    /\ silence \in [Slots -> 0 .. SessionTimeout]
    /\ commands \in [Slots -> Seq(Command)]
    /\ serving \in Slots \cup {NoSlot}
    /\ throttled \subseteq IPs
    /\ poolFd \in Fds \cup {NoFd}
    /\ leaked \subseteq Fds
    /\ open \subseteq Fds
    /\ backlog \in 0 .. MaxBacklog

\* Mutant: a constructor without m_Socket = -1.
InitSocketZero ==
    /\ phase = "timeout"
    /\ table = {}
    /\ socket = [s \in Slots |-> 0]
    /\ ip = [s \in Slots |-> LocalIP]
    /\ silence = [s \in Slots |-> 0]
    /\ commands = [s \in Slots |-> <<>>]
    /\ serving = NoSlot
    /\ throttled = {}
    /\ poolFd = NoFd
    /\ leaked = {}
    /\ open = {}
    /\ backlog = 0

\* m_PoolSocket is 0 in the global _Server, standard input, which getsockopt
\* refuses: no connection.
Init ==
    /\ phase = "timeout"
    /\ table = {}
    /\ socket = [s \in Slots |-> NoFd]
    /\ ip = [s \in Slots |-> LocalIP]
    /\ silence = [s \in Slots |-> 0]
    /\ commands = [s \in Slots |-> <<>>]
    /\ serving = NoSlot
    /\ throttled = {}
    /\ poolFd = NoFd
    /\ leaked = {}
    /\ open = {}
    /\ backlog = 0

-------------------------------------------------------------------------------
\* Mutant: the socket is forgotten but not closed.
DisconnectWithoutClose(closing) ==
    /\ socket' = [s \in Slots |-> IF s \in closing THEN NoFd ELSE socket[s]]
    /\ UNCHANGED open

\* DisconnectMiner, CClient::Disconnect: close the socket and forget it.
Disconnect(closing) ==
    /\ socket' = [s \in Slots |-> IF s \in closing THEN NoFd ELSE socket[s]]
    /\ open' = open \ {socket[s] : s \in closing}

\* erase and delete: the sessions leave the table, their objects are gone.
Erase(gone) ==
    /\ table' = table \ gone
    /\ ip' = [s \in Slots |-> IF s \in gone THEN LocalIP ELSE ip[s]]
    /\ silence' = [s \in Slots |-> IF s \in gone THEN 0 ELSE silence[s]]

\* socket and accept return the lowest descriptor that is free.
LowestFree(f) == f \in Fds \ open /\ \A g \in Fds \ open : f <= g

\* Mutant: DisconnectIP does not compare the address.
FromAnywhere(addresses) == {s \in table : addresses # {}}

\* The sessions in the table that come from one of the addresses.
From(addresses) == {s \in table : ip[s] \in addresses}

\* "Check for Session Timeout": old sessions are closed, erased and deleted.
TimeoutSweep ==
    LET old == {s \in table : silence[s] >= SessionTimeout} IN
    /\ phase = "timeout"
    /\ Disconnect(old)
    /\ Erase(old)
    /\ phase' = "read"
    /\ UNCHANGED <<commandVars, throttled, poolVars, backlog>>

\* Mutant: CClient::Tick succeeds on a closed session.
ReadSweepClosedKept ==
    \E lost \in SUBSET table :
        LET kept == {s \in table : socket[s] = NoFd \/ s \notin lost} IN
        \E read \in [kept -> Batches] :
            /\ phase = "read"
            /\ Disconnect(table \ kept)
            /\ Erase(table \ kept)
            /\ commands' = [s \in Slots |-> IF s \in kept THEN read[s] ELSE <<>>]
            /\ phase' = "pool"
            /\ UNCHANGED <<serving, throttled, poolVars, backlog>>

\* CClient::Tick for every session.  It fails on a session whose socket is
\* already closed, on an error, on the end of the stream and on a buffer that
\* has grown too long ("lost"); the server then closes and erases the session.
ReadSweep ==
    \E lost \in SUBSET table :
        LET kept == {s \in table : socket[s] # NoFd /\ s \notin lost} IN
        \E read \in [kept -> Batches] :
            /\ phase = "read"
            /\ Disconnect(table \ kept)
            /\ Erase(table \ kept)
            /\ commands' = [s \in Slots |-> IF s \in kept THEN read[s] ELSE <<>>]
            /\ phase' = "pool"
            /\ UNCHANGED <<serving, throttled, poolVars, backlog>>

\* The pool block while the pool counts as connected, or its name is not
\* resolved: no new socket, and recv only where select has found something.
PoolStays ==
    /\ phase = "pool"
    /\ phase' = "accept"
    /\ UNCHANGED <<sessionVars, throttled, poolVars, kernelVars>>

\* POOL_Connect takes a new socket.  The one before is not closed, whether the
\* link was lost or connect failed on it.  Without a free descriptor socket
\* returns -1.  Once connected the server subscribes and waits for the answer.
PoolReconnects ==
    /\ phase = "pool"
    /\ leaked' = leaked \cup ({poolFd} \ {NoFd})
    /\ \/ /\ \E f \in Fds : LowestFree(f) /\ poolFd' = f /\ open' = open \cup {f}
          /\ phase' \in {"subscribing", "accept"}
       \/ open = Fds /\ poolFd' = NoFd /\ UNCHANGED open /\ phase' = "accept"
    /\ UNCHANGED <<sessionVars, throttled, backlog>>

\* The answer to the subscription lets Tick go on.
Subscribed ==
    /\ phase = "subscribing"
    /\ phase' = "accept"
    /\ UNCHANGED <<sessionVars, throttled, poolVars, kernelVars>>

\* Mutant: the throttle is not looked at.
RefusedNever(from) == {}

\* DisconnectIP of an address that tries again although it is throttled.
Refused(from) == IF from \in throttled THEN From({from}) ELSE {}

\* The accept block.  A throttled address loses the sessions it has, yet the
\* new connection is admitted.
Admit ==
    /\ phase = "accept"
    /\ backlog > 0
    /\ \E from \in IPs, s \in Slots \ table, f \in Fds :
        /\ LowestFree(f)
        /\ \A t \in Slots \ table : s <= t
        /\ table' = table \cup {s}
        /\ socket' = [t \in Slots |-> IF t = s THEN f
                                      ELSE IF t \in Refused(from) THEN NoFd ELSE socket[t]]
        /\ open' = (open \ {socket[t] : t \in Refused(from)}) \cup {f}
        /\ ip' = [ip EXCEPT ![s] = from]
        /\ silence' = [silence EXCEPT ![s] = 0]
    /\ backlog' = backlog - 1
    /\ phase' = "commands"
    /\ UNCHANGED <<commandVars, throttled, poolVars>>

\* Mutant: a full server does not call accept.
TurnAwayWithoutAccept ==
    /\ phase = "accept"
    /\ backlog > 0
    /\ table = Slots
    /\ open # Fds
    /\ phase' = "commands"
    /\ UNCHANGED <<sessionVars, throttled, poolVars, kernelVars>>

\* "Server Full": the new socket is closed again.
TurnAway ==
    /\ phase = "accept"
    /\ backlog > 0
    /\ table = Slots
    /\ open # Fds
    /\ \E from \in IPs : Disconnect(Refused(from))
    /\ backlog' = backlog - 1
    /\ phase' = "commands"
    /\ UNCHANGED <<table, ip, silence, commandVars, throttled, poolVars>>

\* accept fails, out of descriptors.  The address it would have filled in is
\* read all the same: it may hold any address, or none of them.
AcceptFails ==
    /\ phase = "accept"
    /\ backlog > 0
    /\ open = Fds
    /\ \/ \E garbage \in IPs : Disconnect(Refused(garbage))
       \/ UNCHANGED <<socket, open>>
    /\ phase' = "commands"
    /\ UNCHANGED <<table, ip, silence, commandVars, throttled, poolVars, backlog>>

NothingToAccept ==
    /\ phase = "accept"
    /\ backlog = 0
    /\ phase' = "commands"
    /\ UNCHANGED <<sessionVars, throttled, poolVars, kernelVars>>

\* Mutant: the heartbeat of every session is refreshed.
PongAll(s) == silence' = [t \in Slots |-> 0]

\* A command refreshes the heartbeat of its session, whatever it says.
Pong(s) == silence' = [silence EXCEPT ![s] = 0]

\* The commands of one session are handled one after the other.
Turn(s) == s \in table /\ commands[s] # <<>> /\ serving \in {NoSlot, s}

\* The end of the loop's body, then the next command or, after the last one,
\* "ClearCommands" and the next session.
NextCommand(s) ==
    /\ Pong(s)
    /\ commands' = [commands EXCEPT ![s] = Tail(@)]
    /\ serving' = IF Tail(commands[s]) = <<>> THEN NoSlot ELSE s
    /\ phase' = "commands"

HandleGood(s) ==
    /\ phase = "commands"
    /\ Turn(s)
    /\ Head(commands[s]) = "good"
    /\ NextCommand(s)
    /\ UNCHANGED <<table, socket, ip, throttled, poolVars, kernelVars>>

\* One that is not JSON, or of an unknown method, throttles the address and
\* closes every session that comes from it, this one too.
HandleBad(s) ==
    /\ phase = "commands"
    /\ Turn(s)
    /\ Head(commands[s]) = "bad"
    /\ throttled' = throttled \cup ({ip[s]} \ {LocalIP})
    /\ Disconnect(From({ip[s]}))
    /\ NextCommand(s)
    /\ UNCHANGED <<table, ip, poolVars, backlog>>

\* A good command may be "found": the block is submitted, and Tick waits for
\* the pool's answer.
HandleFound(s) ==
    /\ phase = "commands"
    /\ Turn(s)
    /\ Head(commands[s]) = "good"
    /\ serving' = s
    /\ phase' = "submitting"
    /\ UNCHANGED <<table, socket, ip, silence, commands, throttled, poolVars, kernelVars>>

\* The answer to the submission.  Without a socket there is none.
Submitted ==
    /\ phase = "submitting"
    /\ poolFd # NoFd
    /\ \E s \in Slots : serving = s /\ NextCommand(s)
    /\ UNCHANGED <<table, socket, ip, throttled, poolVars, kernelVars>>

CommandsDone ==
    /\ phase = "commands"
    /\ \A s \in table : commands[s] = <<>>
    /\ phase' = "timeout"
    /\ UNCHANGED <<sessionVars, throttled, poolVars, kernelVars>>

\* SIGINT: Stop closes the sessions and exits.  The handler runs on top of
\* Tick: where that was changing m_vpSessions, or inside malloc, the handler
\* may miss sessions, crash or hang, so it reaches any of them.  What Tick had
\* half done is lost with the process.
Stop ==
    /\ phase # "stopped"
    /\ \E reached \in SUBSET table : Disconnect(reached)
    /\ phase' = "stopped"
    /\ UNCHANGED <<table, ip, silence, commandVars, throttled, poolVars, backlog>>

\* The process ends of its own: on a message of the pool it does not accept,
\* on a recv that fails, whose -1 becomes the length of a string, on a nonce
\* that std::stoul does not, and by SIGPIPE when it sends.
Ends ==
    /\ phase \in {"pool", "subscribing", "commands", "submitting"}
    /\ phase' = "stopped"
    /\ UNCHANGED <<sessionVars, throttled, poolVars, kernelVars>>

-------------------------------------------------------------------------------
(***************************************************************************)
(* The peers and the clock.                                                *)
(***************************************************************************)

Connect ==
    /\ phase # "stopped"
    /\ backlog < MaxBacklog
    /\ backlog' = backlog + 1
    /\ UNCHANGED <<phase, sessionVars, throttled, poolVars, open>>

Second ==
    /\ phase # "stopped"
    /\ \E s \in table : silence[s] < SessionTimeout
    /\ silence' = [s \in Slots |-> IF s \in table /\ silence[s] < SessionTimeout
                                   THEN silence[s] + 1 ELSE silence[s]]
    /\ UNCHANGED <<phase, table, socket, ip, commandVars, throttled, poolVars, kernelVars>>

\* What Tick does without the pool's help.  select and accept do not wait, and
\* connect and the resolver give up in the end.
Tick == \/ TimeoutSweep \/ ReadSweep
        \/ PoolStays \/ PoolReconnects
        \/ Admit \/ TurnAway \/ AcceptFails \/ NothingToAccept
        \/ CommandsDone
        \/ \E s \in Slots : HandleGood(s) \/ HandleBad(s) \/ HandleFound(s)

Next ==
    \/ Tick
    \/ Subscribed \/ Submitted
    \/ Stop \/ Ends
    \/ Connect
    \/ Second

\* main calls Tick in an endless loop, and time passes.  Nothing makes the pool
\* answer.
Spec == Init /\ [][Next]_vars /\ WF_vars(Tick) /\ WF_vars(Second)

-------------------------------------------------------------------------------
(***************************************************************************)
(* Properties.                                                             *)
(***************************************************************************)

Live(s) == s \in table /\ socket[s] # NoFd

\* Every open descriptor is that of one live session or one the pool link has
\* taken, and of no other: nothing but the pool link leaks one, when a session
\* is refused, throttled, timed out or lost, and a close never hits a
\* descriptor that accept has given to another session in the meantime.
SocketOwnership ==
    /\ \A f \in open : f \in leaked \cup {poolFd} \/ \E s \in table : socket[s] = f
    /\ leaked \cup ({poolFd} \ {NoFd}) \subseteq open
    /\ poolFd \notin leaked
    /\ \A s \in table : Live(s) => socket[s] \in open \ (leaked \cup {poolFd})
    /\ \A s, t \in table : (s # t /\ Live(s) /\ Live(t)) => socket[s] # socket[t]

\* However often a throttled address connects, it has one live session at
\* most.
ThrottledHasOneSession ==
    \A s, t \in table : (s # t /\ Live(s) /\ Live(t) /\ ip[s] = ip[t])
        => ip[s] \notin throttled

\* Sessions closed in one Tick are out of the table when the next one accepts
\* connections: a place is not lost to a closed session for longer.
SweptBeforeAccept == phase = "accept" => \A s \in table : Live(s)

\* A session loses its socket only for a reason of its own: its peer is gone or
\* was not heard for SESSION_TIMEOUT, its address is throttled or has just sent
\* a bad command, or the server stops.
ClosedForAReason ==
    [][\A s \in Slots :
        (Live(s) /\ ~ (s \in table' /\ socket'[s] = socket[s])) =>
            \/ phase = "read"
            \/ silence[s] >= SessionTimeout
            \/ ip[s] \in throttled
            \/ \E t \in table : /\ commands[t] # <<>> /\ Head(commands[t]) = "bad"
                               /\ ip[t] = ip[s]
            \/ phase' = "stopped"]_vars

\* Tick sits in a recv that only the pool can end.
AwaitsPool == phase \in {"subscribing", "submitting"}

\* A place of the table is heard from again and again or becomes free: a peer
\* that is gone without a word does not hold it.
SilentPlaceIsFreed ==
    \A s \in Slots :
        s \in table ~> (s \notin table \/ commands[s] # <<>> \/ phase = "stopped")

\* That holds if the pool never leaves the server waiting for good.
PlaceIsReclaimed == []<> ~ AwaitsPool => SilentPlaceIsFreed

\* The connections that wait for accept are taken from the queue one after the
\* other, to be admitted or turned away, as long as the server runs, the pool
\* answers it and a descriptor is free again and again.
BacklogMoves ==
    ([](phase # "stopped") /\ []<> ~ AwaitsPool /\ []<>(open # Fds)) =>
        ([]<>(backlog = 0) \/ []<><<backlog' < backlog>>_backlog)

\* Server/CServer.cpp:749 closes the descriptor of the pool, but nothing calls
\* POOL_Disconnect.  The pool link holds one descriptor at a time.
PoolHoldsOneDescriptor == leaked = {}

-------------------------------------------------------------------------------
(***************************************************************************)
(* The inductive invariant behind the theorems of SessionsProofs.           *)
(***************************************************************************)

\* From the read sweep to the accept block no session loses its socket.
SweptInv == phase \in {"pool", "subscribing", "accept"} => \A s \in table : Live(s)

\* The answer awaited after a submission belongs to a command not yet done.
SubmittingInv == phase = "submitting" => serving \in Slots /\ commands[serving] # <<>>

IndInv == TypeOK /\ SocketOwnership /\ ThrottledHasOneSession /\ SweptInv /\ SubmittingInv
===============================================================================

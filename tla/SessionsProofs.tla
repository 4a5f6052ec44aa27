---------------------------- MODULE SessionsProofs ----------------------------
(***************************************************************************)
(* Proofs about Sessions, for every size of the table, number of            *)
(* descriptors and set of addresses: which descriptor belongs to whom, what *)
(* the throttle allows, and why a session is closed.                        *)
(***************************************************************************)
EXTENDS Sessions, SequenceTheorems, TLAPS

USE SessionsAssumption DEF Slots, Fds, NoSlot

LEMMA InitIndInv == Init => IndInv
<1> SUFFICES ASSUME Init PROVE IndInv
  OBVIOUS
<1>1. commands \in [Slots -> Seq(Command)]
  BY EmptySeq DEF Init
<1>2. TypeOK
  BY <1>1 DEF Init, TypeOK, Phases
<1> QED BY <1>2 DEF Init, IndInv, SocketOwnership, ThrottledHasOneSession, SweptInv, SubmittingInv, Live

\* Closing sessions of the table, and erasing none or exactly these, keeps
\* the descriptors in order.
LEMMA CloseKeepsOwners ==
    ASSUME TypeOK, SocketOwnership, NEW closing \in SUBSET table, Disconnect(closing),
           table' \in {table, table \ closing}, UNCHANGED poolVars
    PROVE  /\ SocketOwnership'
           /\ socket' \in [Slots -> Fds \cup {NoFd}] /\ open' \in SUBSET Fds
           /\ \A s \in table' : Live(s)' => Live(s) /\ s \notin closing
           /\ \A s \in table \ closing : s \in table' /\ socket'[s] = socket[s]
<1>1. /\ \A s \in Slots : socket'[s] = IF s \in closing THEN NoFd ELSE socket[s]
      /\ open' = open \ {socket[s] : s \in closing}
      /\ table \subseteq Slots /\ table' \subseteq table
      /\ leaked' = leaked /\ poolFd' = poolFd
  BY DEF Disconnect, TypeOK, poolVars
<1>2. socket' \in [Slots -> Fds \cup {NoFd}] /\ open' \in SUBSET Fds
  BY DEF Disconnect, TypeOK
<1>3. \A s \in table' : Live(s)' => Live(s) /\ s \notin closing /\ socket'[s] = socket[s]
  BY <1>1 DEF Live
<1>4. \A s \in table \ closing : s \in table' /\ socket'[s] = socket[s]
  BY <1>1
<1>5. \A f \in open' : f \in leaked' \cup {poolFd'} \/ \E s \in table' : socket'[s] = f
  <2> SUFFICES ASSUME NEW f \in open', f \notin leaked \cup {poolFd}
               PROVE  \E s \in table' : socket'[s] = f
    BY <1>1
  <2>1. PICK s \in table : socket[s] = f
    BY <1>1 DEF SocketOwnership
  <2>2. s \notin closing
    BY <1>1, <2>1
  <2> QED BY <1>4, <2>1, <2>2
<1>6. \A f \in leaked \cup ({poolFd} \ {NoFd}) : f \in open'
  <2> SUFFICES ASSUME NEW f \in leaked \cup ({poolFd} \ {NoFd}), NEW s \in closing
               PROVE  f \in open /\ socket[s] # f
    BY <1>1 DEF SocketOwnership
  <2>1. f \in open /\ f \in Fds
    BY DEF SocketOwnership, TypeOK
  <2> QED BY <2>1 DEF SocketOwnership, Live
<1>7. \A s \in table' : Live(s)' => socket'[s] \in open' \ (leaked' \cup {poolFd'})
  <2> SUFFICES ASSUME NEW s \in table', Live(s)'
               PROVE  socket'[s] \in open' \ (leaked' \cup {poolFd'})
    OBVIOUS
  <2>1. Live(s) /\ s \notin closing /\ socket'[s] = socket[s]
    BY <1>3
  <2>2. socket[s] \in open \ (leaked \cup {poolFd})
    BY <1>1, <2>1 DEF SocketOwnership
  <2>3. \A t \in closing : socket[t] # socket[s]
    BY <1>1, <2>1 DEF SocketOwnership, Live
  <2> QED BY <1>1, <2>1, <2>2, <2>3
<1>8. \A s, t \in table' : (s # t /\ Live(s)' /\ Live(t)') => socket'[s] # socket'[t]
  BY <1>1, <1>3 DEF SocketOwnership
<1>9. poolFd' \notin leaked'
  BY <1>1 DEF SocketOwnership
<1>10. SocketOwnership'
  BY <1>1, <1>5, <1>6, <1>7, <1>8, <1>9 DEF SocketOwnership
<1> QED BY <1>2, <1>3, <1>4, <1>10

\* With no more live sessions, and no address throttled in addition but those
\* whose sessions were closed, the throttle still holds.
LEMMA ThrottleHolds ==
    ASSUME ThrottledHasOneSession, table' \subseteq table,
           \A s \in table' : Live(s)' => Live(s) /\ ip'[s] = ip[s]
                                         /\ (ip[s] \in throttled' => ip[s] \in throttled)
    PROVE  ThrottledHasOneSession'
BY DEF ThrottledHasOneSession

\* What recv gives a session are commands.
LEMMA BatchesAreCommands == Batches \subseteq Seq(Command)
BY SeqDef DEF Batches

\* One command of a session is done with.
LEMMA NextCommandTypes ==
    ASSUME TypeOK, NEW s \in Slots, commands[s] # <<>>, NextCommand(s)
    PROVE  /\ phase' = "commands"
           /\ silence' \in [Slots -> 0 .. SessionTimeout]
           /\ commands' \in [Slots -> Seq(Command)]
           /\ serving' \in Slots \cup {NoSlot}
<1>1. commands[s] \in Seq(Command) /\ 0 \in 0 .. SessionTimeout
  BY DEF TypeOK
<1>2. Tail(commands[s]) \in Seq(Command)
  BY <1>1, HeadTailProperties
<1> QED BY <1>1, <1>2 DEF TypeOK, NextCommand, Pong

\* The sweeps, bad commands and Stop: sessions are closed, and erased or kept.
LEMMA CloseStep ==
    ASSUME IndInv,
           \/ TimeoutSweep \/ ReadSweep \/ TurnAway \/ AcceptFails \/ Stop
           \/ \E s \in Slots : HandleBad(s)
    PROVE  IndInv'
<1>1. TypeOK /\ SocketOwnership /\ ThrottledHasOneSession /\ SweptInv /\ SubmittingInv
  BY DEF IndInv
<1>2. table \subseteq Slots /\ LocalIP \in IPs /\ 0 \in 0 .. SessionTimeout
  BY <1>1 DEF TypeOK
<1>3. CASE TimeoutSweep
  <2> DEFINE old == {s \in table : silence[s] >= SessionTimeout}
  <2>1. /\ Disconnect(old) /\ Erase(old) /\ phase' = "read" /\ table' = table \ old
        /\ UNCHANGED <<commandVars, throttled, poolVars, backlog>>
    BY <1>3 DEF TimeoutSweep, Erase
  <2>2. old \in SUBSET table
    OBVIOUS
  <2> HIDE DEF old
  <2>3. /\ SocketOwnership'
        /\ socket' \in [Slots -> Fds \cup {NoFd}] /\ open' \in SUBSET Fds
        /\ \A s \in table' : Live(s)' => Live(s) /\ s \notin old
    BY <1>1, <2>1, <2>2, CloseKeepsOwners
  <2>4. TypeOK'
    BY <1>1, <1>2, <2>1, <2>3 DEF TypeOK, Erase, Phases, poolVars, commandVars
  <2>5. ThrottledHasOneSession'
    BY <1>1, <1>2, <2>1, <2>3, ThrottleHolds DEF Erase
  <2> QED BY <2>1, <2>3, <2>4, <2>5 DEF IndInv, SweptInv, SubmittingInv
<1>4. CASE ReadSweep
  <2>1. PICK lost \in SUBSET table :
          LET kept == {s \in table : socket[s] # NoFd /\ s \notin lost} IN
          \E read \in [kept -> Batches] :
            /\ Disconnect(table \ kept) /\ Erase(table \ kept)
            /\ commands' = [s \in Slots |-> IF s \in kept THEN read[s] ELSE <<>>]
            /\ phase' = "pool"
            /\ UNCHANGED <<serving, throttled, poolVars, backlog>>
    BY <1>4 DEF ReadSweep
  <2> DEFINE kept == {s \in table : socket[s] # NoFd /\ s \notin lost}
             gone == table \ kept
  <2>2. gone \in SUBSET table /\ \A s \in table \ gone : Live(s)
    BY <1>2 DEF Live
  <2>3. /\ Disconnect(gone) /\ Erase(gone) /\ table' = table \ gone /\ phase' = "pool"
        /\ UNCHANGED <<serving, throttled, poolVars, backlog>>
    BY <2>1 DEF Erase
  <2>4. commands' \in [Slots -> Seq(Command)]
    <3>1. PICK read \in [kept -> Batches] :
            commands' = [s \in Slots |-> IF s \in kept THEN read[s] ELSE <<>>]
      BY <2>1
    <3>2. <<>> \in Seq(Command) /\ \A s \in kept : read[s] \in Seq(Command)
      BY BatchesAreCommands, EmptySeq
    <3> QED BY <3>1, <3>2
  <2> HIDE DEF gone
  <2>5. /\ SocketOwnership'
        /\ socket' \in [Slots -> Fds \cup {NoFd}] /\ open' \in SUBSET Fds
        /\ \A s \in table' : Live(s)' => Live(s) /\ s \notin gone
        /\ \A s \in table \ gone : s \in table' /\ socket'[s] = socket[s]
    BY <1>1, <2>2, <2>3, CloseKeepsOwners
  <2>6. TypeOK'
    <3>1. table' \subseteq Slots /\ phase' \in Phases
      BY <1>2, <2>3 DEF Phases
    <3>2. ip' \in [Slots -> IPs] /\ silence' \in [Slots -> 0 .. SessionTimeout]
      BY <1>1, <1>2, <2>3 DEF TypeOK, Erase
    <3>3. UNCHANGED <<serving, throttled, poolFd, leaked, backlog>>
      BY <2>3 DEF poolVars
    <3> QED BY <1>1, <2>4, <2>5, <3>1, <3>2, <3>3 DEF TypeOK
  <2>7. ThrottledHasOneSession'
    BY <1>1, <1>2, <2>3, <2>5, ThrottleHolds DEF Erase
  <2>8. SweptInv'
    BY <2>2, <2>3, <2>5 DEF SweptInv, Live
  <2>9. SubmittingInv'
    BY <2>3 DEF SubmittingInv
  <2> QED BY <2>5, <2>6, <2>7, <2>8, <2>9 DEF IndInv
<1>5. ASSUME NEW closing \in SUBSET table, Disconnect(closing), phase' = "commands",
             UNCHANGED <<table, ip, silence, commandVars, throttled, poolVars>>,
             backlog' \in {backlog, backlog - 1}, backlog > 0
      PROVE  IndInv'
  <2>1. /\ SocketOwnership'
        /\ socket' \in [Slots -> Fds \cup {NoFd}] /\ open' \in SUBSET Fds
        /\ \A s \in table' : Live(s)' => Live(s) /\ s \notin closing
    BY <1>1, <1>5, CloseKeepsOwners
  <2>2. backlog' \in 0 .. MaxBacklog
    BY <1>1, <1>5 DEF TypeOK
  <2>3. TypeOK'
    BY <1>1, <1>5, <2>1, <2>2 DEF TypeOK, Phases, poolVars, commandVars
  <2>4. ThrottledHasOneSession'
    BY <1>1, <1>2, <1>5, <2>1, ThrottleHolds
  <2> QED BY <1>5, <2>1, <2>3, <2>4 DEF IndInv, SweptInv, SubmittingInv
<1>6. \A from : Refused(from) \in SUBSET table
  BY DEF Refused, From
<1>7. CASE TurnAway
  BY <1>5, <1>6, <1>7 DEF TurnAway
<1>8. CASE AcceptFails
  <2>1. CASE \E garbage \in IPs : Disconnect(Refused(garbage))
    BY <1>5, <1>6, <1>8, <2>1 DEF AcceptFails
  <2>2. CASE UNCHANGED <<socket, open>>
    <3>1. Disconnect({})
      BY <1>1, <2>2 DEF Disconnect, TypeOK
    <3> QED BY <1>5, <1>8, <3>1 DEF AcceptFails
  <2> QED BY <1>8, <2>1, <2>2 DEF AcceptFails
<1>9. ASSUME NEW s \in Slots, HandleBad(s) PROVE IndInv'
  <2>1. /\ throttled' = throttled \cup ({ip[s]} \ {LocalIP})
        /\ Disconnect(From({ip[s]}))
        /\ UNCHANGED <<table, ip, poolVars, backlog>>
    BY <1>9 DEF HandleBad
  <2>2. /\ phase' = "commands"
        /\ silence' \in [Slots -> 0 .. SessionTimeout]
        /\ commands' \in [Slots -> Seq(Command)]
        /\ serving' \in Slots \cup {NoSlot}
    BY <1>1, <1>9, NextCommandTypes DEF HandleBad, Turn
  <2>3. From({ip[s]}) \in SUBSET table /\ ip[s] \in IPs
    BY <1>1 DEF From, TypeOK
  <2>4. /\ SocketOwnership'
        /\ socket' \in [Slots -> Fds \cup {NoFd}] /\ open' \in SUBSET Fds
        /\ \A t \in table' : Live(t)' => Live(t) /\ t \notin From({ip[s]})
    BY <1>1, <2>1, <2>3, CloseKeepsOwners
  <2>5. TypeOK'
    BY <1>1, <2>1, <2>2, <2>3, <2>4 DEF TypeOK, Phases, poolVars
  <2>6. ThrottledHasOneSession'
    BY <1>1, <2>1, <2>4, ThrottleHolds DEF From
  <2> QED BY <2>2, <2>4, <2>5, <2>6 DEF IndInv, SweptInv, SubmittingInv
<1>10. CASE Stop
  <2>1. PICK reached \in SUBSET table : Disconnect(reached)
    BY <1>10 DEF Stop
  <2>2. /\ phase' = "stopped"
        /\ UNCHANGED <<table, ip, silence, commandVars, throttled, poolVars, backlog>>
    BY <1>10 DEF Stop
  <2>3. /\ SocketOwnership'
        /\ socket' \in [Slots -> Fds \cup {NoFd}] /\ open' \in SUBSET Fds
        /\ \A s \in table' : Live(s)' => Live(s) /\ s \notin reached
    BY <1>1, <2>1, <2>2, CloseKeepsOwners
  <2>4. TypeOK'
    BY <1>1, <2>2, <2>3 DEF TypeOK, Phases, poolVars, commandVars
  <2>5. ThrottledHasOneSession'
    BY <1>1, <2>2, <2>3, ThrottleHolds
  <2> QED BY <2>2, <2>3, <2>4, <2>5 DEF IndInv, SweptInv, SubmittingInv
<1> QED BY <1>3, <1>4, <1>7, <1>8, <1>9, <1>10

\* A connection is admitted: its descriptor was free.
LEMMA AdmitStep ==
    ASSUME IndInv, Admit
    PROVE  IndInv'
<1>0. PICK from \in IPs, s \in Slots \ table, f \in Fds :
        /\ LowestFree(f)
        /\ table' = table \cup {s}
        /\ socket' = [t \in Slots |-> IF t = s THEN f
                                      ELSE IF t \in Refused(from) THEN NoFd ELSE socket[t]]
        /\ open' = (open \ {socket[t] : t \in Refused(from)}) \cup {f}
        /\ ip' = [ip EXCEPT ![s] = from]
        /\ silence' = [silence EXCEPT ![s] = 0]
  BY DEF Admit
<1>1. TypeOK /\ SocketOwnership /\ ThrottledHasOneSession /\ SweptInv /\ SubmittingInv
  BY DEF IndInv
<1> DEFINE refused == Refused(from)
<1>2. /\ LowestFree(f)
      /\ table' = table \cup {s}
      /\ socket' = [t \in Slots |-> IF t = s THEN f
                                    ELSE IF t \in refused THEN NoFd ELSE socket[t]]
      /\ open' = (open \ {socket[t] : t \in refused}) \cup {f}
      /\ ip' = [ip EXCEPT ![s] = from]
      /\ silence' = [silence EXCEPT ![s] = 0]
  BY <1>0
<1>3. /\ phase = "accept" /\ backlog > 0 /\ backlog' = backlog - 1
      /\ phase' = "commands" /\ UNCHANGED <<commandVars, throttled, poolVars>>
  BY DEF Admit
<1>4. from \in IPs /\ backlog' \in 0 .. MaxBacklog
  BY <1>1, <1>3 DEF TypeOK
<1>5. /\ refused \in SUBSET table
      /\ \A t \in table : t \in refused <=> from \in throttled /\ ip[t] = from
  BY DEF Refused, From
<1> HIDE DEF refused
<1>6. f \in Fds /\ f \notin open /\ f # NoFd
  BY <1>2 DEF LowestFree
<1>7. /\ \A t \in table : /\ t \in Slots /\ t # s /\ ip'[t] = ip[t]
                          /\ socket'[t] = IF t \in refused THEN NoFd ELSE socket[t]
      /\ socket'[s] = f /\ ip'[s] = from /\ s \in Slots
      /\ leaked' = leaked /\ poolFd' = poolFd
  BY <1>1, <1>2, <1>3 DEF TypeOK, poolVars
<1>8. TypeOK'
  <2>1. /\ socket' \in [Slots -> Fds \cup {NoFd}] /\ open' \subseteq Fds
        /\ table' \subseteq Slots
    BY <1>1, <1>2 DEF TypeOK
  <2>2. ip' \in [Slots -> IPs] /\ silence' \in [Slots -> 0 .. SessionTimeout]
    <3>1. 0 \in 0 .. SessionTimeout
      OBVIOUS
    <3> QED BY <1>1, <1>2, <1>4, <3>1 DEF TypeOK
  <2> QED BY <1>1, <1>3, <1>4, <1>7, <2>1, <2>2 DEF TypeOK, Phases, commandVars
<1>9. SocketOwnership'
  <2>1. \A g \in open' : g \in leaked' \cup {poolFd'} \/ \E t \in table' : socket'[t] = g
    <3> SUFFICES ASSUME NEW g \in open', g # f, g \notin leaked \cup {poolFd}
                 PROVE  \E t \in table' : socket'[t] = g
      BY <1>2, <1>7
    <3>1. g \in open /\ \A t \in refused : socket[t] # g
      BY <1>2
    <3>2. PICK t \in table : socket[t] = g
      BY <1>1, <3>1 DEF SocketOwnership
    <3> QED BY <1>2, <1>7, <3>1, <3>2
  <2>2. \A g \in leaked \cup ({poolFd} \ {NoFd}) : g \in open'
    <3> SUFFICES ASSUME NEW g \in leaked \cup ({poolFd} \ {NoFd}), NEW t \in refused
                 PROVE  g \in open /\ socket[t] # g
      BY <1>1, <1>2 DEF SocketOwnership
    <3>1. g \in open /\ g \in Fds
      BY <1>1 DEF SocketOwnership, TypeOK
    <3> QED BY <1>1, <1>5, <3>1 DEF SocketOwnership, Live
  <2>3. \A t \in table : Live(t)' => Live(t) /\ socket'[t] = socket[t] /\ t \notin refused
    BY <1>7 DEF Live
  <2>4. \A t \in table : Live(t)' => socket'[t] \in open' \ (leaked' \cup {poolFd'})
    <3> SUFFICES ASSUME NEW t \in table, Live(t)'
                 PROVE  socket'[t] \in open' \ (leaked' \cup {poolFd'})
      OBVIOUS
    <3>1. socket'[t] = socket[t] /\ socket[t] \in open \ (leaked \cup {poolFd})
      BY <1>1, <2>3 DEF SocketOwnership
    <3>2. \A u \in refused : socket[u] # socket[t]
      BY <1>1, <1>5, <2>3 DEF SocketOwnership, Live
    <3> QED BY <1>2, <1>7, <3>1, <3>2
  <2>5. socket'[s] \in open' \ (leaked' \cup {poolFd'})
    BY <1>1, <1>2, <1>6, <1>7 DEF SocketOwnership
  <2>6. \A t \in table : Live(t)' => socket'[t] # f
    BY <1>1, <1>6, <2>3 DEF SocketOwnership
  <2>7. \A t, u \in table' : (t # u /\ Live(t)' /\ Live(u)') => socket'[t] # socket'[u]
    <3> SUFFICES ASSUME NEW t \in table', NEW u \in table', t # u, Live(t)', Live(u)'
                 PROVE  socket'[t] # socket'[u]
      OBVIOUS
    <3>1. (t = s \/ t \in table) /\ (u = s \/ u \in table)
      BY <1>2
    <3>2. CASE t \in table /\ u \in table
      BY <1>1, <2>3, <3>2 DEF SocketOwnership
    <3>3. CASE t = s \/ u = s
      BY <1>7, <2>6, <3>1, <3>3
    <3> QED BY <3>1, <3>2, <3>3
  <2>8. poolFd' \notin leaked' /\ leaked' \cup ({poolFd'} \ {NoFd}) \subseteq open'
    BY <1>1, <1>7, <2>2 DEF SocketOwnership
  <2>9. \A t \in table' : Live(t)' => socket'[t] \in open' \ (leaked' \cup {poolFd'})
    BY <1>2, <2>4, <2>5
  <2> QED BY <2>1, <2>7, <2>8, <2>9 DEF SocketOwnership
<1>10. ThrottledHasOneSession'
  <2> SUFFICES ASSUME NEW t \in table', NEW u \in table', t # u, Live(t)', Live(u)',
                      ip'[t] = ip'[u], ip'[t] \in throttled
               PROVE  FALSE
    BY <1>3 DEF ThrottledHasOneSession
  <2>1. CASE t \in table /\ u \in table
    <3>1. Live(t) /\ Live(u)
      BY <1>7, <2>1 DEF Live
    <3> QED BY <1>1, <1>7, <2>1, <3>1 DEF ThrottledHasOneSession
  <2>2. CASE t = s \/ u = s
    <3>1. PICK v \in {t, u} : v # s
      BY <2>2
    <3>2. v \in table /\ Live(v)' /\ ip[v] = from /\ from \in throttled
      BY <1>2, <1>7, <2>2, <3>1
    <3>3. v \in refused
      BY <1>5, <3>2
    <3> QED BY <1>7, <3>2, <3>3 DEF Live
  <2> QED BY <1>2, <2>1, <2>2
<1> QED BY <1>3, <1>8, <1>9, <1>10 DEF IndInv, SweptInv, SubmittingInv

\* The pool takes a descriptor that was free and keeps those it had.
LEMMA PoolStep ==
    ASSUME IndInv, PoolReconnects
    PROVE  IndInv'
<1>1. TypeOK /\ SocketOwnership /\ ThrottledHasOneSession /\ SweptInv /\ SubmittingInv
  BY DEF IndInv
<1>2. /\ phase = "pool" /\ phase' \in {"subscribing", "accept"} /\ serving' = serving
      /\ table' = table /\ socket' = socket /\ ip' = ip /\ silence' = silence
      /\ commands' = commands /\ throttled' = throttled /\ backlog' = backlog
      /\ leaked' = leaked \cup ({poolFd} \ {NoFd})
      /\ \/ \E f \in Fds \ open : poolFd' = f /\ open' = open \cup {f}
         \/ poolFd' = NoFd /\ open' = open
  BY DEF PoolReconnects, sessionVars, commandVars, LowestFree
<1>3. TypeOK'
  BY <1>1, <1>2 DEF TypeOK, Phases
<1>4. SocketOwnership'
  <2>1. NoFd \notin open /\ NoFd \notin leaked
    BY <1>1 DEF TypeOK
  <2>2. poolFd' \notin leaked' /\ leaked' \cup ({poolFd'} \ {NoFd}) \subseteq open'
    BY <1>1, <1>2, <2>1 DEF SocketOwnership
  <2>3. \A g \in open' : g \in leaked' \cup {poolFd'} \/ \E t \in table' : socket'[t] = g
    BY <1>1, <1>2, <2>1 DEF SocketOwnership
  <2>4. \A t \in table' : Live(t)' => socket'[t] \in open' \ (leaked' \cup {poolFd'})
    BY <1>1, <1>2, <2>1 DEF SocketOwnership, Live
  <2>5. \A t, u \in table' : (t # u /\ Live(t)' /\ Live(u)') => socket'[t] # socket'[u]
    BY <1>1, <1>2 DEF SocketOwnership, Live
  <2> QED BY <2>2, <2>3, <2>4, <2>5 DEF SocketOwnership
<1>5. ThrottledHasOneSession' /\ SweptInv' /\ SubmittingInv'
  BY <1>1, <1>2 DEF ThrottledHasOneSession, SweptInv, SubmittingInv, Live
<1> QED BY <1>3, <1>4, <1>5 DEF IndInv

\* Steps that leave table, sockets and descriptors alone.
LEMMA QuietStep ==
    ASSUME IndInv,
           \/ PoolStays \/ Subscribed \/ NothingToAccept \/ Submitted \/ CommandsDone
           \/ \E s \in Slots : HandleGood(s) \/ HandleFound(s)
           \/ Ends \/ Second \/ Connect \/ UNCHANGED vars
    PROVE  IndInv'
<1>1. TypeOK /\ SocketOwnership /\ ThrottledHasOneSession /\ SweptInv /\ SubmittingInv
  BY DEF IndInv
<1>2. /\ UNCHANGED <<table, socket, ip, throttled, poolVars, open>>
      /\ \/ phase' = phase
         \/ phase \in {"pool", "subscribing"} /\ phase' = "accept"
         \/ phase' \in {"commands", "submitting", "timeout", "stopped"}
  BY DEF PoolStays, Subscribed, NothingToAccept, Submitted, CommandsDone, HandleGood, HandleFound,
         Ends, Second, Connect, NextCommand, vars, sessionVars, kernelVars
<1>3. /\ silence' \in [Slots -> 0 .. SessionTimeout]
      /\ commands' \in [Slots -> Seq(Command)]
      /\ serving' \in Slots \cup {NoSlot}
  <2>1. CASE Second
    <3>1. \A n \in 0 .. SessionTimeout : n < SessionTimeout => n + 1 \in 0 .. SessionTimeout
      OBVIOUS
    <3>2. \A s \in Slots : silence[s] \in 0 .. SessionTimeout
      BY <1>1 DEF TypeOK
    <3>3. /\ silence' = [s \in Slots |-> IF s \in table /\ silence[s] < SessionTimeout
                                        THEN silence[s] + 1 ELSE silence[s]]
          /\ UNCHANGED <<commands, serving>>
      BY <2>1 DEF Second, commandVars
    <3>4. silence' \in [Slots -> 0 .. SessionTimeout]
      BY <3>1, <3>2, <3>3
    <3> QED BY <1>1, <3>3, <3>4 DEF TypeOK
  <2>2. CASE \E s \in Slots : commands[s] # <<>> /\ NextCommand(s)
    BY <1>1, <2>2, NextCommandTypes
  <2>3. CASE Submitted \/ \E s \in Slots : HandleGood(s)
    BY <1>1, <2>2, <2>3 DEF Submitted, SubmittingInv, HandleGood, Turn
  <2>4. CASE \E s \in Slots : HandleFound(s)
    BY <1>1, <2>4 DEF TypeOK, HandleFound
  <2>5. CASE PoolStays \/ Subscribed \/ NothingToAccept \/ CommandsDone \/ Ends \/ Connect
             \/ UNCHANGED vars
    BY <1>1, <2>5 DEF TypeOK, PoolStays, Subscribed, NothingToAccept, CommandsDone, Ends, Connect,
                      vars, sessionVars, commandVars
  <2> QED BY <2>1, <2>3, <2>4, <2>5
<1>4. backlog' \in 0 .. MaxBacklog
  <2>1. backlog \in 0 .. MaxBacklog
    BY <1>1 DEF TypeOK
  <2>2. CASE Connect
    BY <2>1, <2>2 DEF Connect
  <2>3. CASE ~ Connect
    <3>1. backlog' = backlog
      BY <2>3 DEF PoolStays, Subscribed, NothingToAccept, Submitted, CommandsDone, HandleGood,
                  HandleFound, Ends, Second, vars, kernelVars
    <3> QED BY <2>1, <3>1
  <2> QED BY <2>2, <2>3
<1>5. TypeOK'
  BY <1>1, <1>2, <1>3, <1>4 DEF TypeOK, Phases, poolVars
<1>6. SocketOwnership' /\ ThrottledHasOneSession' /\ SweptInv'
  BY <1>1, <1>2 DEF SocketOwnership, ThrottledHasOneSession, SweptInv, Live, poolVars
<1>7. SubmittingInv'
  BY <1>1 DEF SubmittingInv, PoolStays, Subscribed, NothingToAccept, Submitted, CommandsDone,
              HandleGood, HandleFound, Turn, NextCommand, Ends, Second, Connect, vars, sessionVars,
              commandVars
<1> QED BY <1>5, <1>6, <1>7 DEF IndInv

LEMMA NextIndInv == IndInv /\ [Next]_vars => IndInv'
BY CloseStep, AdmitStep, PoolStep, QuietStep DEF Next, Tick

-------------------------------------------------------------------------------
(***************************************************************************)
(* The theorems.                                                           *)
(***************************************************************************)

\* The inductive invariant holds in every reachable state of CServer::Tick.
THEOREM Invariance == Spec => []IndInv
BY InitIndInv, NextIndInv, PTL DEF Spec

\* Every open descriptor has one owner, a session or the pool link, however
\* many sessions are refused, throttled, lost or timed out.
THEOREM SocketsAreOwned == Spec => []SocketOwnership
<1>1. IndInv => SocketOwnership
  BY DEF IndInv
<1> QED BY <1>1, Invariance, PTL

\* A throttled address never has two live sessions.
THEOREM ThrottleHoldsAlways == Spec => []ThrottledHasOneSession
<1>1. IndInv => ThrottledHasOneSession
  BY DEF IndInv
<1> QED BY <1>1, Invariance, PTL

\* No place of the table is held by a closed session when Tick accepts.
THEOREM SweptWhenAccepting == Spec => []SweptBeforeAccept
<1>1. IndInv => SweptBeforeAccept
  BY DEF IndInv, SweptInv, SweptBeforeAccept
<1> QED BY <1>1, Invariance, PTL

\* The table, its counters and the backlog keep their types.
THEOREM SessionsTypeCorrect == Spec => []TypeOK
<1>1. IndInv => TypeOK
  BY DEF IndInv
<1> QED BY <1>1, Invariance, PTL

\* What closes a session is its own: no step of Tick closes another's socket.
LEMMA StepHasAReason ==
    ASSUME TypeOK, Next, NEW s \in Slots, Live(s), ~ (s \in table' /\ socket'[s] = socket[s])
    PROVE  \/ phase = "read"
           \/ silence[s] >= SessionTimeout
           \/ ip[s] \in throttled
           \/ \E t \in table : /\ commands[t] # <<>> /\ Head(commands[t]) = "bad"
                              /\ ip[t] = ip[s]
           \/ phase' = "stopped"
<1>1. ASSUME NEW closing, Disconnect(closing), s \in table' PROVE s \in closing
  BY <1>1 DEF Disconnect, TypeOK
<1>2. \A from : s \in Refused(from) => ip[s] \in throttled
  BY DEF Refused, From
<1>3. s \in table
  BY DEF Live
<1>4. CASE TimeoutSweep
  <2> DEFINE old == {t \in table : silence[t] >= SessionTimeout}
  <2>1. Disconnect(old) /\ table' = table \ old
    BY <1>4 DEF TimeoutSweep, Erase
  <2>2. s \in old
    BY <1>1, <1>3, <2>1
  <2> QED BY <2>2
<1>5. CASE ReadSweep
  BY <1>5 DEF ReadSweep
<1>6. CASE \/ PoolStays \/ PoolReconnects \/ Subscribed \/ NothingToAccept
           \/ Submitted \/ CommandsDone \/ \E t \in Slots : HandleGood(t) \/ HandleFound(t)
           \/ Ends \/ Second \/ Connect
  BY <1>3, <1>6 DEF PoolStays, PoolReconnects, Subscribed, NothingToAccept, Submitted, CommandsDone,
                    HandleGood, HandleFound, Ends, Second, Connect, sessionVars
<1>7. CASE Admit
  <2>1. PICK from \in IPs, r \in Slots \ table, f \in Fds :
          /\ table' = table \cup {r}
          /\ socket' = [t \in Slots |-> IF t = r THEN f
                                        ELSE IF t \in Refused(from) THEN NoFd ELSE socket[t]]
    BY <1>7 DEF Admit
  <2>2. s \in Refused(from)
    BY <1>3, <2>1
  <2> QED BY <1>2, <2>2
<1>8. CASE TurnAway
  BY <1>1, <1>2, <1>3, <1>8 DEF TurnAway
<1>9. CASE AcceptFails
  BY <1>1, <1>2, <1>3, <1>9 DEF AcceptFails
<1>10. ASSUME NEW t \in Slots, HandleBad(t)
       PROVE  \E u \in table : /\ commands[u] # <<>> /\ Head(commands[u]) = "bad"
                               /\ ip[u] = ip[s]
  <2>1. /\ Disconnect(From({ip[t]})) /\ table' = table
        /\ t \in table /\ commands[t] # <<>> /\ Head(commands[t]) = "bad"
    BY <1>10 DEF HandleBad, Turn
  <2>2. s \in From({ip[t]})
    BY <1>1, <1>3, <2>1
  <2> QED BY <2>1, <2>2 DEF From
<1>11. CASE Stop
  BY <1>11 DEF Stop
<1> QED BY <1>4, <1>5, <1>6, <1>7, <1>8, <1>9, <1>10, <1>11 DEF Next, Tick

\* A session is closed only for a reason of its own.
THEOREM ClosingHasAReason == Spec => ClosedForAReason
<1>1. IndInv /\ [Next]_vars =>
        [\A s \in Slots :
            (Live(s) /\ ~ (s \in table' /\ socket'[s] = socket[s])) =>
                \/ phase = "read"
                \/ silence[s] >= SessionTimeout
                \/ ip[s] \in throttled
                \/ \E t \in table : /\ commands[t] # <<>> /\ Head(commands[t]) = "bad"
                                   /\ ip[t] = ip[s]
                \/ phase' = "stopped"]_vars
  BY StepHasAReason DEF IndInv
<1> QED BY <1>1, Invariance, PTL DEF Spec, ClosedForAReason
===============================================================================

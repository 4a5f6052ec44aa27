------------------------------ MODULE Statistics ------------------------------
(***************************************************************************)
(* What the server counts and publishes: CServer::tStatistics, the counters *)
(* of the sessions and the block of CServer::Tick that writes stats.json    *)
(* once a second.  The block reads the clock several times, and the second  *)
(* may change between any two of the readings; a dump is taken to last less *)
(* than a second, so the second changes at most once.                       *)
(***************************************************************************)
EXTENDS Integers, Sequences, FiniteSetsExt

CONSTANTS
    Clients,        \* sessions of the server
    Extranonce2s,   \* keys of m_mBestExtranonce2
    Distances,      \* the zero-byte counts a miner may report
    Rates,          \* the combinations_per_sec a miner may report
    Space,          \* 2^32, the values of a uint32
    Period,         \* the 3600 seconds between two time entries
    Ring,           \* the 24 time entries kept
    MaxTime,        \* bound: the clock, which begins at Period
    MaxChunks,      \* bound: chunks completed
    MaxJobs,        \* bound: clean jobs received
    MaxBlocks       \* bound: blocks found

ASSUME StatisticsAssumption ==
    /\ IsFiniteSet(Extranonce2s) /\ Extranonce2s # {}
    /\ Distances \subseteq Nat
    /\ Space \in Nat \ {0}
    /\ Rates \subseteq 0 .. Space - 1
    /\ Period \in Nat \ {0} /\ Ring \in Nat \ {0}
    /\ MaxTime \in Nat /\ MaxTime >= Period
    /\ MaxChunks \in Nat /\ MaxJobs \in Nat /\ MaxBlocks \in Nat

VARIABLES
    now,            \* time(0)
    sessions,       \* m_vpSessions
    rate,           \* CClient::m_uiCombinationsPerSecond
    completed,      \* CClient::m_uiCompleted
    best,           \* m_mBestExtranonce2; an absent entry is 0
    totalChunks,    \* m_uiCompletedChunksTotal
    jobChunks,      \* m_uiCompletedChunksForThisJob
    totalJobs,      \* m_uiTotalJobs
    totalBlocks,    \* m_uiTotalBlocksFound
    dated,          \* m_mBestDistancesEpoch; an absent entry is 0
    timeStats,      \* m_vTimeStats
    lastTimeEntry,  \* m_uiLastTimeEntry
    statsEpoch,     \* m_uiStatsEpoch
    dump,           \* how far the block that publishes has come
    entry           \* _Entry

counters == <<totalChunks, jobChunks, totalJobs, totalBlocks>>
clients  == <<sessions, rate, completed>>
reported == <<best, dated>>
written  == <<timeStats, lastTimeEntry, statsEpoch, dump, entry>>
vars == <<now, counters, clients, reported, written>>

Times == 0 .. MaxTime

\* A tTimeEntry without its number of miners, which no property reads.
Entry == [epoch : Times, hash : 0 .. Space - 1, distance : Distances \cup {0}]

NoEntry == [epoch |-> 0, hash |-> 0, distance |-> 0]

\* One invariant for the types of all variables.
TypeOK ==
    /\ now \in Times
    /\ sessions \subseteq Clients
    /\ rate \in [Clients -> Rates \cup {0}]
    /\ completed \in [Clients -> 0 .. MaxChunks]
    /\ best \in [Extranonce2s -> Distances \cup {0}]
    /\ totalChunks \in 0 .. MaxChunks
    /\ jobChunks \in 0 .. MaxChunks
    /\ totalJobs \in 0 .. MaxJobs
    /\ totalBlocks \in 0 .. MaxBlocks
    /\ dated \in [Distances -> Times]
    /\ timeStats \in Seq(Entry) /\ Len(timeStats) <= Ring
    /\ lastTimeEntry \in Times
    /\ statsEpoch \in Times
    /\ dump \in {"idle", "entry", "stamp", "publish"}
    /\ entry \in Entry

\* The constructor: Clear leaves the two histories, which are empty already.
Init ==
    /\ now = Period
    /\ sessions = {}
    /\ rate = [c \in Clients |-> 0]
    /\ completed = [c \in Clients |-> 0]
    /\ best = [e \in Extranonce2s |-> 0]
    /\ totalChunks = 0 /\ jobChunks = 0 /\ totalJobs = 0 /\ totalBlocks = 0
    /\ dated = [d \in Distances |-> 0]
    /\ timeStats = <<>> /\ lastTimeEntry = 0 /\ statsEpoch = 0
    /\ dump = "idle"
    /\ entry = NoEntry

-------------------------------------------------------------------------------
(***************************************************************************)
(* What is counted.                                                        *)
(***************************************************************************)

\* A new CClient.
Accept(c) ==
    /\ c \notin sessions
    /\ sessions' = sessions \cup {c}
    /\ UNCHANGED <<now, rate, completed, counters, reported, written>>

\* A session that ends takes its counters with it.
Leave(c) ==
    /\ c \in sessions
    /\ sessions' = sessions \ {c}
    /\ rate' = [rate EXCEPT ![c] = 0]
    /\ completed' = [completed EXCEPT ![c] = 0]
    /\ UNCHANGED <<now, counters, reported, written>>

\* A "stats" command; e is what the session searches, d the miner's best.
Stats(c, e, d, r) ==
    /\ c \in sessions
    /\ best' = [best EXCEPT ![e] = d]
    /\ dated' = [dated EXCEPT ![d] = now]
    /\ rate' = [rate EXCEPT ![c] = r]
    /\ UNCHANGED <<now, sessions, completed, counters, written>>

\* Mutant: the total is brought up to date with the job.
CompletedForJobOnly(c) ==
    /\ c \in sessions
    /\ jobChunks < MaxChunks
    /\ completed' = [completed EXCEPT ![c] = @ + 1]
    /\ jobChunks' = jobChunks + 1
    /\ UNCHANGED <<now, sessions, rate, totalJobs, totalBlocks, totalChunks, reported, written>>

\* A "completed" command, whatever job the chunk is of.
Completed(c) ==
    /\ c \in sessions
    /\ totalChunks < MaxChunks
    /\ completed' = [completed EXCEPT ![c] = @ + 1]
    /\ jobChunks' = jobChunks + 1
    /\ totalChunks' = totalChunks + 1
    /\ UNCHANGED <<now, sessions, rate, totalJobs, totalBlocks, reported, written>>

\* A "found" command, once it is submitted.
Found ==
    /\ sessions # {}
    /\ totalBlocks < MaxBlocks
    /\ totalBlocks' = totalBlocks + 1
    /\ UNCHANGED <<now, clients, totalChunks, jobChunks, totalJobs, reported, written>>

\* A mining.notify with clean_jobs.
NewCleanJob ==
    /\ totalJobs < MaxJobs
    /\ best' = [e \in Extranonce2s |-> 0]
    /\ jobChunks' = 0
    /\ totalJobs' = totalJobs + 1
    /\ UNCHANGED <<now, clients, totalChunks, totalBlocks, dated, written>>

\* The pool is found disconnected: tCurrentJob::Clear, and no counter.
PoolLost ==
    /\ best' = [e \in Extranonce2s |-> 0]
    /\ UNCHANGED <<now, clients, counters, dated, written>>

-------------------------------------------------------------------------------
(***************************************************************************)
(* What is published.                                                      *)
(***************************************************************************)

\* Mutant: the sum is not cut to 32 bits.
HashRateWide == FoldSet(LAMBDA c, sum : sum + rate[c], 0, sessions)

\* The sum over the sessions, in uint32.
HashRate == FoldSet(LAMBDA c, sum : (sum + rate[c]) % Space, 0, sessions)

GetBestDistance == Max({best[e] : e \in Extranonce2s})

\* The head of the block, up to the time entry.
DumpBegins ==
    /\ dump = "idle"
    /\ now - statsEpoch >= 1
    /\ entry' = [epoch |-> now, hash |-> HashRate, distance |-> GetBestDistance]
    /\ dump' = "entry"
    /\ UNCHANGED <<now, counters, clients, reported, timeStats, lastTimeEntry, statsEpoch>>

\* push_back, and erase of the oldest.
Pushed ==
    LET longer == Append(timeStats, entry)
    IN  IF Len(longer) > Ring THEN Tail(longer) ELSE longer

\* The reading of the clock that decides, and the push.
AddTimeEntry ==
    /\ dump = "entry"
    /\ IF now - lastTimeEntry >= Period
       THEN timeStats' = Pushed /\ dump' = "stamp"
       ELSE dump' = "publish" /\ UNCHANGED timeStats
    /\ UNCHANGED <<now, counters, clients, reported, lastTimeEntry, statsEpoch, entry>>

\* The reading of the clock that is stored.
Stamp ==
    /\ dump = "stamp"
    /\ lastTimeEntry' = now
    /\ dump' = "publish"
    /\ UNCHANGED <<now, counters, clients, reported, timeStats, statsEpoch, entry>>

\* stats.json is written from the state as it is.
Publish ==
    /\ dump = "publish"
    /\ statsEpoch' = now
    /\ dump' = "idle"
    /\ entry' = NoEntry
    /\ UNCHANGED <<now, counters, clients, reported, timeStats, lastTimeEntry>>

\* The clock.
Second ==
    /\ now < MaxTime
    /\ dump # "idle" => now = entry.epoch
    /\ now' = now + 1
    /\ UNCHANGED <<counters, clients, reported, written>>

\* One thread: nothing is counted in the middle of a dump.
Counts ==
    /\ dump = "idle"
    /\ \/ \E c \in Clients :
            \/ Accept(c) \/ Leave(c) \/ Completed(c)
            \/ \E e \in Extranonce2s, d \in Distances, r \in Rates : Stats(c, e, d, r)
       \/ Found
       \/ NewCleanJob
       \/ PoolLost

Next == Counts \/ DumpBegins \/ AddTimeEntry \/ Stamp \/ Publish \/ Second

Spec == Init /\ [][Next]_vars

-------------------------------------------------------------------------------
(***************************************************************************)
(* Properties.                                                             *)
(***************************************************************************)

Sum(counter, set) == FoldSet(LAMBDA c, sum : sum + counter[c], 0, set)

\* The counters fit together, although they are reset at different events and
\* sessions take theirs with them.
CountersFit ==
    /\ jobChunks <= totalChunks
    /\ Sum(completed, sessions) <= totalChunks

\* A distance that is shown, now or in the time entries, is in the history of
\* distances, although reports overwrite each other and jobs clear the best.
DistancesAreDated ==
    /\ \A e \in Extranonce2s : best[e] > 0 => dated[best[e]] \in 1 .. now
    /\ \A i \in DOMAIN timeStats :
        timeStats[i].distance > 0 => dated[timeStats[i].distance] \in 1 .. now

\* Time entries are in order and lie a period apart, but for the second that
\* may pass between the three readings of the clock.
EntriesAreSpaced ==
    \A i, j \in DOMAIN timeStats :
        i < j => timeStats[j].epoch - timeStats[i].epoch >= (j - i) * Period - 1

\* Whenever stats.json is written, what it says is consistent.
PublishedIsConsistent ==
    dump = "publish" => CountersFit /\ DistancesAreDated /\ EntriesAreSpaced

-------------------------------------------------------------------------------
(***************************************************************************)
(* The inductive invariant.                                                *)
(***************************************************************************)

\* The entry of a dump under way.
EntryFits ==
    /\ entry.distance > 0 => dated[entry.distance] \in 1 .. now
    /\ dump # "idle" => entry.epoch \in {now - 1, now}

\* The clock has moved a period on for each of the entries after the i-th,
\* counted from the reading that decided on the newest or a later one: what
\* the second that may pass within a dump adds is not carried on.
ClockKeepsAhead ==
    LET reading == IF dump = "stamp" THEN now ELSE lastTimeEntry IN
    \A i \in DOMAIN timeStats :
        reading - timeStats[i].epoch >= (Len(timeStats) - i) * Period

StatInv ==
    /\ TypeOK
    /\ IsFiniteSet(sessions)
    /\ \A c \in Clients \ sessions : completed[c] = 0
    /\ Period <= now
    /\ CountersFit
    /\ DistancesAreDated
    /\ EntryFits
    /\ EntriesAreSpaced
    /\ ClockKeepsAhead
===============================================================================

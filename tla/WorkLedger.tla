------------------------------ MODULE WorkLedger ------------------------------
(***************************************************************************)
(* What the server promises about work, whatever the way it cuts nonces:   *)
(* within one pool job a (extranonce2, nonce) pair is given out once, so   *)
(* two miners never search the same pair of the current job.  The ledger   *)
(* forgets everything when the job changes, and a worker left with a chunk *)
(* of an earlier job holds nothing of the current one.                     *)
(***************************************************************************)
EXTENDS Integers

CONSTANTS
    Workers,        \* the sessions that receive chunks
    Extranonce2s,   \* the extranonce2 values
    Nonces          \* the nonces of one extranonce2, a set of integers

VARIABLES
    ledger,         \* the pairs given out since the current job began
    assigned        \* the pairs of the current job each worker is searching

vars == <<ledger, assigned>>

TypeOK ==
    /\ ledger \subseteq Extranonce2s \X Nonces
    /\ assigned \in [Workers -> SUBSET (Extranonce2s \X Nonces)]

Init ==
    /\ ledger = {}
    /\ assigned = [w \in Workers |-> {}]

\* A worker receives a contiguous chunk nobody received before, in place of
\* whatever it held.
Issue(w) ==
    \E e \in Extranonce2s : \E lo, hi \in Nonces :
        LET chunk == {e} \X (lo .. hi) IN
        /\ lo <= hi
        /\ chunk \cap ledger = {}
        /\ ledger' = ledger \cup chunk
        /\ assigned' = [assigned EXCEPT ![w] = chunk]

\* A worker is done with its chunk, or gone.  The ledger remembers the chunk.
Release(w) ==
    /\ assigned' = [assigned EXCEPT ![w] = {}]
    /\ UNCHANGED ledger

\* The pool's job changed or its connection was lost.
Reset ==
    /\ ledger' = {}
    /\ assigned' = [w \in Workers |-> {}]

Next == Reset \/ \E w \in Workers : Issue(w) \/ Release(w)

Spec == Init /\ [][Next]_vars

\* No two workers search the same pair of the current job.
Exclusive ==
    /\ \A w \in Workers : assigned[w] \subseteq ledger
    /\ \A v, w \in Workers : v # w => assigned[v] \cap assigned[w] = {}
===============================================================================

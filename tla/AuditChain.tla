------------------------------ MODULE AuditChain ------------------------------
(***************************************************************************)
(* One partition of audit_log: rows chained by prev_signature, written by  *)
(* createAuditService().log in one or more API processes.                  *)
(*                                                                         *)
(* Each process queues its writes and hands the signature of the last one  *)
(* to the next in memory; a lock of the database serialises the processes. *)
(* A write opens its own transaction, or is enlisted in its caller's, which *)
(* holds the lock until the caller commits or rolls back.                  *)
(***************************************************************************)
EXTENDS Integers, Sequences

CONSTANTS
    Writes,         \* calls of log(); each gets a signature of its own
    Replicas,       \* API processes
    Genesis,        \* genesisSignature of the partition
    None,           \* no signature in memory, nobody holds the lock
    MaxClock,       \* bound: milliseconds that pass
    MaxFaults       \* bound: failed transactions and crashes

ASSUME AuditConstants ==
    /\ Genesis \notin Writes /\ None \notin Writes /\ None # Genesis
    /\ MaxClock \in Nat /\ MaxFaults \in Nat

VARIABLES
    table,      \* the committed rows, in the order they were committed
    write,      \* where each call stands
    queue,      \* partitionChain: the calls of a process that wait for their turn
    memory,     \* what the last settled call of a process resolved to
    lock,       \* the write whose transaction holds pg_advisory_xact_lock
    clock,      \* new Date()
    faults      \* bound counter

vars == <<table, write, queue, memory, lock, clock, faults>>

\* A call that has not been made.
Unwritten == [pc |-> "new", by |-> None, enlisted |-> FALSE, at |-> 0, prev |-> None]

Sigs == {table[i].sig : i \in DOMAIN table}
Row(w) == [sig |-> w, prev |-> write[w].prev, at |-> write[w].at, by |-> write[w].by]
Goto(w, pc) == write' = [write EXCEPT ![w].pc = pc]

-----------------------------------------------------------------------------
\* log: created_at is taken and the queue is joined in one synchronous step.
Log(w, r, enlisted) ==
    /\ write[w].pc = "new"
    /\ write' = [write EXCEPT ![w] = [pc |-> "queued", by |-> r, enlisted |-> enlisted,
                                      at |-> clock, prev |-> None]]
    /\ queue' = [queue EXCEPT ![r] = Append(@, w)]
    /\ UNCHANGED <<table, memory, lock, clock, faults>>

AtHead(w) == queue[write[w].by] # <<>> /\ Head(queue[write[w].by]) = w

\* writeRow asks for the lock in its transaction once the call before it settled.
TakeLock(w) ==
    /\ write[w].pc = "queued" /\ AtHead(w)
    /\ lock = None
    /\ lock' = w
    /\ Goto(w, "locked")
    /\ UNCHANGED <<table, queue, memory, clock, faults>>

\* The signature of a row with the latest created_at; ids are random, so any of them.
StoredTail ==
    IF table = <<>> THEN {Genesis}
    ELSE {table[i].sig : i \in {j \in DOMAIN table :
                                    \A k \in DOMAIN table : table[k].at <= table[j].at}}

\* Mutant: the table is never asked.
PrevInMemory(w) == {memory[write[w].by]}

Prev(w) ==
    IF memory[write[w].by] # None /\ ~write[w].enlisted
    THEN {memory[write[w].by]} ELSE StoredTail

\* The queue of w's process goes on, with sig as the predecessor of the next write.
Settle(w, sig) ==
    /\ queue' = [queue EXCEPT ![write[w].by] = Tail(@)]
    /\ memory' = [memory EXCEPT ![write[w].by] = sig]

\* Mutant: an enlisted write advances the memory before its caller has committed.
CarriesUncommitted(w) == w

\* What an enlisted write leaves in memory: its row may still be rolled back.
Carries(w) == None

\* The row is inserted under the lock; an enlisted write then leaves the queue.
InsertRow(w) ==
    /\ write[w].pc = "locked"
    /\ \E prev \in Prev(w) :
          write' = [write EXCEPT ![w].pc = "inserted", ![w].prev = prev]
    /\ IF write[w].enlisted THEN Settle(w, Carries(w)) ELSE UNCHANGED <<queue, memory>>
    /\ UNCHANGED <<table, lock, clock, faults>>

Commit(w) ==
    /\ write[w].pc = "inserted"
    /\ table' = Append(table, Row(w))
    /\ lock' = None
    /\ Goto(w, "committed")
    /\ UNCHANGED clock

\* The process's own transaction commits, or the caller's does.
CommitOwn(w) ==
    ~write[w].enlisted /\ Commit(w) /\ Settle(w, w) /\ UNCHANGED faults

CommitCaller(w) ==
    write[w].enlisted /\ Commit(w) /\ UNCHANGED <<queue, memory, faults>>

\* Mutant: the queue keeps what it had when a write fails.
AfterFailureKept(w) == memory[write[w].by]

\* A failed write resolves to null, so that the next one reads the table.
AfterFailure(w) == None

\* The COMMIT reaches the database and its answer does not reach the process.
CommitUnacknowledged(w) ==
    /\ ~write[w].enlisted /\ Commit(w) /\ Settle(w, AfterFailure(w))
    /\ faults < MaxFaults /\ faults' = faults + 1

\* Mutant: a failed transaction keeps the lock.
LockKept(w) == lock

LockAfter(w) == IF lock = w THEN None ELSE lock

Unlock(w) == lock' = LockAfter(w)

\* A statement fails; the transaction is rolled back.
WriteFails(w) ==
    /\ \/ write[w].pc = "locked"
       \/ write[w].pc = "queued" /\ AtHead(w)
       \/ write[w].pc = "inserted" /\ ~write[w].enlisted
    /\ faults < MaxFaults /\ faults' = faults + 1
    /\ Goto(w, "lost") /\ Unlock(w) /\ Settle(w, AfterFailure(w))
    /\ UNCHANGED <<table, clock>>

\* The caller rolls its transaction back, and the row with it.
RollbackCaller(w) ==
    /\ write[w].pc = "inserted" /\ write[w].enlisted
    /\ Goto(w, "lost") /\ Unlock(w)
    /\ UNCHANGED <<table, queue, memory, clock, faults>>

\* A process dies and is started again: its transactions end, its memory is empty.
Open(w) == write[w].pc \in {"queued", "locked", "inserted"}

Crash(r) ==
    /\ faults < MaxFaults /\ faults' = faults + 1
    /\ write' = [w \in Writes |-> IF Open(w) /\ write[w].by = r
                                  THEN [write[w] EXCEPT !.pc = "lost"] ELSE write[w]]
    /\ lock' = IF lock # None /\ write[lock].by = r THEN None ELSE lock
    /\ queue' = [queue EXCEPT ![r] = <<>>]
    /\ memory' = [memory EXCEPT ![r] = None]
    /\ UNCHANGED <<table, clock>>

ClockAdvances ==
    /\ clock < MaxClock
    /\ clock' = clock + 1
    /\ UNCHANGED <<table, write, queue, memory, lock, faults>>

-----------------------------------------------------------------------------
Init ==
    /\ table = <<>>
    /\ write = [w \in Writes |-> Unwritten]
    /\ queue = [r \in Replicas |-> <<>>]
    /\ memory = [r \in Replicas |-> None]
    /\ lock = None /\ clock = 0 /\ faults = 0

\* The steps of a call that go on by themselves.
Proceed(w) ==
    \/ TakeLock(w) \/ InsertRow(w)
    \/ CommitOwn(w) \/ CommitCaller(w) \/ RollbackCaller(w)

Next ==
    \/ \E w \in Writes, r \in Replicas, enlisted \in BOOLEAN : Log(w, r, enlisted)
    \/ \E w \in Writes : Proceed(w) \/ CommitUnacknowledged(w) \/ WriteFails(w)
    \/ \E r \in Replicas : Crash(r)
    \/ ClockAdvances

Spec == Init /\ [][Next]_vars

\* The database grants a free lock to somebody who waits for it, callers finish
\* their transactions and awaited statements return.
FairSpec ==
    /\ Spec
    /\ \A w \in Writes : SF_vars(TakeLock(w)) /\ WF_vars(Proceed(w))

-----------------------------------------------------------------------------
\* verify: from the anchor along byPrev, which keeps the last of the rows with the
\* same predecessor in the order of created_at.
Successors(sig) == {i \in DOMAIN table : table[i].prev = sig}

NextRow(sig) ==
    CHOOSE i \in Successors(sig) : \A j \in Successors(sig) : table[j].at <= table[i].at

\* Mutant: any row whose predecessor exists is passed.
PassedLoose == {i \in DOMAIN table : table[i].prev \in Sigs \cup {Genesis}}

\* The rows the walk comes past: a row names a row that was committed before it.
Passed ==
    LET passed[i \in DOMAIN table] ==
            /\ i = NextRow(table[i].prev)
            /\ \/ table[i].prev = Genesis
               \/ \E j \in 1..(i - 1) : table[j].sig = table[i].prev /\ passed[j]
    IN  {i \in DOMAIN table : passed[i]}

\* The rows verify reports as chain_break.
Breaks == DOMAIN table \ Passed

-----------------------------------------------------------------------------
(***************************************************************************)
(* Properties                                                              *)
(***************************************************************************)
\* Every variable stays in its domain.
TypeOK ==
    /\ table \in Seq([sig : Writes, prev : Writes \cup {Genesis}, at : 0..MaxClock,
                      by : Replicas])
    /\ write \in [Writes -> [pc : {"new", "queued", "locked", "inserted", "committed",
                                   "lost"},
                             by : Replicas \cup {None}, enlisted : BOOLEAN,
                             at : 0..MaxClock, prev : Writes \cup {Genesis, None}]]
    /\ queue \in [Replicas -> Seq(Writes)]
    /\ memory \in [Replicas -> Writes \cup {None}]
    /\ lock \in Writes \cup {None}
    /\ clock \in 0..MaxClock /\ faults \in 0..MaxFaults

\* Each row's predecessor is the row committed before it.
OneChain ==
    \A i \in DOMAIN table :
        table[i].prev = IF i = 1 THEN Genesis ELSE table[i - 1].sig

\* No process writes again after another one has written: a failover, not a fleet.
Handover ==
    \A i, j, k \in DOMAIN table :
        i < j /\ j < k /\ table[i].by = table[k].by => table[j].by = table[i].by

\* created_at grows strictly in the order of the commits.
Dated == \A i, j \in DOMAIN table : i < j => table[i].at < table[j].at

\* The history is one unforked chain, through rolled-back callers, failed and
\* unacknowledged commits, crashes and a failover, as long as one process writes at
\* a time and no two rows carry the same created_at (the queue, the lock and the
\* two ways writeRow finds the predecessor).
ChainUnforked == Handover /\ Dated => OneChain

\* No row, whatever the processes and the clock do, names a predecessor that was
\* rolled back: verify would lose every row after it (ChainStep's nextPrev).
NoPhantomPredecessor ==
    \A i \in DOMAIN table :
        \/ table[i].prev = Genesis
        \/ \E j \in 1..(i - 1) : table[j].sig = table[i].prev

\* verify reports a break exactly when the rows are not one chain, in particular
\* when two of them share a predecessor (byPrev and the unreachable rows).
VerifyDetectsForks == Breaks = {} <=> OneChain

\* A call of log() is answered although others hold the lock or die.
CallsSettle ==
    \A w \in Writes : Open(w) ~> ~Open(w)

(***************************************************************************)
(* Statements of the repository that the code does not keep.               *)
(***************************************************************************)
\* The lock "serializes writers across different processes" so that the rows form
\* one chain (services/audit.ts:230), here with created_at in order.
ChainAcrossProcesses == Dated => OneChain

=============================================================================

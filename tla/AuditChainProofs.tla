--------------------------- MODULE AuditChainProofs ---------------------------
(***************************************************************************)
(* Proofs about AuditChain for every set of writes and processes.          *)
(***************************************************************************)
EXTENDS AuditChain, SequenceTheorems, FiniteSetTheorems, TLAPS

RowType == [sig : Writes, prev : Writes \cup {Genesis}, at : 0..MaxClock, by : Replicas]
WriteType ==
    [pc : {"new", "queued", "locked", "inserted", "committed", "lost"},
     by : Replicas \cup {None}, enlisted : BOOLEAN, at : 0..MaxClock,
     prev : Writes \cup {Genesis, None}]

\* A write that was made has a process; one that is under way holds the lock, and
\* its place in the queue unless it has been enlisted and inserted.
PlaceOK ==
    \A w \in Writes :
        /\ write[w].pc # "new" => write[w].by \in Replicas
        /\ write[w].pc \in {"locked", "inserted"} => lock = w
        /\ write[w].pc = "locked" \/ (write[w].pc = "inserted" /\ ~write[w].enlisted)
              => AtHead(w)

\* What a process keeps in memory, and what an inserted row names, is committed.
KnownOK ==
    /\ \A r \in Replicas : memory[r] # None => memory[r] \in Sigs
    /\ \A w \in Writes : write[w].pc = "inserted" => write[w].prev \in Sigs \cup {Genesis}

Inv == TypeOK /\ PlaceOK /\ KnownOK

LEMMA AppendHead ==
  ASSUME NEW S, NEW q \in Seq(S), NEW x \in S, q # <<>>
  PROVE  Append(q, x) # <<>> /\ Head(Append(q, x)) = Head(q)
<1>1. Len(q) > 0
  BY EmptySeq
<1> QED BY <1>1

LEMMA InitInv == Init => Inv
  BY AuditConstants DEF Init, Inv, TypeOK, PlaceOK, KnownOK, Unwritten, AtHead

LEMMA LogInv ==
  ASSUME Inv, NEW w \in Writes, NEW r \in Replicas, NEW e \in BOOLEAN, Log(w, r, e)
  PROVE  Inv'
<1> USE DEF Log
<1>1. TypeOK'
  <2>1. write' \in [Writes -> WriteType]
    BY AuditConstants DEF Inv, TypeOK, WriteType
  <2>2. queue' \in [Replicas -> Seq(Writes)]
    BY DEF Inv, TypeOK
  <2> QED BY <2>1, <2>2 DEF Inv, TypeOK, WriteType
<1>2. PlaceOK'
  <2> SUFFICES ASSUME NEW v \in Writes
               PROVE  /\ write'[v].pc # "new" => write'[v].by \in Replicas
                      /\ write'[v].pc \in {"locked", "inserted"} => lock' = v
                      /\ write'[v].pc = "locked" \/ (write'[v].pc = "inserted" /\ ~write'[v].enlisted)
                            => AtHead(v)'
    BY DEF PlaceOK
  <2>1. CASE v = w
    BY <2>1 DEF Inv, TypeOK
  <2>2. CASE v # w
    <3>1. write'[v] = write[v]
      BY <2>2 DEF Inv, TypeOK
    <3>2. ASSUME AtHead(v), write[v].by \in Replicas PROVE AtHead(v)'
      <4>1. queue[write[v].by] \in Seq(Writes) /\ queue[write[v].by] # <<>>
        BY <3>2 DEF AtHead, Inv, TypeOK
      <4>2. CASE write[v].by = r
        BY <3>1, <3>2, <4>1, <4>2, AppendHead DEF AtHead, Inv, TypeOK
      <4>3. CASE write[v].by # r
        BY <3>1, <3>2, <4>1, <4>3 DEF AtHead, Inv, TypeOK
      <4> QED BY <4>2, <4>3
    <3> QED BY <3>1, <3>2 DEF Inv, PlaceOK, TypeOK
  <2> QED BY <2>1, <2>2
<1>3. KnownOK'
  BY DEF Inv, TypeOK, KnownOK, Sigs
<1> QED BY <1>1, <1>2, <1>3 DEF Inv

LEMMA TakeLockInv ==
  ASSUME Inv, NEW w \in Writes, TakeLock(w) PROVE Inv'
<1> USE DEF TakeLock, Goto
<1>1. TypeOK'
  BY DEF Inv, TypeOK
<1>2. PlaceOK'
  <2>1. \A v \in Writes : v # w => write[v].pc \notin {"locked", "inserted"}
    BY AuditConstants DEF Inv, PlaceOK
  <2> QED BY <2>1 DEF Inv, TypeOK, PlaceOK, AtHead
<1>3. KnownOK'
  BY DEF Inv, TypeOK, KnownOK, Sigs
<1> QED BY <1>1, <1>2, <1>3 DEF Inv

\* When a write that is first in its queue is settled, whoever else is first stays so.
LEMMA SettleHead ==
  ASSUME Inv, NEW w \in Writes, NEW sig, Settle(w, sig), AtHead(w), write[w].by \in Replicas,
         NEW v \in Writes, v # w, AtHead(v), write[v].by \in Replicas,
         write'[v] = write[v]
  PROVE  AtHead(v)'
<1>1. write[v].by # write[w].by
  BY DEF AtHead
<1> QED BY <1>1 DEF AtHead, Settle, Inv, TypeOK

LEMMA SettleType ==
  ASSUME Inv, NEW w \in Writes, NEW sig \in Writes \cup {None}, Settle(w, sig), AtHead(w),
         write[w].by \in Replicas
  PROVE  queue' \in [Replicas -> Seq(Writes)] /\ memory' \in [Replicas -> Writes \cup {None}]
<1>1. Tail(queue[write[w].by]) \in Seq(Writes)
  BY HeadTailProperties DEF AtHead, Inv, TypeOK
<1> QED BY <1>1 DEF Settle, Inv, TypeOK

LEMMA PrevType ==
  ASSUME Inv, NEW w \in Writes, write[w].by \in Replicas, NEW prev \in Prev(w)
  PROVE  prev \in Sigs \cup {Genesis}
  BY DEF Prev, StoredTail, Sigs, Inv, KnownOK

LEMMA SigsType == Inv => Sigs \subseteq Writes
<1> SUFFICES ASSUME Inv, NEW i \in DOMAIN table PROVE table[i].sig \in Writes
  BY DEF Sigs
<1>1. table \in Seq(RowType)
  BY DEF Inv, TypeOK, RowType
<1>2. i \in 1..Len(table)
  BY <1>1, LenProperties
<1>3. table[i] \in RowType
  BY <1>1, <1>2, ElementOfSeq
<1> QED BY <1>3 DEF RowType

LEMMA InsertRowInv ==
  ASSUME Inv, NEW w \in Writes, InsertRow(w) PROVE Inv'
<1>1. PICK prev \in Prev(w) :
         write' = [write EXCEPT ![w].pc = "inserted", ![w].prev = prev]
  BY DEF InsertRow
<1>2. /\ write[w].pc = "locked" /\ write[w].by \in Replicas /\ AtHead(w) /\ lock = w
      /\ UNCHANGED <<table, lock, clock, faults>>
  BY DEF InsertRow, Inv, PlaceOK
<1>3. prev \in Sigs \cup {Genesis} /\ prev \in Writes \cup {Genesis}
  BY <1>2, PrevType, SigsType
<1>4. /\ write'[w] = [write[w] EXCEPT !.pc = "inserted", !.prev = prev]
      /\ \A v \in Writes : v # w => write'[v] = write[v]
  BY <1>1 DEF Inv, TypeOK
<1>5. TypeOK'
  <2>1. write' \in [Writes -> WriteType]
    BY <1>1, <1>3 DEF Inv, TypeOK, WriteType
  <2>2. queue' \in [Replicas -> Seq(Writes)] /\ memory' \in [Replicas -> Writes \cup {None}]
    BY <1>2, SettleType DEF InsertRow, Carries, Inv, TypeOK
  <2> QED BY <1>2, <2>1, <2>2 DEF Inv, TypeOK, WriteType
<1>6. PlaceOK'
  <2>1. ~write[w].enlisted => AtHead(w)'
    BY <1>2, <1>4 DEF InsertRow, AtHead, Inv, TypeOK
  <2>3. /\ write'[w].pc = "inserted" /\ write'[w].by = write[w].by
        /\ write'[w].enlisted = write[w].enlisted
    BY <1>4 DEF Inv, TypeOK
  <2>4. /\ write'[w].pc # "new" => write'[w].by \in Replicas
        /\ lock' = w
        /\ ~write'[w].enlisted => AtHead(w)'
    BY <1>2, <2>1, <2>3
  <2>5. ASSUME NEW v \in Writes, v # w
        PROVE  /\ write'[v].pc # "new" => write'[v].by \in Replicas
               /\ write'[v].pc \notin {"locked", "inserted"}
    BY <1>2, <1>4, <2>5 DEF Inv, PlaceOK
  <2> QED BY <1>2, <2>3, <2>4, <2>5 DEF PlaceOK
<1>7. KnownOK'
  <2>1. \A r \in Replicas : memory'[r] # None => memory'[r] = memory[r]
    BY <1>2 DEF InsertRow, Settle, Carries, Inv, TypeOK
  <2>2. Sigs' = Sigs
    BY <1>2 DEF Sigs
  <2>3. write'[w].prev = prev
    BY <1>4 DEF Inv, TypeOK
  <2> QED BY <1>3, <1>4, <2>1, <2>2, <2>3 DEF Inv, KnownOK
<1> QED BY <1>5, <1>6, <1>7 DEF Inv

\* A commit adds the row at the end of the table.
LEMMA CommitTable ==
  ASSUME Inv, NEW w \in Writes, Commit(w)
  PROVE  /\ Row(w) \in RowType /\ table' \in Seq(RowType)
         /\ Len(table') = Len(table) + 1
         /\ \A i \in DOMAIN table : table'[i] = table[i]
         /\ table'[Len(table) + 1] = Row(w)
         /\ DOMAIN table = 1..Len(table) /\ DOMAIN table' = 1..(Len(table) + 1)
         /\ Sigs' = Sigs \cup {w}
<1>1. write[w].pc = "inserted" /\ table' = Append(table, Row(w)) /\ table \in Seq(RowType)
  BY DEF Commit, Inv, TypeOK, RowType
<1>2. Row(w) \in RowType
  BY <1>1, SigsType DEF Row, RowType, Inv, TypeOK, PlaceOK, KnownOK
<1>3. /\ table' \in Seq(RowType) /\ Len(table') = Len(table) + 1
      /\ \A i \in 1..Len(table) : table'[i] = table[i]
      /\ table'[Len(table) + 1] = Row(w)
  BY <1>1, <1>2, AppendProperties
<1>4. DOMAIN table = 1..Len(table) /\ DOMAIN table' = 1..(Len(table) + 1)
  BY <1>1, <1>3, LenProperties
<1>5. Sigs' = Sigs \cup {w}
  <2>1. Len(table) \in Nat
    BY <1>1, LenProperties
  <2>2. \A i \in DOMAIN table' : i \in DOMAIN table \/ i = Len(table) + 1
    BY <1>4, <2>1
  <2>3. \A i \in DOMAIN table : i \in DOMAIN table'
    BY <1>4, <2>1
  <2>4. Len(table) + 1 \in DOMAIN table' /\ Row(w).sig = w
    BY <1>4, <2>1 DEF Row
  <2> QED BY <1>3, <1>4, <2>2, <2>3, <2>4 DEF Sigs
<1> QED BY <1>2, <1>3, <1>4, <1>5

LEMMA CommitPlace ==
  ASSUME Inv, NEW w \in Writes, Commit(w)
  PROVE  /\ write' \in [Writes -> WriteType] /\ lock' = None /\ clock' = clock
         /\ write'[w].pc = "committed" /\ write'[w].by = write[w].by
         /\ \A v \in Writes : v # w => /\ write'[v] = write[v]
                                       /\ write'[v].pc \notin {"locked", "inserted"}
  BY AuditConstants DEF Commit, Goto, Inv, TypeOK, PlaceOK, WriteType

LEMMA OwnCommitInv ==
  ASSUME Inv, NEW w \in Writes, ~write[w].enlisted, NEW sig \in {w, None},
         Commit(w), Settle(w, sig), faults' \in 0..MaxFaults
  PROVE  Inv'
<1>1. write[w].pc = "inserted" /\ write[w].by \in Replicas /\ AtHead(w)
  BY DEF Commit, Inv, PlaceOK
<1>2. TypeOK'
  BY <1>1, CommitTable, CommitPlace, SettleType DEF Inv, TypeOK, RowType, WriteType
<1>3. PlaceOK'
  BY <1>1, CommitPlace DEF Inv, PlaceOK
<1>4. KnownOK'
  BY <1>1, CommitTable, CommitPlace DEF Settle, Inv, TypeOK, KnownOK
<1> QED BY <1>2, <1>3, <1>4 DEF Inv

LEMMA CommitCallerInv ==
  ASSUME Inv, NEW w \in Writes, CommitCaller(w) PROVE Inv'
<1>1. Commit(w) /\ UNCHANGED <<queue, memory, faults>>
  BY DEF CommitCaller
<1>2. TypeOK'
  BY <1>1, CommitTable, CommitPlace DEF Inv, TypeOK, RowType, WriteType
<1>3. PlaceOK'
  BY <1>1, CommitPlace DEF Inv, PlaceOK, Commit
<1>4. KnownOK'
  BY <1>1, CommitTable, CommitPlace DEF Inv, TypeOK, KnownOK
<1> QED BY <1>2, <1>3, <1>4 DEF Inv

LEMMA WriteFailsInv ==
  ASSUME Inv, NEW w \in Writes, WriteFails(w) PROVE Inv'
<1>1. write[w].by \in Replicas /\ AtHead(w) /\ Settle(w, None)
  BY DEF WriteFails, AfterFailure, Inv, PlaceOK
<1>2. /\ write'[w] = [write[w] EXCEPT !.pc = "lost"]
      /\ \A v \in Writes : v # w => write'[v] = write[v]
      /\ UNCHANGED <<table, clock>> /\ lock' = IF lock = w THEN None ELSE lock
  BY DEF WriteFails, Goto, Unlock, LockAfter, Inv, TypeOK
<1>3. TypeOK'
  <2>1. write' \in [Writes -> WriteType] /\ faults' \in 0..MaxFaults
    <3>1. write' = [write EXCEPT ![w].pc = "lost"] /\ faults < MaxFaults /\ faults' = faults + 1
      BY DEF WriteFails, Goto
    <3>2. write' \in [Writes -> WriteType]
      BY <3>1 DEF Inv, TypeOK, WriteType
    <3>3. faults' \in 0..MaxFaults
      BY <3>1, AuditConstants DEF Inv, TypeOK
    <3> QED BY <3>2, <3>3
  <2> QED BY <1>1, <1>2, <2>1, SettleType DEF Inv, TypeOK, WriteType
<1>4. PlaceOK'
  BY <1>1, <1>2, SettleHead DEF Inv, TypeOK, PlaceOK
<1>5. KnownOK'
  <2>1. \A r \in Replicas : memory'[r] # None => memory'[r] = memory[r]
    BY <1>1 DEF Settle, Inv, TypeOK
  <2>2. Sigs' = Sigs
    BY <1>2 DEF Sigs
  <2>3. write'[w].pc = "lost"
    BY <1>2 DEF Inv, TypeOK
  <2> QED BY <1>2, <2>1, <2>2, <2>3 DEF Inv, KnownOK
<1> QED BY <1>3, <1>4, <1>5 DEF Inv

LEMMA RollbackCallerInv ==
  ASSUME Inv, NEW w \in Writes, RollbackCaller(w) PROVE Inv'
<1>1. /\ write'[w] = [write[w] EXCEPT !.pc = "lost"]
      /\ \A v \in Writes : v # w => write'[v] = write[v]
  BY DEF RollbackCaller, Goto, Inv, TypeOK
<1>2. TypeOK'
  BY DEF RollbackCaller, Goto, Unlock, LockAfter, Inv, TypeOK
<1>3. write'[w].pc = "lost" /\ write'[w].by = write[w].by
  BY <1>1 DEF Inv, TypeOK
<1>4. /\ write[w].pc = "inserted" /\ UNCHANGED <<table, queue, memory>>
      /\ lock' = IF lock = w THEN None ELSE lock
  BY DEF RollbackCaller, Unlock, LockAfter
<1>5. PlaceOK'
  BY <1>1, <1>3, <1>4 DEF AtHead, Inv, PlaceOK
<1>6. KnownOK'
  <2>1. Sigs' = Sigs
    BY <1>4 DEF Sigs
  <2> QED BY <1>1, <1>3, <1>4, <2>1 DEF Inv, KnownOK
<1> QED BY <1>2, <1>5, <1>6 DEF Inv

LEMMA CrashInv ==
  ASSUME Inv, NEW r \in Replicas, Crash(r) PROVE Inv'
<1>1. \A v \in Writes :
         write'[v] = IF Open(v) /\ write[v].by = r THEN [write[v] EXCEPT !.pc = "lost"]
                     ELSE write[v]
  BY DEF Crash
<1>2. TypeOK'
  <2>1. write' \in [Writes -> WriteType]
    BY DEF Crash, Inv, TypeOK, WriteType
  <2>2. queue' \in [Replicas -> Seq(Writes)]
    BY EmptySeq DEF Crash, Inv, TypeOK
  <2>3. memory' \in [Replicas -> Writes \cup {None}] /\ lock' \in Writes \cup {None}
    BY DEF Crash, Inv, TypeOK
  <2>4. faults' \in 0..MaxFaults /\ UNCHANGED <<table, clock>>
    <3>1. faults < MaxFaults /\ faults' = faults + 1 /\ UNCHANGED <<table, clock>>
      BY DEF Crash
    <3> QED BY <3>1, AuditConstants DEF Inv, TypeOK
  <2> QED BY <2>1, <2>2, <2>3, <2>4 DEF Inv, TypeOK, WriteType
<1>3. PlaceOK'
  <2> SUFFICES ASSUME NEW v \in Writes
               PROVE  /\ write'[v].pc # "new" => write'[v].by \in Replicas
                      /\ write'[v].pc \in {"locked", "inserted"} => lock' = v
                      /\ write'[v].pc = "locked" \/ (write'[v].pc = "inserted" /\ ~write'[v].enlisted)
                            => AtHead(v)'
    BY DEF PlaceOK
  <2>1. CASE Open(v) /\ write[v].by = r
    BY <1>1, <2>1 DEF Open, Inv, TypeOK, PlaceOK
  <2>2. CASE Open(v) /\ write[v].by # r
    BY <1>1, <2>2 DEF Open, Crash, AtHead, Inv, TypeOK, PlaceOK
  <2>3. CASE ~Open(v)
    BY <1>1, <2>3 DEF Open, Inv, TypeOK, PlaceOK
  <2> QED BY <2>1, <2>2, <2>3
<1>4. KnownOK'
  BY <1>1 DEF Crash, Open, Inv, TypeOK, KnownOK, Sigs
<1> QED BY <1>2, <1>3, <1>4 DEF Inv

LEMMA NextInv == Inv /\ [Next]_vars => Inv'
<1> SUFFICES ASSUME Inv, [Next]_vars PROVE Inv'
  OBVIOUS
<1>1. ASSUME NEW w \in Writes, NEW r \in Replicas, NEW e \in BOOLEAN, Log(w, r, e)
      PROVE  Inv'
  BY <1>1, LogInv
<1>2. ASSUME NEW w \in Writes, Proceed(w) PROVE Inv'
  <2>1. CASE TakeLock(w)
    BY <2>1, TakeLockInv
  <2>2. CASE InsertRow(w)
    BY <2>2, InsertRowInv
  <2>3. CASE CommitOwn(w)
    BY <2>3, OwnCommitInv DEF CommitOwn, Inv, TypeOK
  <2>4. CASE CommitCaller(w)
    BY <2>4, CommitCallerInv
  <2>5. CASE RollbackCaller(w)
    BY <2>5, RollbackCallerInv
  <2> QED BY <1>2, <2>1, <2>2, <2>3, <2>4, <2>5 DEF Proceed
<1>3. ASSUME NEW w \in Writes, CommitUnacknowledged(w) PROVE Inv'
  <2>1. faults' \in 0..MaxFaults
    BY <1>3, AuditConstants DEF CommitUnacknowledged, Inv, TypeOK
  <2> QED BY <1>3, <2>1, OwnCommitInv DEF CommitUnacknowledged, AfterFailure
<1>4. ASSUME NEW w \in Writes, WriteFails(w) PROVE Inv'
  BY <1>4, WriteFailsInv
<1>5. ASSUME NEW r \in Replicas, Crash(r) PROVE Inv'
  BY <1>5, CrashInv
<1>6. CASE ClockAdvances
  BY <1>6, AuditConstants DEF ClockAdvances, Inv, TypeOK, PlaceOK, KnownOK, AtHead, Sigs
<1>7. CASE UNCHANGED vars
  BY <1>7 DEF vars, Inv, TypeOK, PlaceOK, KnownOK, AtHead, Sigs
<1> QED BY <1>1, <1>2, <1>3, <1>4, <1>5, <1>6, <1>7 DEF Next

\* Every variable stays in its domain, for any writes, processes and faults.
THEOREM TypeCorrect == Spec => []TypeOK
<1>1. Spec => []Inv
  BY InitInv, NextInv, PTL DEF Spec
<1>2. Inv => TypeOK
  BY DEF Inv
<1> QED BY <1>1, <1>2, PTL

-----------------------------------------------------------------------------
\* The table only grows, by one row whose predecessor was read from it.
LEMMA TableGrows ==
  ASSUME Inv, [Next]_vars
  PROVE  table' = table \/ \E w \in Writes : Commit(w)
  BY DEF Next, vars, Log, Proceed, TakeLock, InsertRow, CommitOwn, CommitCaller,
         RollbackCaller, CommitUnacknowledged, WriteFails, Crash, ClockAdvances

\* No row names a predecessor that was rolled back, whatever the processes, their
\* callers and the clock do (Carries, Settle and the two ways Prev finds it).
THEOREM PredecessorsCommitted == Spec => []NoPhantomPredecessor
<1>1. Init => NoPhantomPredecessor
  BY DEF Init, NoPhantomPredecessor
<1>2. Inv /\ NoPhantomPredecessor /\ [Next]_vars => NoPhantomPredecessor'
  <2> SUFFICES ASSUME Inv, NoPhantomPredecessor, [Next]_vars PROVE NoPhantomPredecessor'
    OBVIOUS
  <2>1. CASE table' = table
    BY <2>1 DEF NoPhantomPredecessor
  <2>2. ASSUME NEW w \in Writes, Commit(w) PROVE NoPhantomPredecessor'
    <3> SUFFICES ASSUME NEW i \in DOMAIN table'
                 PROVE  \/ table'[i].prev = Genesis
                        \/ \E j \in 1..(i - 1) : table'[j].sig = table'[i].prev
      BY DEF NoPhantomPredecessor
    <3>1. /\ \A k \in DOMAIN table : table'[k] = table[k]
          /\ table'[Len(table) + 1] = Row(w)
          /\ DOMAIN table = 1..Len(table) /\ DOMAIN table' = 1..(Len(table) + 1)
      BY <2>2, CommitTable
    <3>2. Len(table) \in Nat
      BY LenProperties DEF Inv, TypeOK
    <3>3. CASE i \in DOMAIN table
      BY <3>1, <3>2, <3>3 DEF NoPhantomPredecessor
    <3>4. CASE i = Len(table) + 1
      <4>1. table'[i].prev \in Sigs \cup {Genesis}
        BY <2>2, <3>1, <3>4 DEF Row, Commit, Inv, KnownOK
      <4>2. CASE table'[i].prev \in Sigs
        <5>1. PICK j \in DOMAIN table : table[j].sig = table'[i].prev
          BY <4>2 DEF Sigs
        <5>2. j \in 1..(i - 1) /\ table'[j].sig = table'[i].prev
          BY <3>1, <3>2, <3>4, <5>1
        <5> QED BY <5>2
      <4> QED BY <4>1, <4>2
    <3> QED BY <3>1, <3>2, <3>3, <3>4
  <2> QED BY <2>1, <2>2, TableGrows
<1> QED BY <1>1, <1>2, InitInv, NextInv, PTL DEF Spec

-----------------------------------------------------------------------------
\* Row i is the last one that process r has written.
LastOf(r, i) == table[i].by = r /\ \A k \in DOMAIN table : i < k => table[k].by # r

\* A process remembers the last row it wrote, and nothing while one of its enlisted
\* writes is undecided.
MemoryOK ==
    /\ \A r \in Replicas : memory[r] # None =>
          \E i \in DOMAIN table : LastOf(r, i) /\ table[i].sig = memory[r]
    /\ \A w \in Writes : write[w].pc = "inserted" /\ write[w].enlisted =>
          memory[write[w].by] = None

\* What row w names as its predecessor, under the lock that keeps the table as it is.
Justified(w) ==
    \/ write[w].prev \in StoredTail
    \/ \E i \in DOMAIN table : LastOf(write[w].by, i) /\ table[i].sig = write[w].prev

PrevOK == \A w \in Writes : write[w].pc = "inserted" => Justified(w)

ChainInv == ChainUnforked /\ MemoryOK /\ PrevOK

\* Steps that insert nothing, commit nothing and remember nothing new.
LEMMA QuietStep ==
  ASSUME ChainInv, table' = table,
         \A r \in Replicas : memory'[r] \in {memory[r], None},
         \A v \in Writes : write'[v].pc = "inserted" => write'[v] = write[v],
         \A v \in Writes : write[v].pc = "inserted" => write[v].by \in Replicas
  PROVE  ChainInv'
<1>1. ChainUnforked'
  BY DEF ChainInv, ChainUnforked, Handover, Dated, OneChain
<1>2. StoredTail' = StoredTail
  BY DEF StoredTail
<1>3. MemoryOK'
  BY DEF ChainInv, MemoryOK, LastOf
<1>4. PrevOK'
  <2> SUFFICES ASSUME NEW v \in Writes, write'[v].pc = "inserted" PROVE Justified(v)'
    BY DEF PrevOK
  <2> QED BY <1>2 DEF ChainInv, PrevOK, Justified, LastOf
<1> QED BY <1>1, <1>3, <1>4 DEF ChainInv

LEMMA InsertRowChain ==
  ASSUME Inv, ChainInv, NEW w \in Writes, InsertRow(w) PROVE ChainInv'
<1>1. PICK prev \in Prev(w) :
         write' = [write EXCEPT ![w].pc = "inserted", ![w].prev = prev]
  BY DEF InsertRow
<1>2. /\ write[w].pc = "locked" /\ write[w].by \in Replicas /\ lock = w
      /\ UNCHANGED <<table, lock>>
  BY DEF InsertRow, Inv, PlaceOK
<1>3. /\ write'[w].pc = "inserted" /\ write'[w].prev = prev
      /\ write'[w].by = write[w].by /\ write'[w].enlisted = write[w].enlisted
      /\ \A v \in Writes : v # w => write'[v] = write[v]
  BY <1>1 DEF Inv, TypeOK
<1>4. \A v \in Writes : v # w => write'[v].pc # "inserted"
  BY <1>2, <1>3 DEF Inv, PlaceOK
<1>5. /\ \A r \in Replicas : memory'[r] \in {memory[r], None}
      /\ write[w].enlisted => memory'[write[w].by] = None
  BY <1>2 DEF InsertRow, Settle, Carries, Inv, TypeOK
<1>6. StoredTail' = StoredTail /\ \A r, i : LastOf(r, i)' <=> LastOf(r, i)
  BY <1>2 DEF StoredTail, LastOf
<1>7. ChainUnforked'
  BY <1>2 DEF ChainInv, ChainUnforked, Handover, Dated, OneChain
<1>8. MemoryOK'
  <2>1. ASSUME NEW r \in Replicas, memory'[r] # None
        PROVE  \E i \in DOMAIN table' : LastOf(r, i)' /\ table'[i].sig = memory'[r]
    BY <1>2, <1>5, <2>1 DEF ChainInv, MemoryOK, LastOf
  <2>2. ASSUME NEW v \in Writes, write'[v].pc = "inserted", write'[v].enlisted
        PROVE  memory'[write'[v].by] = None
    BY <1>3, <1>4, <1>5, <2>2
  <2> QED BY <2>1, <2>2 DEF MemoryOK
<1>9. Justified(w)'
  <2>1. CASE prev \in StoredTail
    BY <1>3, <1>6, <2>1 DEF Justified
  <2>2. CASE memory[write[w].by] # None /\ prev = memory[write[w].by]
    <3>1. PICK i \in DOMAIN table : LastOf(write[w].by, i) /\ table[i].sig = prev
      BY <1>2, <2>2 DEF ChainInv, MemoryOK
    <3>2. i \in DOMAIN table' /\ LastOf(write[w].by, i)' /\ table'[i].sig = write'[w].prev
      BY <1>2, <1>3, <3>1 DEF LastOf
    <3> QED BY <1>3, <3>2 DEF Justified, LastOf
  <2> QED BY <2>1, <2>2 DEF Prev
<1> QED BY <1>4, <1>7, <1>8, <1>9 DEF ChainInv, PrevOK

\* The row that is committed continues the chain, if the history with it is one of
\* processes that take over from each other, in the order of created_at.
LEMMA CommitChain ==
  ASSUME Inv, ChainInv, NEW w \in Writes, Commit(w) PROVE ChainUnforked'
<1> DEFINE n == Len(table)
<1>1. /\ \A k \in DOMAIN table : table'[k] = table[k]
      /\ table'[n + 1] = Row(w)
      /\ DOMAIN table = 1..n /\ DOMAIN table' = 1..(n + 1)
      /\ table' \in Seq(RowType) /\ table \in Seq(RowType)
  BY CommitTable DEF Inv, TypeOK, RowType
<1>2. n \in Nat
  BY LenProperties DEF Inv, TypeOK
<1>3. \A k \in DOMAIN table : k \in DOMAIN table' /\ k \in Int /\ k < n + 1
  BY <1>1, <1>2
<1>4. n + 1 \in DOMAIN table'
  BY <1>1, <1>2
<1> HIDE DEF n
<1> SUFFICES ASSUME Handover', Dated' PROVE OneChain'
  BY DEF ChainUnforked
<1>5. Handover /\ Dated
  BY <1>1, <1>3 DEF Handover, Dated
<1>6. OneChain
  BY <1>5 DEF ChainInv, ChainUnforked
<1>7. Justified(w) /\ Row(w).prev = write[w].prev /\ Row(w).by = write[w].by
  BY DEF Commit, ChainInv, PrevOK, Row
<1>8. write[w].prev = IF n = 0 THEN Genesis ELSE table[n].sig
  <2>1. CASE n = 0
    <3>1. table = <<>>
      BY <1>1, <2>1, EmptySeq DEF n
    <3>2. DOMAIN table = {}
      BY <1>1, <2>1
    <3> QED BY <1>7, <2>1, <3>1, <3>2 DEF Justified, StoredTail
  <2>2. CASE n # 0 /\ write[w].prev \in StoredTail
    <3>1. table # <<>>
      BY <1>1, <2>2, EmptySeq DEF n
    <3>2. PICK i \in DOMAIN table :
             table[i].sig = write[w].prev /\ \A k \in DOMAIN table : table[k].at <= table[i].at
      BY <2>2, <3>1 DEF StoredTail
    <3>3. n \in DOMAIN table /\ i \in 1..n
      BY <1>1, <1>2, <2>2
    <3>4. table[i] \in RowType /\ table[n] \in RowType
      BY <1>1, <3>3, ElementOfSeq DEF n
    <3>5. ~(i < n)
      <4>1. table[i].at \in Int /\ table[n].at \in Int
        BY <3>4, AuditConstants DEF RowType
      <4> QED BY <1>5, <3>2, <3>3, <4>1 DEF Dated
    <3> QED BY <1>2, <2>2, <3>2, <3>3, <3>5
  <2>3. ASSUME n # 0, NEW i \in DOMAIN table, LastOf(write[w].by, i),
               table[i].sig = write[w].prev
        PROVE  write[w].prev = table[n].sig
    <3>1. n \in DOMAIN table /\ i \in 1..n
      BY <1>1, <1>2, <2>3
    <3>2. ~(i < n)
      <4> SUFFICES ASSUME i < n PROVE FALSE
        OBVIOUS
      <4>1. table[n].by # write[w].by
        BY <2>3, <3>1 DEF LastOf
      <4>2. n < n + 1 /\ table'[i].by = table'[n + 1].by
        BY <1>1, <1>2, <1>7, <2>3 DEF LastOf
      <4>3. table'[n].by = table'[i].by
        BY <1>3, <1>4, <3>1, <4>2 DEF Handover
      <4> QED BY <1>1, <2>3, <3>1, <4>1, <4>3 DEF LastOf
    <3> QED BY <1>2, <2>3, <3>1, <3>2
  <2> QED BY <1>7, <2>1, <2>2, <2>3 DEF Justified
<1>9. SUFFICES ASSUME NEW i \in DOMAIN table'
               PROVE  table'[i].prev = IF i = 1 THEN Genesis ELSE table'[i - 1].sig
  BY DEF OneChain
<1>10. CASE i \in DOMAIN table
  <2>1. i # 1 => i - 1 \in DOMAIN table
    BY <1>1, <1>2, <1>10
  <2> QED BY <1>1, <1>6, <1>10, <2>1 DEF OneChain
<1>11. CASE i = n + 1
  <2>1. i # 1 => n \in DOMAIN table /\ i - 1 = n
    BY <1>1, <1>2, <1>11
  <2>2. i = 1 <=> n = 0
    BY <1>2, <1>11
  <2> QED BY <1>1, <1>7, <1>8, <1>11, <2>1, <2>2
<1> QED BY <1>1, <1>2, <1>10, <1>11

LEMMA CommitMemory ==
  ASSUME Inv, ChainInv, NEW w \in Writes, Commit(w),
         \A r \in Replicas : \/ r # write[w].by /\ memory'[r] = memory[r]
                             \/ r = write[w].by /\ memory'[r] \in {w, None}
  PROVE  MemoryOK' /\ PrevOK'
<1> DEFINE n == Len(table)
<1>1. /\ \A k \in DOMAIN table : table'[k] = table[k]
      /\ table'[n + 1] = Row(w)
      /\ DOMAIN table = 1..n /\ DOMAIN table' = 1..(n + 1)
  BY CommitTable
<1>2. n \in Nat
  BY LenProperties DEF Inv, TypeOK
<1>3. \A v \in Writes : write'[v].pc # "inserted"
  BY CommitPlace
<1>4. ASSUME NEW r \in Replicas, memory'[r] # None
      PROVE  \E i \in DOMAIN table' : LastOf(r, i)' /\ table'[i].sig = memory'[r]
  <2>1. CASE r # write[w].by
    <3>1. PICK i \in DOMAIN table : LastOf(r, i) /\ table[i].sig = memory[r]
      BY <1>4, <2>1 DEF ChainInv, MemoryOK
    <3>2. \A k \in DOMAIN table' : k \in DOMAIN table \/ k = n + 1
      BY <1>1, <1>2
    <3>3. table'[n + 1].by # r
      BY <1>1, <2>1 DEF Row
    <3>4. LastOf(r, i)'
      BY <1>1, <3>1, <3>2, <3>3 DEF LastOf
    <3> QED BY <1>1, <1>2, <2>1, <3>1, <3>4
  <2>2. CASE r = write[w].by
    <3>1. PICK m \in DOMAIN table' : m = n + 1 /\ \A k \in DOMAIN table' : ~(m < k)
      BY <1>1, <1>2
    <3>2. LastOf(r, m)' /\ table'[m].sig = memory'[r]
      BY <1>1, <1>4, <2>2, <3>1 DEF LastOf, Row
    <3> QED BY <3>2
  <2> QED BY <2>1, <2>2
<1> QED BY <1>3, <1>4 DEF MemoryOK, PrevOK

LEMMA ChainStep ==
  ASSUME Inv, ChainInv, [Next]_vars PROVE ChainInv'
<1>0. \A v \in Writes : write[v].pc = "inserted" => write[v].by \in Replicas
  BY DEF Inv, PlaceOK
<1>1. ASSUME NEW w \in Writes, NEW r \in Replicas, NEW e \in BOOLEAN, Log(w, r, e)
      PROVE  ChainInv'
  BY <1>0, <1>1, QuietStep DEF Log, Inv, TypeOK
<1>2. ASSUME NEW w \in Writes, TakeLock(w) PROVE ChainInv'
  BY <1>0, <1>2, QuietStep DEF TakeLock, Goto, Inv, TypeOK
<1>3. ASSUME NEW w \in Writes, InsertRow(w) PROVE ChainInv'
  BY <1>3, InsertRowChain
<1>4. ASSUME NEW w \in Writes, NEW sig \in {w, None}, Commit(w), Settle(w, sig)
      PROVE  ChainInv'
  <2>1. \A r \in Replicas : \/ r # write[w].by /\ memory'[r] = memory[r]
                            \/ r = write[w].by /\ memory'[r] \in {w, None}
    BY <1>4 DEF Settle, Inv, TypeOK
  <2> QED BY <1>4, <2>1, CommitChain, CommitMemory DEF ChainInv
<1>5. ASSUME NEW w \in Writes, CommitCaller(w) PROVE ChainInv'
  <2>1. Commit(w) /\ write[w].pc = "inserted" /\ write[w].enlisted /\ memory' = memory
    BY <1>5 DEF CommitCaller, Commit
  <2>2. \A r \in Replicas : \/ r # write[w].by /\ memory'[r] = memory[r]
                            \/ r = write[w].by /\ memory'[r] \in {w, None}
    BY <2>1 DEF ChainInv, MemoryOK
  <2> QED BY <2>1, <2>2, CommitChain, CommitMemory DEF ChainInv
<1>6. ASSUME NEW w \in Writes, WriteFails(w) PROVE ChainInv'
  <2>1. table' = table /\ write' = [write EXCEPT ![w].pc = "lost"] /\ Settle(w, None)
    BY <1>6 DEF WriteFails, Goto, AfterFailure
  <2> QED BY <1>0, <2>1, QuietStep DEF Settle, Inv, TypeOK
<1>7. ASSUME NEW w \in Writes, RollbackCaller(w) PROVE ChainInv'
  BY <1>0, <1>7, QuietStep DEF RollbackCaller, Goto, Inv, TypeOK
<1>8. ASSUME NEW r \in Replicas, Crash(r) PROVE ChainInv'
  <2>1. \A v \in Writes : write'[v].pc = "inserted" => write'[v] = write[v]
    BY <1>8 DEF Crash, Open, Inv, TypeOK
  <2> QED BY <1>0, <1>8, <2>1, QuietStep DEF Crash, Inv, TypeOK
<1>9. CASE ClockAdvances
  BY <1>0, <1>9, QuietStep DEF ClockAdvances
<1>10. CASE UNCHANGED vars
  BY <1>0, <1>10, QuietStep DEF vars
<1>11. ASSUME NEW w \in Writes, CommitOwn(w) \/ CommitUnacknowledged(w) PROVE ChainInv'
  BY <1>4, <1>11 DEF CommitOwn, CommitUnacknowledged, AfterFailure
<1> QED BY <1>1, <1>2, <1>3, <1>5, <1>6, <1>7, <1>8, <1>9, <1>10, <1>11 DEF Next, Proceed

\* The rows are one unforked chain, through rolled-back callers, failed and
\* unacknowledged commits, crashes and a failover, as long as one process writes at a
\* time and created_at grows (the queue, the lock, Prev and Carries).
THEOREM OneProcessOneChain == Spec => []ChainUnforked
<1>1. Init => ChainInv
  BY DEF Init, Unwritten, ChainInv, ChainUnforked, OneChain, MemoryOK, PrevOK
<1>2. Inv /\ ChainInv /\ [Next]_vars => ChainInv'
  BY ChainStep
<1>3. ChainInv => ChainUnforked
  BY DEF ChainInv
<1> QED BY <1>1, <1>2, <1>3, InitInv, NextInv, PTL DEF Spec

-----------------------------------------------------------------------------
\* A set of numbers that is not empty has a least one.
LEMMA LeastNumber ==
  ASSUME NEW T \in SUBSET Nat, T # {}
  PROVE  \E m \in T : \A k \in T : m <= k
<1>1. PICK n \in T : TRUE
  OBVIOUS
<1> DEFINE S == 0..n
           U == {0..k : k \in {i \in T : i <= n}}
<1>2. \A k \in Nat : k <= n => 0..k \in SUBSET S
  BY <1>1
<1>3. U # {} /\ U \subseteq SUBSET S
  BY <1>1, <1>2
<1>4. IsWellFoundedOn(StrictSubsetOrdering(S), SUBSET S)
  <2>1. IsFiniteSet(S)
    BY <1>1, FS_Interval
  <2> QED BY <2>1, FS_StrictSubsetOrderingWellFounded, FS_FiniteSubsetsOfFinite
<1>5. PICK X \in U : \A Y \in U : ~(<<Y, X>> \in StrictSubsetOrdering(S))
  <2> HIDE DEF U, S
  <2> QED BY <1>3, <1>4, WFMin
<1>6. PICK m \in T : m <= n /\ X = 0..m
  BY <1>5
<1>7. ASSUME NEW k \in T, ~(m <= k) PROVE FALSE
  <2>1. k <= n /\ 0..k \in U /\ k \in Nat /\ m \in Nat
    BY <1>1, <1>6, <1>7
  <2>2. 0..k \subseteq 0..m /\ m \in 0..m /\ m \notin 0..k
    BY <1>7, <2>1
  <2>3. <<0..k, X>> \in StrictSubsetOrdering(S)
    BY <1>2, <1>6, <2>1, <2>2 DEF StrictSubsetOrdering
  <2> QED BY <1>5, <2>1, <2>3
<1> QED BY <1>7

\* A call is committed once: no two rows carry the same signature.
SignedOnce ==
    /\ \A i \in DOMAIN table : write[table[i].sig].pc = "committed"
    /\ \A i, j \in DOMAIN table : table[i].sig = table[j].sig => i = j

LEMMA SignedOnceStep ==
  ASSUME Inv, SignedOnce, [Next]_vars PROVE SignedOnce'
<1>1. \A i \in DOMAIN table : table[i].sig \in Writes
  BY SigsType DEF Sigs
<1>2. ASSUME NEW w \in Writes, Commit(w) PROVE SignedOnce'
  <2>1. /\ \A k \in DOMAIN table : table'[k] = table[k]
        /\ table'[Len(table) + 1] = Row(w)
        /\ DOMAIN table = 1..Len(table) /\ DOMAIN table' = 1..(Len(table) + 1)
    BY <1>2, CommitTable
  <2>2. Len(table) \in Nat
    BY LenProperties DEF Inv, TypeOK
  <2>3. \A k \in DOMAIN table' : k \in DOMAIN table \/ k = Len(table) + 1
    BY <2>1, <2>2
  <2>4. write[w].pc = "inserted" /\ Row(w).sig = w
    BY <1>2 DEF Commit, Row
  <2>5. write'[w].pc = "committed" /\ \A v \in Writes : v # w => write'[v] = write[v]
    BY <1>2, CommitPlace
  <2>6. \A k \in DOMAIN table : table[k].sig # w
    BY <2>4 DEF SignedOnce
  <2> QED BY <1>1, <2>1, <2>3, <2>4, <2>5, <2>6 DEF SignedOnce
<1>3. CASE table' = table
  <2>1. \A v \in Writes : write[v].pc = "committed" => write'[v].pc = "committed"
    BY <1>3 DEF Next, vars, Log, Proceed, TakeLock, InsertRow, CommitOwn, CommitCaller, Commit,
           RollbackCaller, CommitUnacknowledged, WriteFails, Crash, ClockAdvances, Goto, Open,
           Inv, TypeOK
  <2> QED BY <1>1, <1>3, <2>1 DEF SignedOnce
<1> QED BY <1>2, <1>3, TableGrows

\* What the walk of verify says of row i, when f says it of the rows before.
Reached(f, i) ==
    /\ i = NextRow(table[i].prev)
    /\ \/ table[i].prev = Genesis
       \/ \E j \in 1..(i - 1) : table[j].sig = table[i].prev /\ f[j]

IsWalk(f, n) == f \in [1..n -> BOOLEAN] /\ \A i \in 1..n : f[i] = Reached(f, i)

\* The walk is defined for every history.
LEMMA WalkExists ==
  ASSUME NEW n \in Nat PROVE \E f : IsWalk(f, n)
<1> DEFINE T == {m \in Nat : \A f : ~IsWalk(f, m)}
<1> SUFFICES ASSUME T # {} PROVE FALSE
  OBVIOUS
<1>1. PICK m \in T : \A k \in T : m <= k
  <2>1. T \in SUBSET Nat
    OBVIOUS
  <2> HIDE DEF T
  <2> QED BY <2>1, LeastNumber
<1>2. m \in Nat /\ \A f : ~IsWalk(f, m)
  OBVIOUS
<1>3. m # 0
  <2>1. 1..0 = {}
    OBVIOUS
  <2>2. IsWalk([i \in {} |-> TRUE], 0)
    BY <2>1 DEF IsWalk
  <2> QED BY <1>2, <2>2
<1>4. PICK f : IsWalk(f, m - 1)
  <2>1. m - 1 \in Nat /\ ~(m <= m - 1)
    BY <1>2, <1>3
  <2>2. m - 1 \notin T
    BY <1>1, <2>1
  <2> QED BY <2>1, <2>2
<1> DEFINE g == [i \in 1..m |-> IF i = m THEN Reached(f, m) ELSE f[i]]
<1>5. Reached(f, m) \in BOOLEAN
  BY DEF Reached
<1>6. \A i \in 1..m : i # m => i \in 1..(m - 1)
  BY <1>2, <1>3
<1>7. g \in [1..m -> BOOLEAN]
  BY <1>4, <1>5, <1>6 DEF IsWalk
<1>8. ASSUME NEW i \in 1..m PROVE Reached(g, i) <=> Reached(f, i)
  <2>1. \A j \in 1..(i - 1) : j \in 1..m /\ j # m
    BY <1>2
  <2>2. \A j \in 1..(i - 1) : g[j] = f[j]
    BY <2>1
  <2> HIDE DEF g
  <2> QED BY <2>2 DEF Reached
<1>9. ASSUME NEW i \in 1..m PROVE g[i] = Reached(g, i)
  <2>1. Reached(g, i) \in BOOLEAN /\ Reached(f, i) \in BOOLEAN
    BY DEF Reached
  <2>2. i # m => f[i] = Reached(f, i)
    BY <1>4, <1>6 DEF IsWalk
  <2>3. g[i] = Reached(f, i)
    BY <2>2
  <2> HIDE DEF g
  <2> QED BY <1>8, <2>1, <2>3
<1>10. IsWalk(g, m)
  <2> HIDE DEF g
  <2> QED BY <1>7, <1>9 DEF IsWalk
<1> QED BY <1>2, <1>10

\* verify passes the rows of a walk over the whole table.
LEMMA PassedIsWalk ==
  ASSUME Inv
  PROVE  \E f : IsWalk(f, Len(table)) /\ Passed = {i \in DOMAIN table : f[i]}
<1> DEFINE F(passed) == [i \in DOMAIN table |->
              /\ i = NextRow(table[i].prev)
              /\ \/ table[i].prev = Genesis
                 \/ \E j \in 1..(i - 1) : table[j].sig = table[i].prev /\ passed[j]]
<1> DEFINE p == CHOOSE passed : passed = F(passed)
<1>1. Passed = {i \in DOMAIN table : p[i]}
  BY DEF Passed
<1>2. DOMAIN table = 1..Len(table) /\ Len(table) \in Nat
  BY LenProperties DEF Inv, TypeOK
<1>3. PICK f : IsWalk(f, Len(table))
  BY <1>2, WalkExists
<1>4. f = F(f)
  BY <1>2, <1>3 DEF IsWalk, Reached
<1>5. p = F(p)
  <2> HIDE DEF F
  <2> QED BY <1>4
<1>6. IsWalk(p, Len(table))
  <2> HIDE DEF p
  <2>1. p \in [1..Len(table) -> BOOLEAN]
    BY <1>2, <1>5
  <2>2. \A i \in 1..Len(table) : p[i] = Reached(p, i)
    BY <1>2, <1>5 DEF Reached
  <2> QED BY <2>1, <2>2 DEF IsWalk
<1> QED BY <1>1, <1>6

\* Without a break no two rows name the same predecessor, and each follows an
\* earlier one: the first that did not follow the row before it would share its
\* predecessor with the row that does.
LEMMA NoBreakOneChain ==
  ASSUME Inv, Breaks = {} PROVE OneChain
<1>1. PICK f : IsWalk(f, Len(table)) /\ Passed = {i \in DOMAIN table : f[i]}
  BY PassedIsWalk
<1>2. DOMAIN table = 1..Len(table) /\ Len(table) \in Nat
  BY LenProperties DEF Inv, TypeOK
<1>3. \A i \in DOMAIN table : f[i] /\ Reached(f, i)
  BY <1>1, <1>2 DEF Breaks, IsWalk
<1>4. \A i, j \in DOMAIN table : table[i].prev = table[j].prev => i = j
  BY <1>3 DEF Reached
<1> DEFINE Follows(i) == table[i].prev = IF i = 1 THEN Genesis ELSE table[i - 1].sig
           T == {i \in DOMAIN table : ~Follows(i)}
<1> SUFFICES ASSUME T # {} PROVE FALSE
  BY DEF OneChain
<1>5. PICK i \in T : \A k \in T : i <= k
  <2>1. T \in SUBSET Nat
    BY <1>2
  <2> HIDE DEF T
  <2> QED BY <2>1, LeastNumber
<1>6. i \in 1..Len(table) /\ ~Follows(i)
  BY <1>2
<1>7. \A k \in 1..(i - 1) : k \in DOMAIN table /\ Follows(k)
  <2> SUFFICES ASSUME NEW k \in 1..(i - 1) PROVE k \in DOMAIN table /\ Follows(k)
    OBVIOUS
  <2>1. k \in DOMAIN table /\ ~(i <= k)
    BY <1>2, <1>6
  <2> QED BY <1>5, <2>1
<1>8. CASE table[i].prev = Genesis
  <2>1. i # 1
    BY <1>6, <1>8
  <2>2. 1 \in 1..(i - 1)
    BY <1>2, <1>6, <2>1
  <2>3. table[1].prev = Genesis /\ 1 \in DOMAIN table
    BY <1>7, <2>2
  <2> QED BY <1>2, <1>4, <1>6, <1>8, <2>1, <2>3
<1>9. ASSUME NEW j \in 1..(i - 1), table[j].sig = table[i].prev PROVE FALSE
  <2>1. j # i - 1
    BY <1>2, <1>6, <1>9
  <2>2. j + 1 \in 1..(i - 1) /\ j + 1 # 1 /\ (j + 1) - 1 = j /\ j + 1 # i
    BY <1>2, <1>6, <2>1
  <2>3. j + 1 \in DOMAIN table /\ table[j + 1].prev = table[j].sig
    BY <1>7, <2>2
  <2> QED BY <1>2, <1>4, <1>6, <1>9, <2>2, <2>3
<1> QED BY <1>2, <1>3, <1>6, <1>8, <1>9 DEF Reached

\* In one chain every row is the only one after its predecessor: the first that the
\* walk did not reach would follow one that it did.
LEMMA OneChainNoBreak ==
  ASSUME Inv, SignedOnce, OneChain PROVE Breaks = {}
<1>1. PICK f : IsWalk(f, Len(table)) /\ Passed = {i \in DOMAIN table : f[i]}
  BY PassedIsWalk
<1>2. DOMAIN table = 1..Len(table) /\ Len(table) \in Nat
  BY LenProperties DEF Inv, TypeOK
<1>3. \A i \in DOMAIN table : table[i].sig # Genesis /\ table[i].at \in Int
  <2> SUFFICES ASSUME NEW i \in DOMAIN table PROVE table[i].sig # Genesis /\ table[i].at \in Int
    OBVIOUS
  <2>1. table[i] \in RowType
    BY <1>2, ElementOfSeq DEF Inv, TypeOK, RowType
  <2> QED BY <2>1, AuditConstants DEF RowType
<1>4. ASSUME NEW i \in DOMAIN table, NEW j \in DOMAIN table, table[i].prev = table[j].prev
      PROVE  i = j
  <2>1. i # 1 => i - 1 \in DOMAIN table /\ table[i].prev = table[i - 1].sig
    BY <1>2 DEF OneChain
  <2>2. j # 1 => j - 1 \in DOMAIN table /\ table[j].prev = table[j - 1].sig
    BY <1>2 DEF OneChain
  <2>3. (i = 1 => table[i].prev = Genesis) /\ (j = 1 => table[j].prev = Genesis)
    BY DEF OneChain
  <2>4. CASE i # 1 /\ j # 1
    <3>1. i - 1 = j - 1
      BY <1>4, <2>1, <2>2, <2>4 DEF SignedOnce
    <3> QED BY <1>2, <3>1
  <2>5. CASE i = 1 \/ j = 1
    BY <1>3, <1>4, <2>1, <2>2, <2>3, <2>5
  <2> QED BY <2>4, <2>5
<1>5. ASSUME NEW i \in DOMAIN table PROVE i = NextRow(table[i].prev)
  <2>1. Successors(table[i].prev) = {i}
    BY <1>4 DEF Successors
  <2>2. table[i].at <= table[i].at
    BY <1>3
  <2> QED BY <2>1, <2>2 DEF NextRow
<1> DEFINE T == {i \in DOMAIN table : ~f[i]}
<1> SUFFICES ASSUME T # {} PROVE FALSE
  BY <1>1 DEF Breaks
<1>6. PICK i \in T : \A k \in T : i <= k
  <2>1. T \in SUBSET Nat
    BY <1>2
  <2> HIDE DEF T
  <2> QED BY <2>1, LeastNumber
<1>7. i \in DOMAIN table /\ ~f[i]
  OBVIOUS
<1>8. ~Reached(f, i)
  BY <1>1, <1>2, <1>7 DEF IsWalk, Reached
<1>9. i # 1 /\ table[i].prev = table[i - 1].sig
  BY <1>5, <1>7, <1>8 DEF Reached, OneChain
<1>10. i - 1 \in 1..(i - 1) /\ i - 1 \in DOMAIN table /\ ~(i <= i - 1)
  BY <1>2, <1>7, <1>9
<1>11. f[i - 1]
  BY <1>6, <1>10
<1> QED BY <1>5, <1>7, <1>8, <1>9, <1>10, <1>11 DEF Reached

\* verify reports a break exactly when the rows are not one chain, whatever the
\* processes, their callers and the clock did (byPrev, the walk from the anchor and
\* the rows it does not reach).
THEOREM VerifyIsExact == Spec => []VerifyDetectsForks
<1>1. Init => SignedOnce
  BY DEF Init, SignedOnce
<1>2. Inv /\ SignedOnce /\ [Next]_vars => SignedOnce'
  BY SignedOnceStep
<1>3. Inv /\ SignedOnce => VerifyDetectsForks
  BY NoBreakOneChain, OneChainNoBreak DEF VerifyDetectsForks
<1> QED BY <1>1, <1>2, <1>3, InitInv, NextInv, PTL DEF Spec

-----------------------------------------------------------------------------
(***************************************************************************)
(* No call waits for nobody.  Fairness gives CallsSettle only if somebody  *)
(* can always go on; that part is proved here, for any processes.          *)
(***************************************************************************)
\* The calls that have a place in their process's queue.
InLine(w) ==
    \/ write[w].pc \in {"queued", "locked"}
    \/ write[w].pc = "inserted" /\ ~write[w].enlisted

\* Queue r holds exactly the calls of r that are in line, each of them once.
Lined ==
    /\ \A r \in Replicas : \A i \in DOMAIN queue[r] :
          /\ InLine(queue[r][i]) /\ write[queue[r][i]].by = r
          /\ \A j \in DOMAIN queue[r] : queue[r][j] = queue[r][i] => j = i
    /\ \A w \in Writes : InLine(w) =>
          \E i \in DOMAIN queue[write[w].by] : queue[write[w].by][i] = w

\* A lock that is taken is held by a transaction under way.
Held == lock # None => write[lock].pc \in {"locked", "inserted"}

LEMMA QueueDomain ==
  ASSUME Inv, NEW r \in Replicas
  PROVE  /\ queue[r] \in Seq(Writes) /\ Len(queue[r]) \in Nat
         /\ DOMAIN queue[r] = 1..Len(queue[r])
         /\ \A i \in DOMAIN queue[r] : queue[r][i] \in Writes
  BY LenProperties, ElementOfSeq DEF Inv, TypeOK

\* A step that moves nobody in or out of a queue.
LEMMA LinedSame ==
  ASSUME Inv, Lined, queue' = queue,
         \A v \in Writes : /\ InLine(v)' <=> InLine(v)
                           /\ InLine(v) => write'[v].by = write[v].by
  PROVE  Lined'
<1>1. ASSUME NEW r \in Replicas, NEW i \in DOMAIN queue[r]
      PROVE  /\ InLine(queue[r][i])' /\ write'[queue[r][i]].by = r
             /\ \A j \in DOMAIN queue[r] : queue[r][j] = queue[r][i] => j = i
  <2>1. PICK v \in Writes : v = queue[r][i]
    BY <1>1, QueueDomain
  <2>2. InLine(v) /\ write[v].by = r
    BY <2>1 DEF Lined
  <2>3. InLine(v)' /\ write'[v].by = r
    BY <2>2
  <2> QED BY <2>1, <2>3 DEF Lined, InLine
<1>2. ASSUME NEW v \in Writes, InLine(v)'
      PROVE  \E i \in DOMAIN queue[write'[v].by] : queue[write'[v].by][i] = v
  BY <1>2 DEF Lined
<1> QED BY <1>1, <1>2 DEF Lined

\* A new call joins its queue at the end.
LEMMA LinedJoin ==
  ASSUME Inv, Lined, NEW w \in Writes, NEW r \in Replicas, NEW e \in BOOLEAN, Log(w, r, e)
  PROVE  Lined'
<1>1. /\ write[w].pc = "new" /\ ~InLine(w)
      /\ write'[w].pc = "queued" /\ write'[w].by = r
      /\ \A v \in Writes : v # w => write'[v] = write[v]
      /\ queue'[r] = Append(queue[r], w)
      /\ \A s \in Replicas : s # r => queue'[s] = queue[s]
  BY DEF Log, InLine, Inv, TypeOK
<1> DEFINE n == Len(queue[r])
<1>2. /\ n \in Nat /\ DOMAIN queue[r] = 1..n /\ DOMAIN queue'[r] = 1..(n + 1)
      /\ \A i \in 1..n : queue'[r][i] = queue[r][i] /\ queue[r][i] \in Writes
      /\ queue'[r][n + 1] = w
  <2>1. queue[r] \in Seq(Writes) /\ n \in Nat
    BY QueueDomain
  <2>2. queue'[r] \in Seq(Writes) /\ Len(queue'[r]) = n + 1
    BY <1>1, <2>1, AppendProperties
  <2> QED BY <1>1, <2>1, <2>2, AppendProperties, QueueDomain, LenProperties
<1> HIDE DEF n
<1>3. \A i \in 1..n : queue[r][i] # w
  BY <1>1, <1>2 DEF Lined
<1>4. \A v \in Writes : v # w => (InLine(v)' <=> InLine(v)) /\ write'[v].by = write[v].by
  BY <1>1 DEF InLine
<1>5. InLine(w)'
  BY <1>1 DEF InLine
<1>6. ASSUME NEW s \in Replicas, NEW i \in DOMAIN queue'[s]
      PROVE  /\ InLine(queue[s][i])' /\ write'[queue'[s][i]].by = s
             /\ \A j \in DOMAIN queue'[s] : queue'[s][j] = queue'[s][i] => j = i
  <2>1. CASE s # r
    <3>1. PICK v \in Writes : v = queue[s][i]
      BY <1>1, <1>6, <2>1, QueueDomain
    <3>2. v # w /\ InLine(v) /\ write[v].by = s
      BY <1>1, <1>6, <2>1, <3>1 DEF Lined
    <3>3. InLine(v)' /\ write'[v].by = s /\ v = queue'[s][i]
      BY <1>1, <1>4, <2>1, <3>1, <3>2
    <3> QED BY <1>1, <1>6, <2>1, <3>3 DEF Lined, InLine
  <2>2. CASE s = r /\ i = n + 1
    <3>1. \A j \in 1..(n + 1) : j = n + 1 \/ j \in 1..n
      BY <1>2
    <3> QED BY <1>1, <1>2, <1>3, <1>5, <2>2, <3>1 DEF InLine
  <2>3. CASE s = r /\ i # n + 1
    <3>1. i \in 1..n /\ \A j \in 1..(n + 1) : j = n + 1 \/ j \in 1..n
      BY <1>2, <1>6, <2>3
    <3>2. PICK v \in Writes : v = queue[r][i] /\ v = queue'[r][i]
      BY <1>2, <3>1
    <3>3. v # w /\ InLine(v) /\ write[v].by = r
      BY <1>2, <1>3, <3>1, <3>2 DEF Lined
    <3>4. InLine(v)' /\ write'[v].by = r
      BY <1>4, <3>3
    <3>5. \A j \in DOMAIN queue'[r] : queue'[r][j] = v => j = i
      BY <1>2, <3>1, <3>2, <3>3 DEF Lined
    <3> QED BY <2>3, <3>2, <3>4, <3>5 DEF InLine
  <2> QED BY <2>1, <2>2, <2>3
<1>7. ASSUME NEW v \in Writes, InLine(v)'
      PROVE  \E i \in DOMAIN queue'[write'[v].by] : queue'[write'[v].by][i] = v
  <2>1. CASE v = w
    <3>1. n + 1 \in 1..(n + 1)
      BY <1>2
    <3> QED BY <1>1, <1>2, <2>1, <3>1
  <2>2. CASE v # w
    <3>1. InLine(v) /\ write'[v].by = write[v].by
      BY <1>4, <1>7, <2>2
    <3>2. PICK i \in DOMAIN queue[write[v].by] : queue[write[v].by][i] = v
      BY <3>1 DEF Lined
    <3>3. write[v].by \in Replicas
      BY <3>1 DEF InLine, Inv, PlaceOK
    <3>4. i \in DOMAIN queue'[write[v].by] /\ queue'[write[v].by][i] = v
      BY <1>1, <1>2, <3>2, <3>3
    <3> QED BY <3>1, <3>4
  <2> QED BY <2>1, <2>2
<1> QED BY <1>6, <1>7 DEF Lined

\* The first of a queue leaves it.
LEMMA LinedLeave ==
  ASSUME Inv, Lined, NEW w \in Writes, AtHead(w), InLine(w), ~InLine(w)',
         queue' = [queue EXCEPT ![write[w].by] = Tail(@)],
         \A v \in Writes : v # w => write'[v] = write[v]
  PROVE  Lined'
<1> DEFINE r == write[w].by
           n == Len(queue[r])
<1>1. r \in Replicas
  BY DEF InLine, Inv, PlaceOK
<1>2. queue[r] \in Seq(Writes) /\ queue[r] # <<>> /\ n \in Nat /\ DOMAIN queue[r] = 1..n
  BY <1>1, QueueDomain DEF AtHead
<1>3. queue'[r] = Tail(queue[r]) /\ \A s \in Replicas : s # r => queue'[s] = queue[s]
  BY <1>1 DEF Inv, TypeOK
<1>4. n > 0 /\ queue[r][1] = w /\ 1 \in 1..n
  BY <1>2, EmptySeq DEF AtHead
<1>5. /\ DOMAIN queue'[r] = 1..(n - 1)
      /\ \A i \in 1..(n - 1) : queue'[r][i] = queue[r][i + 1] /\ i + 1 \in 1..n
  <2> DEFINE q == queue[r]
             t == Tail(q)
  <2> HIDE DEF q, t
  <2>1. q \in Seq(Writes) /\ q # <<>> /\ Len(q) = n
    BY <1>2 DEF q
  <2>2. /\ t \in Seq(Writes) /\ Len(t) = n - 1
        /\ \A i \in 1..Len(t) : t[i] = q[i + 1]
    BY <2>1, HeadTailProperties DEF t
  <2>3. DOMAIN t = 1..(n - 1)
    BY <2>2, LenProperties
  <2>4. queue'[r] = t
    BY <1>3 DEF q, t
  <2> QED BY <1>2, <1>4, <2>2, <2>3, <2>4 DEF q
<1> HIDE DEF n, r
<1>6. ASSUME NEW s \in Replicas, NEW i \in DOMAIN queue'[s]
      PROVE  \E k \in DOMAIN queue[s] :
                /\ queue'[s][i] = queue[s][k] /\ queue[s][k] # w
                /\ k = IF s = r THEN i + 1 ELSE i
  <2>1. CASE s = r
    <3>1. i \in 1..(n - 1) /\ i + 1 \in 1..n /\ i + 1 # 1
      BY <1>2, <1>5, <1>6, <2>1
    <3>2. queue[r][i + 1] # queue[r][1]
      BY <1>1, <1>2, <1>4, <3>1 DEF Lined
    <3> QED BY <1>2, <1>4, <1>5, <2>1, <3>1, <3>2
  <2>2. CASE s # r
    <3>1. queue'[s] = queue[s] /\ write[queue[s][i]].by = s
      BY <1>3, <1>6, <2>2 DEF Lined
    <3> QED BY <1>6, <2>2, <3>1 DEF r
  <2> QED BY <2>1, <2>2
<1>7. ASSUME NEW s \in Replicas, NEW i \in DOMAIN queue'[s]
      PROVE  /\ InLine(queue[s][i])' /\ write'[queue'[s][i]].by = s
             /\ \A j \in DOMAIN queue'[s] : queue'[s][j] = queue'[s][i] => j = i
  <2>1. PICK k \in DOMAIN queue[s] : /\ queue'[s][i] = queue[s][k] /\ queue[s][k] # w
                                     /\ k = IF s = r THEN i + 1 ELSE i
    BY <1>6, <1>7
  <2>2. PICK v \in Writes : v = queue[s][k]
    BY <1>7, QueueDomain
  <2>3. v # w /\ InLine(v) /\ write[v].by = s /\ write'[v] = write[v]
    BY <2>1, <2>2 DEF Lined
  <2>4. InLine(v)' /\ write'[v].by = s /\ v = queue'[s][i]
    BY <2>1, <2>2, <2>3 DEF InLine
  <2>5. ASSUME NEW j \in DOMAIN queue'[s], queue'[s][j] = queue'[s][i] PROVE j = i
    <3>1. PICK l \in DOMAIN queue[s] : /\ queue'[s][j] = queue[s][l]
                                       /\ l = IF s = r THEN j + 1 ELSE j
      BY <1>6, <2>5
    <3>2. l = k
      BY <2>1, <2>5, <3>1 DEF Lined
    <3>3. ASSUME s = r PROVE i \in Int /\ j \in Int
      <4>1. i \in 1..(n - 1) /\ j \in 1..(n - 1)
        BY <1>5, <1>7, <2>5, <3>3
      <4> QED BY <4>1
    <3> QED BY <2>1, <3>1, <3>2, <3>3
  <2> QED BY <2>4, <2>5 DEF InLine
<1>8. ASSUME NEW v \in Writes, InLine(v)'
      PROVE  \E i \in DOMAIN queue'[write'[v].by] : queue'[write'[v].by][i] = v
  <2>1. v # w /\ write'[v] = write[v] /\ InLine(v)
    BY <1>8 DEF InLine
  <2>2. PICK k \in DOMAIN queue[write[v].by] : queue[write[v].by][k] = v
    BY <2>1 DEF Lined
  <2>3. write[v].by \in Replicas
    BY <2>1 DEF InLine, Inv, PlaceOK
  <2>4. CASE write[v].by = r
    <3>1. k \in 1..n /\ k # 1
      BY <1>2, <1>4, <2>1, <2>2, <2>4
    <3>2. k - 1 \in 1..(n - 1) /\ (k - 1) + 1 = k
      BY <1>2, <3>1
    <3>3. queue'[r][k - 1] = v
      BY <1>5, <2>2, <2>4, <3>2
    <3> QED BY <1>5, <2>1, <2>4, <3>2, <3>3
  <2>5. CASE write[v].by # r
    BY <1>3, <2>1, <2>2, <2>3, <2>5
  <2> QED BY <2>4, <2>5
<1> QED BY <1>7, <1>8 DEF Lined

LEMMA LinedStep ==
  ASSUME Inv, Lined, [Next]_vars PROVE Lined'
<1>1. ASSUME NEW w \in Writes, NEW r \in Replicas, NEW e \in BOOLEAN, Log(w, r, e)
      PROVE  Lined'
  BY <1>1, LinedJoin
<1>2. ASSUME NEW w \in Writes, TakeLock(w) PROVE Lined'
  <2>1. /\ queue' = queue /\ write[w].pc = "queued"
        /\ write'[w] = [write[w] EXCEPT !.pc = "locked"]
        /\ \A v \in Writes : v # w => write'[v] = write[v]
    BY <1>2 DEF TakeLock, Goto, Inv, TypeOK
  <2>2. write'[w].pc = "locked" /\ write'[w].by = write[w].by
    BY <2>1 DEF Inv, TypeOK
  <2>3. \A v \in Writes : /\ InLine(v)' <=> InLine(v)
                          /\ InLine(v) => write'[v].by = write[v].by
    BY <2>1, <2>2 DEF InLine
  <2> QED BY <2>1, <2>3, LinedSame
<1>3. ASSUME NEW w \in Writes, InsertRow(w) PROVE Lined'
  <2>1. /\ write[w].pc = "locked" /\ AtHead(w)
        /\ write'[w].pc = "inserted" /\ write'[w].by = write[w].by
        /\ write'[w].enlisted = write[w].enlisted
        /\ \A v \in Writes : v # w => write'[v] = write[v]
    BY <1>3 DEF InsertRow, Inv, TypeOK, PlaceOK
  <2>2. CASE write[w].enlisted
    <3>1. /\ queue' = [queue EXCEPT ![write[w].by] = Tail(@)]
          /\ InLine(w) /\ ~InLine(w)'
      BY <1>3, <2>1, <2>2 DEF InsertRow, Settle, InLine
    <3> QED BY <2>1, <3>1, LinedLeave
  <2>3. CASE ~write[w].enlisted
    <3>1. queue' = queue /\ \A v \in Writes : /\ InLine(v)' <=> InLine(v)
                                              /\ InLine(v) => write'[v].by = write[v].by
      BY <1>3, <2>1, <2>3 DEF InsertRow, InLine
    <3> QED BY <3>1, LinedSame
  <2> QED BY <2>2, <2>3
<1>4. ASSUME NEW w \in Writes, Commit(w), ~write[w].enlisted,
             queue' = [queue EXCEPT ![write[w].by] = Tail(@)]
      PROVE  Lined'
  <2>1. AtHead(w) /\ InLine(w)
    BY <1>4 DEF Commit, InLine, Inv, PlaceOK
  <2>2. ~InLine(w)' /\ \A v \in Writes : v # w => write'[v] = write[v]
    BY <1>4, CommitPlace DEF InLine
  <2> QED BY <1>4, <2>1, <2>2, LinedLeave
<1>5. ASSUME NEW w \in Writes, write[w].pc = "inserted", write[w].enlisted, queue' = queue,
             write'[w].pc \in {"committed", "lost"},
             \A v \in Writes : v # w => write'[v] = write[v]
      PROVE  Lined'
  <2>1. \A v \in Writes : /\ InLine(v)' <=> InLine(v)
                          /\ InLine(v) => write'[v].by = write[v].by
    BY <1>5 DEF InLine
  <2> QED BY <1>5, <2>1, LinedSame
<1>6. ASSUME NEW w \in Writes, CommitCaller(w) PROVE Lined'
  BY <1>5, <1>6, CommitPlace DEF CommitCaller, Commit
<1>7. ASSUME NEW w \in Writes, RollbackCaller(w) PROVE Lined'
  <2>1. /\ write'[w].pc = "lost" /\ \A v \in Writes : v # w => write'[v] = write[v]
    BY <1>7 DEF RollbackCaller, Goto, Inv, TypeOK
  <2> QED BY <1>5, <1>7, <2>1 DEF RollbackCaller
<1>8. ASSUME NEW w \in Writes, WriteFails(w) PROVE Lined'
  <2>1. AtHead(w) /\ InLine(w) /\ queue' = [queue EXCEPT ![write[w].by] = Tail(@)]
    BY <1>8 DEF WriteFails, Settle, InLine, Inv, PlaceOK
  <2>2. write'[w].pc = "lost" /\ \A v \in Writes : v # w => write'[v] = write[v]
    BY <1>8 DEF WriteFails, Goto, Inv, TypeOK
  <2> QED BY <2>1, <2>2, LinedLeave DEF InLine
<1>9. ASSUME NEW r \in Replicas, Crash(r) PROVE Lined'
  <2>1. /\ queue'[r] = <<>> /\ \A s \in Replicas : s # r => queue'[s] = queue[s]
        /\ \A v \in Writes :
              write'[v] = IF Open(v) /\ write[v].by = r THEN [write[v] EXCEPT !.pc = "lost"]
                          ELSE write[v]
    BY <1>9 DEF Crash, Inv, TypeOK
  <2>2. \A v \in Writes : InLine(v)' => InLine(v) /\ write[v].by # r /\ write'[v] = write[v]
    BY <2>1 DEF InLine, Open, Inv, TypeOK
  <2>3. \A v \in Writes : InLine(v) /\ write[v].by # r => InLine(v)' /\ write'[v] = write[v]
    BY <2>1 DEF InLine
  <2>4. ASSUME NEW s \in Replicas, NEW i \in DOMAIN queue'[s]
        PROVE  /\ InLine(queue[s][i])' /\ write'[queue'[s][i]].by = s
               /\ \A j \in DOMAIN queue'[s] : queue'[s][j] = queue'[s][i] => j = i
    <3>1. s # r /\ queue'[s] = queue[s]
      BY <2>1, <2>4
    <3>2. PICK v \in Writes : v = queue[s][i]
      BY <2>4, <3>1, QueueDomain
    <3>3. InLine(v) /\ write[v].by = s
      BY <2>4, <3>1, <3>2 DEF Lined
    <3>4. InLine(v)' /\ write'[v].by = s /\ v = queue'[s][i]
      BY <2>3, <3>1, <3>2, <3>3
    <3> QED BY <2>4, <3>1, <3>4 DEF Lined, InLine
  <2>5. ASSUME NEW v \in Writes, InLine(v)'
        PROVE  \E i \in DOMAIN queue'[write'[v].by] : queue'[write'[v].by][i] = v
    <3>1. InLine(v) /\ write[v].by # r /\ write'[v] = write[v] /\ write[v].by \in Replicas
      BY <2>2, <2>5 DEF InLine, Inv, PlaceOK
    <3> QED BY <2>1, <3>1 DEF Lined
  <2> QED BY <2>4, <2>5 DEF Lined
<1>10. CASE ClockAdvances \/ UNCHANGED vars
  <2>1. queue' = queue /\ write' = write
    BY <1>10 DEF ClockAdvances, vars
  <2> QED BY <2>1 DEF Lined, InLine
<1> QED BY <1>1, <1>2, <1>3, <1>4, <1>6, <1>7, <1>8, <1>9, <1>10
        DEF Next, Proceed, CommitOwn, CommitUnacknowledged, Settle

LEMMA HeldStep ==
  ASSUME Inv, Held, [Next]_vars PROVE Held'
<1>1. ASSUME NEW w \in Writes, NEW r \in Replicas, NEW e \in BOOLEAN, Log(w, r, e)
      PROVE  Held'
  <2>1. lock # w
    BY <1>1, AuditConstants DEF Log, Held
  <2>2. lock' = lock /\ (lock # None => write'[lock] = write[lock])
    BY <1>1, <2>1 DEF Log, Inv, TypeOK
  <2> QED BY <2>2 DEF Held
<1>2. ASSUME NEW w \in Writes, TakeLock(w) PROVE Held'
  BY <1>2 DEF TakeLock, Goto, Held, Inv, TypeOK
<1>3. ASSUME NEW w \in Writes, InsertRow(w) PROVE Held'
  <2>1. lock' = lock /\ lock = w /\ write'[w].pc = "inserted"
    BY <1>3 DEF InsertRow, Inv, TypeOK, PlaceOK
  <2> QED BY <2>1 DEF Held
<1>4. ASSUME NEW w \in Writes, Commit(w) PROVE Held'
  BY <1>4, CommitPlace DEF Held
<1>5. ASSUME NEW w \in Writes, WriteFails(w) \/ RollbackCaller(w) PROVE Held'
  <2>1. /\ lock' = IF lock = w THEN None ELSE lock
        /\ \A v \in Writes : v # w => write'[v] = write[v]
    BY <1>5 DEF WriteFails, RollbackCaller, Goto, Unlock, LockAfter, Inv, TypeOK
  <2> QED BY <2>1 DEF Held, Inv, TypeOK
<1>6. ASSUME NEW r \in Replicas, Crash(r) PROVE Held'
  BY <1>6 DEF Crash, Held, Inv, TypeOK
<1>7. CASE ClockAdvances \/ UNCHANGED vars
  BY <1>7 DEF ClockAdvances, vars, Held
<1> QED BY <1>1, <1>2, <1>3, <1>4, <1>5, <1>6, <1>7
        DEF Next, Proceed, CommitOwn, CommitCaller, CommitUnacknowledged

\* A table that is not empty has a row with the latest created_at.
LEMMA TailFound == Inv => StoredTail # {}
<1> SUFFICES ASSUME Inv, table # <<>> PROVE StoredTail # {}
  BY DEF StoredTail
<1>1. table \in Seq(RowType) /\ Len(table) \in Nat /\ DOMAIN table = 1..Len(table)
  BY LenProperties DEF Inv, TypeOK, RowType
<1>2. \A i \in DOMAIN table : table[i].at \in 0..MaxClock
  <2>1. \A i \in DOMAIN table : table[i] \in RowType
    BY <1>1, ElementOfSeq
  <2> QED BY <2>1 DEF RowType
<1> DEFINE Ages == {MaxClock - table[i].at : i \in DOMAIN table}
<1>3. Ages \in SUBSET Nat /\ Ages # {}
  <2>1. 1 \in DOMAIN table
    BY <1>1, EmptySeq
  <2> QED BY <1>2, <2>1, AuditConstants
<1>4. PICK m \in Ages : \A k \in Ages : m <= k
  BY <1>3, LeastNumber
<1>5. PICK i \in DOMAIN table : m = MaxClock - table[i].at
  BY <1>4
<1>6. \A k \in DOMAIN table : table[k].at <= table[i].at
  <2> SUFFICES ASSUME NEW k \in DOMAIN table PROVE table[k].at <= table[i].at
    OBVIOUS
  <2>1. MaxClock - table[i].at <= MaxClock - table[k].at
    BY <1>4, <1>5
  <2> QED BY <1>2, <2>1, AuditConstants
<1> QED BY <1>6 DEF StoredTail

\* The call can take its next step of Proceed.
CanGoOn(w) ==
    \/ write[w].pc = "queued" /\ AtHead(w) /\ lock = None
    \/ write[w].pc = "locked" /\ Prev(w) # {}
    \/ write[w].pc = "inserted"

\* A call that has not been answered waits for one that can go on: the holder of the
\* lock, or when nobody holds it the first in its own queue.
NobodyWaitsForNobody ==
    \A w \in Writes : Open(w) =>
        \E v \in Writes :
            /\ CanGoOn(v)
            /\ v = lock \/ (lock = None /\ AtHead(v) /\ write[v].by = write[w].by)

\* The queue of a process and the lock of the database never deadlock: through rolled
\* back callers, failures and crashes, whoever waits waits for a call that can go on
\* (enqueueChainWrite and pg_advisory_xact_lock in writeRow).
THEOREM QueueAndLockMove == Spec => []NobodyWaitsForNobody
<1>1. Init => Lined /\ Held
  BY DEF Init, Lined, Held, InLine, Unwritten
<1>2. Inv /\ Lined /\ Held /\ [Next]_vars => Lined' /\ Held'
  BY LinedStep, HeldStep
<1>3. Inv /\ Lined /\ Held => NobodyWaitsForNobody
  <2> SUFFICES ASSUME Inv, Lined, Held, NEW w \in Writes, Open(w)
               PROVE  \E v \in Writes :
                         /\ CanGoOn(v)
                         /\ v = lock \/ (lock = None /\ AtHead(v) /\ write[v].by = write[w].by)
    BY DEF NobodyWaitsForNobody
  <2>1. CASE lock # None
    <3>1. lock \in Writes /\ write[lock].pc \in {"locked", "inserted"}
      BY <2>1 DEF Held, Inv, TypeOK
    <3>2. Prev(lock) # {}
      BY TailFound DEF Prev
    <3> QED BY <3>1, <3>2 DEF CanGoOn
  <2>2. CASE lock = None
    <3>1. write[w].pc = "queued" /\ write[w].by \in Replicas
      BY <2>2, AuditConstants DEF Open, Inv, PlaceOK
    <3>2. PICK i \in DOMAIN queue[write[w].by] : queue[write[w].by][i] = w
      BY <3>1 DEF Lined, InLine
    <3> DEFINE q == queue[write[w].by]
               v == Head(q)
    <3>3. q \in Seq(Writes) /\ q # <<>> /\ 1 \in DOMAIN q
      <4>1. q \in Seq(Writes) /\ DOMAIN q = 1..Len(q) /\ Len(q) \in Nat
        BY <3>1, QueueDomain
      <4> QED BY <3>2, <4>1, EmptySeq
    <3>4. v = q[1] /\ v \in Writes
      BY <3>1, <3>3, QueueDomain
    <3>5. InLine(v) /\ write[v].by = write[w].by
      BY <3>1, <3>3, <3>4 DEF Lined
    <3>6. AtHead(v)
      BY <3>3, <3>5 DEF AtHead
    <3>7. write[v].pc = "queued"
      BY <2>2, <3>4, <3>5, AuditConstants DEF InLine, Inv, PlaceOK
    <3> QED BY <2>2, <3>4, <3>5, <3>6, <3>7 DEF CanGoOn
  <2> QED BY <2>1, <2>2
<1> QED BY <1>1, <1>2, <1>3, InitInv, NextInv, PTL DEF Spec

-----------------------------------------------------------------------------
\* A call that was committed has its row.
CommittedKept == \A w \in Writes : write[w].pc = "committed" => w \in Sigs

LEMMA CommittedStep ==
  ASSUME Inv, CommittedKept, [Next]_vars PROVE CommittedKept'
<1>1. ASSUME NEW w \in Writes, Commit(w) PROVE CommittedKept'
  BY <1>1, CommitTable, CommitPlace DEF CommittedKept
<1>2. CASE ~\E w \in Writes : Commit(w)
  <2>1. table' = table
    BY <1>2, TableGrows
  <2>2. ASSUME NEW w \in Writes, NEW r \in Replicas, NEW e \in BOOLEAN, Log(w, r, e)
        PROVE  \A v \in Writes : write'[v].pc = "committed" => write[v].pc = "committed"
    BY <2>2 DEF Log, Inv, TypeOK
  <2>3. ASSUME NEW w \in Writes, TakeLock(w) \/ WriteFails(w) \/ RollbackCaller(w)
        PROVE  \A v \in Writes : write'[v].pc = "committed" => write[v].pc = "committed"
    BY <2>3 DEF TakeLock, WriteFails, RollbackCaller, Goto, Inv, TypeOK
  <2>4. ASSUME NEW w \in Writes, InsertRow(w)
        PROVE  \A v \in Writes : write'[v].pc = "committed" => write[v].pc = "committed"
    BY <2>4 DEF InsertRow, Inv, TypeOK
  <2>5. ASSUME NEW r \in Replicas, Crash(r)
        PROVE  \A v \in Writes : write'[v].pc = "committed" => write[v].pc = "committed"
    BY <2>5 DEF Crash, Inv, TypeOK
  <2>6. \A v \in Writes : write'[v].pc = "committed" => write[v].pc = "committed"
    BY <1>2, <2>2, <2>3, <2>4, <2>5
       DEF Next, Proceed, CommitOwn, CommitCaller, CommitUnacknowledged, ClockAdvances, vars
  <2> QED BY <2>1, <2>6 DEF CommittedKept, Sigs
<1> QED BY <1>1, <1>2

\* Exactly the committed calls have a row, and each has one.
OneRowPerCall ==
    /\ \A i, j \in DOMAIN table : table[i].sig = table[j].sig => i = j
    /\ \A w \in Writes : write[w].pc = "committed" <=> w \in Sigs

\* A write is in the log once or not at all: through failed inserts, rolled back
\* callers, unacknowledged commits and crashes the table holds one row for each call
\* that was committed and none for a call that was lost (the transaction of writeRow).
THEOREM EachCallOneRow == Spec => []OneRowPerCall
<1>1. Init => SignedOnce /\ CommittedKept
  BY DEF Init, SignedOnce, CommittedKept, Unwritten
<1>2. Inv /\ SignedOnce /\ CommittedKept /\ [Next]_vars => SignedOnce' /\ CommittedKept'
  BY SignedOnceStep, CommittedStep
<1>3. SignedOnce /\ CommittedKept => OneRowPerCall
  BY DEF SignedOnce, CommittedKept, OneRowPerCall, Sigs
<1> QED BY <1>1, <1>2, <1>3, InitInv, NextInv, PTL DEF Spec

=============================================================================

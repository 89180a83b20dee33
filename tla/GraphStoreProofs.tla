-------------------------- MODULE GraphStoreProofs ---------------------------
(* Proofs about GraphStore, for any number of processes and lock identities. *)
EXTENDS GraphStore, TLAPS

-----------------------------------------------------------------------------
(* Types, and what the control flow gives by itself *)

(* Which commands get where, and what a reader that has looked may rely on. *)
Placed ==
    /\ \A p \in Procs : command[p] = "check" => pc[p] \in {"idle", "reading", "looked"} \cup FINISHED
    /\ \A p \in Procs : command[p] = "init" => pc[p] \notin {"reading", "looked", "loaded"}
    /\ \A p \in Procs : command[p] = "mutate" => pc[p] \notin {"reading", "linked"}
    /\ \A p \in Procs : pc[p] = "looked" => graph # NoGraph

Typed == TypeOK /\ Placed /\ GraphWhole

LEMMA TypedInit == Init => Typed
  BY StoreAssumption DEF Init, Typed, TypeOK, Placed, GraphWhole, Documents, STEPS,
     COMMANDS,
                         Holding, LOCKED, FINISHED

LEMMA TypedStep == Typed /\ [Next]_vars => Typed'
  <1> SUFFICES ASSUME Typed, [Next]_vars
               PROVE  Typed'
    OBVIOUS
  <1> USE StoreAssumption DEF Typed, TypeOK, Placed, GraphWhole, Documents, STEPS, COMMANDS,
                              Holding, LOCKED, FINISHED, Running
  <1>1. ASSUME NEW p \in Procs, Begin(p) PROVE Typed'
    BY <1>1 DEF Begin, files, memory, around, Goto, Raise
  <1>2. ASSUME NEW p \in Procs, CreateLock(p) PROVE Typed'
    BY <1>2 DEF CreateLock, around, Goto, LockFree, Unused
  <1>3. ASSUME NEW p \in Procs, TimeOut(p) PROVE Typed'
    BY <1>3 DEF TimeOut, files, memory, around, Raise
  <1>4. ASSUME NEW p \in Procs, WritePid(p) PROVE Typed'
    BY <1>4 DEF WritePid, files, memory, around, Goto
  <1>5. ASSUME NEW p \in Procs, WritePidFails(p) PROVE Typed'
    BY <1>5 DEF WritePidFails, files, around, Raise
  <1>6. ASSUME NEW p \in Procs, Look(p) PROVE Typed'
    BY <1>6 DEF Look, files, around, Goto, Refuse, Raise
  <1>7. ASSUME NEW p \in Procs, Open(p) PROVE Typed'
    BY <1>7 DEF Open, files, around, Goto, Refuse, Raise, SameFile
  <1>8. ASSUME NEW p \in Procs, Operate(p) PROVE Typed'
    BY <1>8 DEF Operate, files, around, Goto, Refuse, Raise
  <1>9. ASSUME NEW p \in Procs, NewDocument(p) PROVE Typed'
    BY <1>9 DEF NewDocument, files, around, Goto, Refuse, Raise
  <1>10. ASSUME NEW p \in Procs, WriteTemp(p) PROVE Typed'
    BY <1>10 DEF WriteTemp, files, around
  <1>11. ASSUME NEW p \in Procs, SaveFails(p) PROVE Typed'
    BY <1>11 DEF SaveFails, files, around, Refuse, Raise
  <1>12. ASSUME NEW p \in Procs, Replace(p) PROVE Typed'
    BY <1>12 DEF Replace, around, Published, Complete
  <1>13. ASSUME NEW p \in Procs, Link(p) PROVE Typed'
    <2>1. CASE LinkFree /\ Published(p) /\ pc' = [pc EXCEPT ![p] = "linked"]
      BY <1>13, <2>1 DEF Link, around, Published, Complete, LinkFree
    <2>2. CASE graph # NoGraph /\ Refuse(p) /\ UNCHANGED files
      BY <1>13, <2>2 DEF Link, files, around, Refuse, Raise
    <2> QED BY <1>13, <2>1, <2>2 DEF Link
  <1>14. ASSUME NEW p \in Procs, UnlinkTemp(p) PROVE Typed'
    BY <1>14 DEF UnlinkTemp, files, around, Goto, Raise
  <1>15. ASSUME NEW p \in Procs, CloseLock(p) PROVE Typed'
    BY <1>15 DEF CloseLock, files, around, Goto
  <1>16. ASSUME NEW p \in Procs, CompareLock(p) PROVE Typed'
    BY <1>16 DEF CompareLock, files, memory, around, Goto, AfterRelease
  <1>17. ASSUME NEW p \in Procs, UnlinkLock(p) PROVE Typed'
    BY <1>17 DEF UnlinkLock, memory, around, Goto, AfterRelease
  <1>18. ASSUME NEW p \in Procs, ReleaseFails(p) PROVE Typed'
    BY <1>18 DEF ReleaseFails, files, memory, around, Raise
  <1>19. ASSUME NEW p \in Procs, Observe(p) PROVE Typed'
    BY <1>19 DEF Observe, files, memory, Goto
  <1>20. ASSUME NEW p \in Procs, Crash(p) PROVE Typed'
    BY <1>20 DEF Crash, files, around
  <1>21. CASE Flush
    BY <1>21 DEF Flush, memory, around
  <1>22. CASE PowerFailure
    BY <1>22 DEF PowerFailure
  <1>23. CASE DecideRemoval
    BY <1>23 DEF DecideRemoval, files, memory, Confirmed
  <1>24. CASE RemoveLock
    BY <1>24 DEF RemoveLock, memory
  <1>25. CASE UNCHANGED vars
    BY <1>25 DEF vars, files, memory, around
  <1> HIDE DEF Typed
  <1>26. QED
    BY <1>1, <1>2, <1>3, <1>4, <1>5, <1>6, <1>7, <1>8, <1>9, <1>10, <1>11, <1>12, <1>13,
       <1>14, <1>15, <1>16, <1>17, <1>18, <1>19, <1>20, <1>21, <1>22, <1>23, <1>24,
       <1>25 DEF Next, Step

(* Every state is well formed, and a descriptor of the lock file is kept     *)
(* exactly as long as the code says.                                        *)
THEOREM StoreTypeCorrect == Spec => []TypeOK
  <1>1. Typed => TypeOK
    BY DEF Typed
  <1>2. QED
    BY <1>1, TypedInit, TypedStep, PTL DEF Spec

(* Nobody finds half a document, whoever removes which lock when: only a     *)
(* written and flushed file is ever given the name of the graph.            *)
THEOREM NeverTorn == Spec => []GraphWhole
  <1>1. Typed => GraphWhole
    BY DEF Typed
  <1>2. QED
    BY <1>1, TypedInit, TypedStep, PTL DEF Spec

-----------------------------------------------------------------------------
(* Mutual exclusion *)

(* The holder's lock is the file at lock_path, and nobody is about to        *)
(* remove it; while somebody is, the file is there and nobody can enter.    *)
LockInv ==
    Careful =>
        /\ \A p \in Procs : Holding(p) => /\ lock = identity[p] /\ lock # None
                                          /\ removing = None
        /\ \A p, q \in Procs : Holding(p) /\ Holding(q) => p = q
        /\ removing # None => lock # None

LEMMA LockInit == Init => LockInv
  BY DEF Init, LockInv, Holding, LOCKED

LEMMA LockStep == Typed /\ LockInv /\ [Next]_vars => LockInv'
  <1> SUFFICES ASSUME Typed, LockInv, [Next]_vars
               PROVE  LockInv'
    OBVIOUS
  <1> USE StoreAssumption DEF Typed, TypeOK, Placed, STEPS, COMMANDS, Holding, LOCKED,
     FINISHED, Running, LockInv
  <1>1. ASSUME NEW p \in Procs, Begin(p) PROVE LockInv'
    BY <1>1 DEF Begin, files, memory, around, Goto, Raise
  <1>2. ASSUME NEW p \in Procs, CreateLock(p) PROVE LockInv'
    BY <1>2 DEF CreateLock, around, Goto, LockFree, Unused
  <1>3. ASSUME NEW p \in Procs, TimeOut(p) PROVE LockInv'
    BY <1>3 DEF TimeOut, files, memory, around, Raise
  <1>4. ASSUME NEW p \in Procs, WritePid(p) PROVE LockInv'
    BY <1>4 DEF WritePid, files, memory, around, Goto
  <1>5. ASSUME NEW p \in Procs, WritePidFails(p) PROVE LockInv'
    BY <1>5 DEF WritePidFails, files, around, Raise
  <1>6. ASSUME NEW p \in Procs, Look(p) PROVE LockInv'
    BY <1>6 DEF Look, files, around, Goto, Refuse, Raise
  <1>7. ASSUME NEW p \in Procs, Open(p) PROVE LockInv'
    BY <1>7 DEF Open, files, around, Goto, Refuse, Raise, SameFile
  <1>8. ASSUME NEW p \in Procs, Operate(p) PROVE LockInv'
    BY <1>8 DEF Operate, files, around, Goto, Refuse, Raise
  <1>9. ASSUME NEW p \in Procs, NewDocument(p) PROVE LockInv'
    BY <1>9 DEF NewDocument, files, around, Goto, Refuse, Raise
  <1>10. ASSUME NEW p \in Procs, WriteTemp(p) PROVE LockInv'
    BY <1>10 DEF WriteTemp, files, around
  <1>11. ASSUME NEW p \in Procs, SaveFails(p) PROVE LockInv'
    BY <1>11 DEF SaveFails, files, around, Refuse, Raise
  <1>12. ASSUME NEW p \in Procs, Replace(p) PROVE LockInv'
    BY <1>12 DEF Replace, around, Published, Complete
  <1>13. ASSUME NEW p \in Procs, Link(p) PROVE LockInv'
    BY <1>13 DEF Link, files, around, Refuse, Raise, Published, Complete, LinkFree
  <1>14. ASSUME NEW p \in Procs, UnlinkTemp(p) PROVE LockInv'
    BY <1>14 DEF UnlinkTemp, files, around, Goto, Raise
  <1>15. ASSUME NEW p \in Procs, CloseLock(p) PROVE LockInv'
    BY <1>15 DEF CloseLock, files, around, Goto
  <1>16. ASSUME NEW p \in Procs, CompareLock(p) PROVE LockInv'
    BY <1>16 DEF CompareLock, files, memory, around, Goto, AfterRelease
  <1>17. ASSUME NEW p \in Procs, UnlinkLock(p) PROVE LockInv'
    BY <1>17 DEF UnlinkLock, memory, around, Goto, AfterRelease
  <1>18. ASSUME NEW p \in Procs, ReleaseFails(p) PROVE LockInv'
    BY <1>18 DEF ReleaseFails, files, memory, around, Raise
  <1>19. ASSUME NEW p \in Procs, Observe(p) PROVE LockInv'
    BY <1>19 DEF Observe, files, memory, Goto
  <1>20. ASSUME NEW p \in Procs, Crash(p) PROVE LockInv'
    BY <1>20 DEF Crash, files, around
  <1>21. CASE Flush
    BY <1>21 DEF Flush, memory, around
  <1>22. CASE PowerFailure
    BY <1>22 DEF PowerFailure
  <1>23. CASE DecideRemoval
    BY <1>23 DEF DecideRemoval, files, memory, Confirmed
  <1>24. CASE RemoveLock
    BY <1>24 DEF RemoveLock, memory
  <1>25. CASE UNCHANGED vars
    BY <1>25 DEF vars, files, memory, around
  <1> HIDE DEF Typed, LockInv
  <1>26. QED
    BY <1>1, <1>2, <1>3, <1>4, <1>5, <1>6, <1>7, <1>8, <1>9, <1>10, <1>11, <1>12, <1>13,
       <1>14, <1>15, <1>16, <1>17, <1>18, <1>19, <1>20, <1>21, <1>22, <1>23, <1>24,
       <1>25 DEF Next, Step

(* Two processes are never inside the lock together, while people confirm    *)
(* that nothing runs before they remove a lock.                             *)
THEOREM LockExcludes == Spec => []MutualExclusion
  <1>1. LockInv => MutualExclusion
    BY DEF LockInv, MutualExclusion
  <1>2. QED
    BY <1>1, TypedInit, TypedStep, LockInit, LockStep, PTL DEF Spec

-----------------------------------------------------------------------------
(* Nothing lost *)

\* Success that a command is about to report, or has reported.
Succeeded(p) == outcome[p] = "ok" /\ command[p] # "check"

\* Not yet published.
BEFORE == {"idle", "trying", "reading", "created", "locked", "looked", "loaded", "saving"}

\* Whoever has not published is in no document, not even in the one a power
\* failure may restore.
Unpublished(p) ==
    pc[p] \in BEFORE =>
        /\ graph # NoGraph => p \notin graph
        /\ durable # NoGraph => p \notin durable
        /\ outcome[p] = "none"
        /\ p \notin recorded

\* What a transaction and an init know of the file while they hold the lock.
TransactionKnows(p) ==
    command[p] = "mutate" =>
        /\ pc[p] = "looked" => stamp = seen[p]
        /\ pc[p] = "loaded" => graph # NoGraph /\ held[p] = graph
        /\ pc[p] = "saving" => graph # NoGraph /\ held[p] = graph \cup {p}

InitKnows(p) ==
    command[p] = "init" /\ pc[p] = "saving" => graph = NoGraph /\ held[p] = {p}

\* Whoever succeeded is in the file.
Kept(p) ==
    /\ pc[p] = "observing" => Succeeded(p)
    /\ Succeeded(p) /\ (Running(p) \/ outages = 0) => graph # NoGraph /\ p \in graph

(* What a process inside the lock knows of the file, and what the file knows *)
(* of the processes.                                                        *)
FileInv ==
    Careful =>
        /\ media = graph
        /\ \A p \in Procs : Unpublished(p)
        /\ \A p \in Procs : TransactionKnows(p) /\ InitKnows(p)
        /\ \A p \in Procs : Kept(p)
        /\ \A p \in recorded : outages = 0 => graph # NoGraph /\ p \in graph

LEMMA FileInit == Init => FileInv
  BY StoreAssumption DEF Init, FileInv, Unpublished, TransactionKnows,
     InitKnows, Kept, Succeeded, Running, BEFORE

LEMMA FileStep == Typed /\ LockInv /\ FileInv /\ [Next]_vars => FileInv'
  <1> SUFFICES ASSUME Typed, LockInv, FileInv, [Next]_vars
               PROVE  FileInv'
    OBVIOUS
  <1> USE StoreAssumption DEF Typed, TypeOK, Placed, GraphWhole, Documents, STEPS,
     COMMANDS, Holding, LOCKED, FINISHED, Running, LockInv, FileInv, Unpublished, TransactionKnows,
     InitKnows, Kept, Succeeded, BEFORE
  <1>1. ASSUME NEW p \in Procs, Begin(p) PROVE FileInv'
    BY <1>1 DEF Begin, files, memory, around, Goto, Raise
  <1>2. ASSUME NEW p \in Procs, CreateLock(p) PROVE FileInv'
    BY <1>2 DEF CreateLock, around, Goto, LockFree, Unused
  <1>3. ASSUME NEW p \in Procs, TimeOut(p) PROVE FileInv'
    BY <1>3 DEF TimeOut, files, memory, around, Raise
  <1>4. ASSUME NEW p \in Procs, WritePid(p) PROVE FileInv'
    BY <1>4 DEF WritePid, files, memory, around, Goto
  <1>5. ASSUME NEW p \in Procs, WritePidFails(p) PROVE FileInv'
    BY <1>5 DEF WritePidFails, files, around, Raise
  <1>6. ASSUME NEW p \in Procs, Look(p) PROVE FileInv'
    BY <1>6 DEF Look, files, around, Goto, Refuse, Raise
  <1>7. ASSUME NEW p \in Procs, Open(p) PROVE FileInv'
    BY <1>7 DEF Open, files, around, Goto, Refuse, Raise, SameFile
  <1>8. ASSUME NEW p \in Procs, Operate(p) PROVE FileInv'
    BY <1>8 DEF Operate, files, around, Goto, Refuse, Raise
  <1>9. ASSUME NEW p \in Procs, NewDocument(p) PROVE FileInv'
    BY <1>9 DEF NewDocument, files, around, Goto, Refuse, Raise
  <1>10. ASSUME NEW p \in Procs, WriteTemp(p) PROVE FileInv'
    BY <1>10 DEF WriteTemp, files, around
  <1>11. ASSUME NEW p \in Procs, SaveFails(p) PROVE FileInv'
    BY <1>11 DEF SaveFails, files, around, Refuse, Raise
  <1>12. ASSUME NEW p \in Procs, Replace(p) PROVE FileInv'
    <2> SUFFICES ASSUME Careful PROVE FileInv'
      OBVIOUS
    <2>1. /\ graph # NoGraph /\ graph' = graph \cup {p} /\ graph' # NoGraph /\ media' = graph'
          /\ pc' = [pc EXCEPT ![p] = "releasing"] /\ outcome' = [outcome EXCEPT ![p] = "ok"]
          /\ UNCHANGED <<durable, command, held, seen, recorded, outages>>
      BY <1>12 DEF Replace, around, Published, Complete
    <2>2. \A q \in Procs \ {p} : ~ Holding(q) /\ pc'[q] = pc[q] /\ outcome'[q] = outcome[q]
      BY <1>12, <2>1 DEF Replace
    <2>3. pc'[p] = "releasing" /\ outcome'[p] = "ok" /\ command[p] = "mutate"
      BY <1>12, <2>1 DEF Replace
    <2>4. \A q \in Procs : Unpublished(q)'
      BY <2>1, <2>2, <2>3
    <2>5. \A q \in Procs : TransactionKnows(q)' /\ InitKnows(q)'
      BY <2>1, <2>2, <2>3
    <2>6. \A q \in Procs : Kept(q)'
      BY <2>1, <2>2, <2>3
    <2>7. \A q \in recorded' : outages' = 0 => graph' # NoGraph /\ q \in graph'
      BY <2>1
    <2> QED BY <2>1, <2>4, <2>5, <2>6, <2>7
  <1>13. ASSUME NEW p \in Procs, Link(p) PROVE FileInv'
    <2> SUFFICES ASSUME Careful PROVE FileInv'
      OBVIOUS
    <2>1. CASE graph # NoGraph
      BY <1>13, <2>1 DEF Link, files, around, Refuse, Raise, LinkFree
    <2>2. CASE graph = NoGraph
      <3>1. /\ graph' = {p} /\ graph' # NoGraph /\ media' = graph'
            /\ pc' = [pc EXCEPT ![p] = "linked"] /\ outcome' = [outcome EXCEPT ![p] = "ok"]
            /\ UNCHANGED <<durable, command, held, seen, recorded, outages>>
        BY <1>13, <2>2 DEF Link, around, Published, Complete, LinkFree
      <3>2. \A q \in Procs \ {p} : ~ Holding(q) /\ pc'[q] = pc[q] /\ outcome'[q] = outcome[q]
        BY <1>13, <3>1 DEF Link
      <3>3. pc'[p] = "linked" /\ outcome'[p] = "ok" /\ command[p] = "init"
        BY <1>13, <3>1 DEF Link
      <3>4. \A q \in Procs : Unpublished(q)'
        BY <3>1, <3>2, <3>3
      <3>5. \A q \in Procs : TransactionKnows(q)' /\ InitKnows(q)'
        BY <3>1, <3>2, <3>3
      <3>6. \A q \in Procs : Kept(q)'
        BY <2>2, <3>1, <3>2, <3>3
      <3>7. \A q \in recorded' : outages' = 0 => graph' # NoGraph /\ q \in graph'
        BY <2>2, <3>1
      <3> QED BY <3>1, <3>4, <3>5, <3>6, <3>7
    <2> QED BY <2>1, <2>2
  <1>14. ASSUME NEW p \in Procs, UnlinkTemp(p) PROVE FileInv'
    BY <1>14 DEF UnlinkTemp, files, around, Goto, Raise
  <1>15. ASSUME NEW p \in Procs, CloseLock(p) PROVE FileInv'
    BY <1>15 DEF CloseLock, files, around, Goto
  <1>16. ASSUME NEW p \in Procs, CompareLock(p) PROVE FileInv'
    BY <1>16 DEF CompareLock, files, memory, around, Goto, AfterRelease
  <1>17. ASSUME NEW p \in Procs, UnlinkLock(p) PROVE FileInv'
    BY <1>17 DEF UnlinkLock, memory, around, Goto, AfterRelease
  <1>18. ASSUME NEW p \in Procs, ReleaseFails(p) PROVE FileInv'
    BY <1>18 DEF ReleaseFails, files, memory, around, Raise
  <1>19. ASSUME NEW p \in Procs, Observe(p) PROVE FileInv'
    BY <1>19 DEF Observe, files, memory, Goto
  <1>20. ASSUME NEW p \in Procs, Crash(p) PROVE FileInv'
    BY <1>20 DEF Crash, files, around
  <1>21. CASE Flush
    BY <1>21 DEF Flush, memory, around
  <1>22. CASE PowerFailure
    BY <1>22 DEF PowerFailure
  <1>23. CASE DecideRemoval
    BY <1>23 DEF DecideRemoval, files, memory, Confirmed
  <1>24. CASE RemoveLock
    BY <1>24 DEF RemoveLock, memory
  <1>25. CASE UNCHANGED vars
    BY <1>25 DEF vars, files, memory, around
  <1> HIDE DEF Typed, LockInv, FileInv
  <1>26. QED
    BY <1>1, <1>2, <1>3, <1>4, <1>5, <1>6, <1>7, <1>8, <1>9, <1>10, <1>11, <1>12, <1>13,
       <1>14, <1>15, <1>16, <1>17, <1>18, <1>19, <1>20, <1>21, <1>22, <1>23, <1>24,
       <1>25 DEF Next, Step

(* The file stays what a transaction looked at until it publishes its        *)
(* result: it is never refused for a change, and no transition saved by     *)
(* another process is lost.                                                 *)
THEOREM TransactionReadsCurrent == Spec => []ReadIsCurrent
  <1>1. Typed /\ FileInv => ReadIsCurrent
    <2> SUFFICES ASSUME Typed, FileInv, Careful, NEW p \in Procs
                 PROVE  /\ pc[p] = "looked" /\ command[p] = "mutate" => stamp = seen[p]
                        /\ pc[p] = "saving" =>
                             IF command[p] = "init" THEN graph = NoGraph /\ held[p] = {p}
                             ELSE held[p] = graph \cup {p} /\ p \notin graph
      BY DEF ReadIsCurrent
    <2>1. pc[p] = "looked" /\ command[p] = "mutate" => stamp = seen[p]
      BY DEF FileInv, TransactionKnows
    <2>2. ASSUME pc[p] = "saving"
          PROVE  IF command[p] = "init" THEN graph = NoGraph /\ held[p] = {p}
                 ELSE held[p] = graph \cup {p} /\ p \notin graph
      BY <2>2 DEF Typed, TypeOK, Placed, FINISHED, FileInv, Unpublished,
         TransactionKnows, InitKnows, COMMANDS, Documents, BEFORE
    <2> QED BY <2>1, <2>2
  <1>2. QED
    BY <1>1, TypedInit, TypedStep, LockInit, LockStep, FileInit, FileStep, PTL DEF Spec

(* Reported and recorded transitions are in the file, until the power fails. *)
THEOREM AcknowledgedStays == Spec => []AcknowledgedKept
  <1>1. Typed /\ FileInv => AcknowledgedKept
    BY DEF Typed, TypeOK, Placed, FINISHED, FileInv, Kept, COMMANDS,
       Documents, Succeeded, GraphWhole, AcknowledgedKept
  <1>2. QED
    BY <1>1, TypedInit, TypedStep, LockInit, LockStep, FileInit, FileStep, PTL DEF Spec

-----------------------------------------------------------------------------
(* What holds even if locks in use are removed *)

(* A transaction carries on the init whose document it read, and an init     *)
(* that publishes finds nothing it could replace.                           *)
BaseInv ==
    outages = 0 =>
        /\ \A p \in Inits : outcome[p] = "ok" => graph # NoGraph /\ graph \cap Inits = {p}
        /\ \A p \in Inits : pc[p] = "saving" => held[p] = {p}
        /\ \A p \in Procs : command[p] = "mutate" /\ pc[p] \in {"loaded", "saving"} =>
              graph # NoGraph /\ held[p] \cap Inits = graph \cap Inits

RacyInv == BaseInv /\ LockAccounted

LEMMA RacyInit == Init => RacyInv
  BY DEF Init, RacyInv, BaseInv, LockAccounted, Inits

LEMMA RacyStep == Typed /\ RacyInv /\ [Next]_vars => RacyInv'
  <1> SUFFICES ASSUME Typed, RacyInv, [Next]_vars
               PROVE  RacyInv'
    OBVIOUS
  <1> USE StoreAssumption DEF Typed, TypeOK, Placed, STEPS, COMMANDS, Holding, LOCKED,
     FINISHED, Running, RacyInv, BaseInv, LockAccounted, Inits
  <1>1. ASSUME NEW p \in Procs, Begin(p) PROVE RacyInv'
    BY <1>1 DEF Begin, files, memory, around, Goto, Raise
  <1>2. ASSUME NEW p \in Procs, CreateLock(p) PROVE RacyInv'
    BY <1>2 DEF CreateLock, around, Goto, LockFree, Unused
  <1>3. ASSUME NEW p \in Procs, TimeOut(p) PROVE RacyInv'
    BY <1>3 DEF TimeOut, files, memory, around, Raise
  <1>4. ASSUME NEW p \in Procs, WritePid(p) PROVE RacyInv'
    BY <1>4 DEF WritePid, files, memory, around, Goto
  <1>5. ASSUME NEW p \in Procs, WritePidFails(p) PROVE RacyInv'
    BY <1>5 DEF WritePidFails, files, around, Raise
  <1>6. ASSUME NEW p \in Procs, Look(p) PROVE RacyInv'
    BY <1>6 DEF Look, files, around, Goto, Refuse, Raise
  <1>7. ASSUME NEW p \in Procs, Open(p) PROVE RacyInv'
    BY <1>7 DEF Open, files, around, Goto, Refuse, Raise, SameFile
  <1>8. ASSUME NEW p \in Procs, Operate(p) PROVE RacyInv'
    BY <1>8 DEF Operate, files, around, Goto, Refuse, Raise
  <1>9. ASSUME NEW p \in Procs, NewDocument(p) PROVE RacyInv'
    BY <1>9 DEF NewDocument, files, around, Goto, Refuse, Raise
  <1>10. ASSUME NEW p \in Procs, WriteTemp(p) PROVE RacyInv'
    BY <1>10 DEF WriteTemp, files, around
  <1>11. ASSUME NEW p \in Procs, SaveFails(p) PROVE RacyInv'
    BY <1>11 DEF SaveFails, files, around, Refuse, Raise
  <1>12. ASSUME NEW p \in Procs, Replace(p) PROVE RacyInv'
    <2>1. /\ graph' = held[p] /\ graph' # NoGraph
          /\ pc' = [pc EXCEPT ![p] = "releasing"] /\ outcome' = [outcome EXCEPT ![p] = "ok"]
          /\ UNCHANGED <<lock, command, identity, held, outages>>
          /\ command[p] = "mutate" /\ pc[p] = "saving"
      BY <1>12 DEF Replace, around, Published, Complete, Documents
    <2>2. outages = 0 => graph # NoGraph /\ graph' \cap Inits = graph \cap Inits
      BY <2>1
    <2>3. BaseInv'
      BY <2>1, <2>2
    <2>4. LockAccounted'
      BY <2>1
    <2> QED BY <2>3, <2>4
  <1>13. ASSUME NEW p \in Procs, Link(p) PROVE RacyInv'
    BY <1>13 DEF Link, files, around, Refuse, Raise, Published, Complete, LinkFree
  <1>14. ASSUME NEW p \in Procs, UnlinkTemp(p) PROVE RacyInv'
    BY <1>14 DEF UnlinkTemp, files, around, Goto, Raise
  <1>15. ASSUME NEW p \in Procs, CloseLock(p) PROVE RacyInv'
    BY <1>15 DEF CloseLock, files, around, Goto
  <1>16. ASSUME NEW p \in Procs, CompareLock(p) PROVE RacyInv'
    BY <1>16 DEF CompareLock, files, memory, around, Goto, AfterRelease
  <1>17. ASSUME NEW p \in Procs, UnlinkLock(p) PROVE RacyInv'
    BY <1>17 DEF UnlinkLock, memory, around, Goto, AfterRelease
  <1>18. ASSUME NEW p \in Procs, ReleaseFails(p) PROVE RacyInv'
    BY <1>18 DEF ReleaseFails, files, memory, around, Raise
  <1>19. ASSUME NEW p \in Procs, Observe(p) PROVE RacyInv'
    BY <1>19 DEF Observe, files, memory, Goto
  <1>20. ASSUME NEW p \in Procs, Crash(p) PROVE RacyInv'
    BY <1>20 DEF Crash, files, around
  <1>21. CASE Flush
    BY <1>21 DEF Flush, memory, around
  <1>22. CASE PowerFailure
    BY <1>22 DEF PowerFailure
  <1>23. CASE DecideRemoval
    BY <1>23 DEF DecideRemoval, files, memory, Confirmed
  <1>24. CASE RemoveLock
    BY <1>24 DEF RemoveLock, memory
  <1>25. CASE UNCHANGED vars
    BY <1>25 DEF vars, files, memory, around
  <1> HIDE DEF Typed, RacyInv
  <1>26. QED
    BY <1>1, <1>2, <1>3, <1>4, <1>5, <1>6, <1>7, <1>8, <1>9, <1>10, <1>11, <1>12, <1>13,
       <1>14, <1>15, <1>16, <1>17, <1>18, <1>19, <1>20, <1>21, <1>22, <1>23, <1>24,
       <1>25 DEF Next, Step

(* An init that reported success is what every later graph grew from.        *)
THEOREM InitStaysTheBase == Spec => []InitIsTheBase
  <1>1. Typed /\ RacyInv => InitIsTheBase
    BY DEF Typed, GraphWhole, RacyInv, BaseInv, InitIsTheBase
  <1>2. QED
    BY <1>1, TypedInit, TypedStep, RacyInit, RacyStep, PTL DEF Spec

(* A lock that stays behind is its living holder's, or of a process that was *)
(* killed or ended with an error.                                           *)
THEOREM LocksAccounted == Spec => []LockAccounted
  <1>1. RacyInv => LockAccounted
    BY DEF RacyInv
  <1>2. QED
    BY <1>1, TypedInit, TypedStep, RacyInit, RacyStep, PTL DEF Spec

-----------------------------------------------------------------------------
(* Storage implements the register *)

\* The commands that have reported success, as in GraphStore!Register.
Answered == {p \in Procs : command[p] # "check" /\ outcome[p] = "ok" /\ pc[p] = "ended"}

LEMMA RegisterInit == Init => Register!Init
  BY DEF Init, Register!Init

(* A command other than Replace, Link and Observe leaves the register alone. *)
LEMMA RegisterStep ==
    Careful /\ Typed /\ LockInv /\ FileInv /\ [Next]_vars => [Register!Next]_(Register!vars)
  <1> DEFINE Stutter == UNCHANGED <<graph, durable, Answered>>
  <1> SUFFICES ASSUME Careful, Typed, LockInv, FileInv, [Next]_vars
               PROVE  Register!Next \/ Stutter
    BY DEF Register!vars, Answered
  <1> USE StoreAssumption DEF Typed, TypeOK, Placed, GraphWhole, Documents, STEPS,
     COMMANDS, LOCKED,
                              FINISHED, Running, FileInv, Unpublished, TransactionKnows,
     InitKnows, Kept,
                              Succeeded, BEFORE, Answered
  <1>1. ASSUME NEW p \in Procs, Begin(p) PROVE Register!Next \/ Stutter
    BY <1>1 DEF Begin, files, memory, around, Goto, Raise
  <1>2. ASSUME NEW p \in Procs, CreateLock(p) PROVE Register!Next \/ Stutter
    BY <1>2 DEF CreateLock, around, Goto, LockFree, Unused
  <1>3. ASSUME NEW p \in Procs, TimeOut(p) PROVE Register!Next \/ Stutter
    BY <1>3 DEF TimeOut, files, memory, around, Raise
  <1>4. ASSUME NEW p \in Procs, WritePid(p) PROVE Register!Next \/ Stutter
    BY <1>4 DEF WritePid, files, memory, around, Goto
  <1>5. ASSUME NEW p \in Procs, WritePidFails(p) PROVE Register!Next \/ Stutter
    BY <1>5 DEF WritePidFails, files, around, Raise
  <1>6. ASSUME NEW p \in Procs, Look(p) PROVE Register!Next \/ Stutter
    BY <1>6 DEF Look, files, around, Goto, Refuse, Raise
  <1>7. ASSUME NEW p \in Procs, Open(p) PROVE Register!Next \/ Stutter
    BY <1>7 DEF Open, files, around, Goto, Refuse, Raise, SameFile
  <1>8. ASSUME NEW p \in Procs, Operate(p) PROVE Register!Next \/ Stutter
    BY <1>8 DEF Operate, files, around, Goto, Refuse, Raise
  <1>9. ASSUME NEW p \in Procs, NewDocument(p) PROVE Register!Next \/ Stutter
    BY <1>9 DEF NewDocument, files, around, Goto, Refuse, Raise
  <1>10. ASSUME NEW p \in Procs, WriteTemp(p) PROVE Register!Next \/ Stutter
    BY <1>10 DEF WriteTemp, files, around
  <1>11. ASSUME NEW p \in Procs, SaveFails(p) PROVE Register!Next \/ Stutter
    BY <1>11 DEF SaveFails, files, around, Refuse, Raise
  <1>12. ASSUME NEW p \in Procs, Replace(p) PROVE Register!Next \/ Stutter
    <2>1. Answered' = Answered
      BY <1>12 DEF Replace, around, Published, Complete
    <2>2. Register!Extend(p)
      BY <1>12, <2>1 DEF Replace, around, Published, Complete, Register!Extend
    <2>3. QED
      BY <2>2 DEF Register!Next
  <1>13. ASSUME NEW p \in Procs, Link(p) PROVE Register!Next \/ Stutter
    <2>1. Answered' = Answered
      BY <1>13 DEF Link, files, around, Refuse, Raise, Published, Complete, LinkFree
    <2>2. CASE graph' = graph /\ durable' = durable
      BY <2>1, <2>2
    <2>3. CASE ~(graph' = graph /\ durable' = durable)
      <3>1. Register!Create(p)
        BY <1>13, <2>1, <2>3 DEF Link, files, around, Refuse, Raise, Published, Complete,
           LinkFree, Register!Create
      <3>2. QED
        BY <3>1 DEF Register!Next
    <2>4. QED
      BY <2>2, <2>3
  <1>14. ASSUME NEW p \in Procs, UnlinkTemp(p) PROVE Register!Next \/ Stutter
    BY <1>14 DEF UnlinkTemp, files, around, Goto, Raise
  <1>15. ASSUME NEW p \in Procs, CloseLock(p) PROVE Register!Next \/ Stutter
    BY <1>15 DEF CloseLock, files, around, Goto
  <1>16. ASSUME NEW p \in Procs, CompareLock(p) PROVE Register!Next \/ Stutter
    BY <1>16 DEF CompareLock, files, memory, around, Goto, AfterRelease
  <1>17. ASSUME NEW p \in Procs, UnlinkLock(p) PROVE Register!Next \/ Stutter
    BY <1>17 DEF UnlinkLock, memory, around, Goto, AfterRelease
  <1>18. ASSUME NEW p \in Procs, ReleaseFails(p) PROVE Register!Next \/ Stutter
    BY <1>18 DEF ReleaseFails, files, memory, around, Raise
  <1>19. ASSUME NEW p \in Procs, Observe(p) PROVE Register!Next \/ Stutter
    <2>1. Answered' = Answered \cup {p}
      BY <1>19 DEF Observe, files, memory, Goto
    <2>2. Register!Acknowledge(p)
      BY <1>19, <2>1 DEF Observe, files, memory, Goto, Register!Acknowledge
    <2>3. QED
      BY <2>2 DEF Register!Next
  <1>20. ASSUME NEW p \in Procs, Crash(p) PROVE Register!Next \/ Stutter
    BY <1>20 DEF Crash, files, around
  <1>21. CASE Flush
    BY <1>21 DEF Flush, files, memory, around, Register!Next, Register!Settle
  <1>22. CASE PowerFailure
    <2>1. Answered' = Answered
      BY <1>22 DEF PowerFailure
    <2>2. Register!Fallback
      BY <1>22, <2>1 DEF PowerFailure, Register!Fallback
    <2>3. QED
      BY <2>2 DEF Register!Next
  <1>23. CASE DecideRemoval
    BY <1>23 DEF DecideRemoval, files, memory
  <1>24. CASE RemoveLock
    BY <1>24 DEF RemoveLock, files, memory
  <1>25. CASE UNCHANGED vars
    BY <1>25 DEF vars, files
  <1> HIDE DEF Typed, LockInv, FileInv, Stutter
  <1>26. QED
    BY <1>1, <1>2, <1>3, <1>4, <1>5, <1>6, <1>7, <1>8, <1>9, <1>10, <1>11, <1>12, <1>13,
       <1>14, <1>15, <1>16, <1>17, <1>18, <1>19, <1>20, <1>21, <1>22, <1>23, <1>24,
       <1>25 DEF Next, Step

(* Where stale locks are removed with care, storage is the register: every   *)
(* published document is the one before it with one command's transition,   *)
(* and success is reported for transitions that are in it.                  *)
THEOREM StoreIsRegister ==
    ASSUME Careful
    PROVE  Spec => RegisterSpec
  <1>1. Typed /\ LockInv /\ FileInv /\ [Next]_vars => [Register!Next]_(Register!vars)
    BY RegisterStep
  <1>2. QED
    BY <1>1, RegisterInit, TypedInit, TypedStep, LockInit, LockStep, FileInit, FileStep,
       PTL DEF Spec, RegisterSpec, Register!Spec

=============================================================================

----------------------------- MODULE GraphStore ------------------------------
(***************************************************************************)
(* agent_harness/storage.py under any number of graphctl processes: the    *)
(* lock file, reading the graph, and publishing it by rename (mutating     *)
(* commands) or by link (init), as cli.py drives them.  A step is one call *)
(* to the operating system, so everything the system offers may come in    *)
(* between: other processes, a crash, a power failure, and the person of   *)
(* core/recovery.md who removes a stale lock.                              *)
(*                                                                         *)
(* A document is the set of the processes whose transition it contains.    *)
(* What a transition does to the nodes, and when it is refused, is         *)
(* TaskGraph's subject; here a transition is accepted or refused freely.   *)
(***************************************************************************)
EXTENDS Naturals

CONSTANTS
    Procs,       \* graphctl processes; each runs one command
    Inodes,      \* identities (st_dev, st_ino) of lock files; they are reused
    None,        \* Python's None
    NoGraph,     \* no file at the path of the graph
    Torn,        \* a file whose content is not a whole document
    Careful,     \* the person confirms that no writer is active before removing a lock
    MaxOutages   \* bound of the model: power failures

ASSUME StoreAssumption ==
    /\ None \notin Inodes \cup Procs
    /\ \A D \in SUBSET Procs : NoGraph # D /\ Torn # D
    /\ NoGraph # Torn
    /\ Careful \in BOOLEAN
    /\ MaxOutages \in Nat

VARIABLES
    \* the file system
    lock,      \* the identity of the file at lock_path, None where there is none
    graph,     \* the content of the file at path
    stamp,     \* the identity of the file at path: every publication brings a new one
    media,     \* as much of that file's content as has reached the disk
    durable,   \* what would be found at path after a power failure
    \* the processes
    pc,        \* how far a process is; "ended" has exited, "dead" was killed
    command,   \* "init", any mutating command, or "check", which only reads
    fd,        \* FileLock._fd: the lock file held open, None after close
    identity,  \* FileLock._identity
    seen,      \* open_bounded_regular_file: initial, the identity before the open
    held,      \* the Graph in memory
    temp,      \* the temporary file: "none", "empty", "written" or "synced"
    outcome,   \* "none", "ok" or "failed", which main() turns into exit code 0 or 2
    \* what is left behind
    recorded,  \* the processes with a graph_transition record in the journal
    removing,  \* the lock a person has decided to remove
    outages

files == <<lock, graph, stamp, media, durable>>
memory == <<fd, identity, seen, held, temp>>
around == <<recorded, removing, outages>>
vars == <<files, pc, command, memory, outcome, around>>

-----------------------------------------------------------------------------
(* State predicates *)

Documents == SUBSET Procs
COMMANDS == {"init", "mutate", "check"}
FINISHED == {"ended", "dead"}
LOCKED == {"created", "locked", "looked", "loaded", "saving", "linked",
           "releasing", "closed", "matching"}
STEPS == {"idle", "trying", "reading", "observing"} \cup LOCKED \cup FINISHED

Running(p) == pc[p] \notin FINISHED \cup {"idle"}

\* Inside `with FileLock(...)`, from the creation of the lock file until it
\* is unlinked.  A check never takes the lock.
Holding(p) == pc[p] \in LOCKED /\ command[p] # "check"

\* Inside it and not yet on the way out.
Inside(p) == Holding(p) /\ pc[p] \notin {"releasing", "closed", "matching"}

\* An identity may be given to a new file once no directory entry and no
\* descriptor holds it any more.
Unused(i) == i # lock /\ \A p \in Procs : fd[p] # i

Init ==
    /\ lock = None
    /\ graph \in {NoGraph, {}}
    /\ stamp = 0
    /\ media = graph /\ durable = graph
    /\ pc = [p \in Procs |-> "idle"]
    /\ command \in [Procs -> COMMANDS]
    /\ fd = [p \in Procs |-> None]
    /\ identity = [p \in Procs |-> None]
    /\ seen = [p \in Procs |-> 0]
    /\ held = [p \in Procs |-> {}]
    /\ temp = [p \in Procs |-> "none"]
    /\ outcome = [p \in Procs |-> "none"]
    /\ recorded = {}
    /\ removing = None
    /\ outages = 0

-----------------------------------------------------------------------------
(* Where a process goes next *)

Goto(p, step) ==
    /\ pc' = [pc EXCEPT ![p] = step]
    /\ UNCHANGED outcome

\* A raised error: out of the transaction, or straight out of the process.
Raise(p, step) ==
    /\ pc' = [pc EXCEPT ![p] = step]
    /\ outcome' = [outcome EXCEPT ![p] = "failed"]

Refuse(p) == Raise(p, IF command[p] = "check" THEN "ended" ELSE "releasing")

\* After the lock: a command that succeeded goes on to _observe.
AfterReleaseAlways(p) == "observing"   \* mutant: the record is made in a finally block
AfterRelease(p) == IF outcome[p] = "ok" THEN "observing" ELSE "ended"

-----------------------------------------------------------------------------
(* FileLock.__enter__ *)

\* init looks for an existing graph before it takes the lock as well.
Begin(p) ==
    /\ pc[p] = "idle"
    /\ \/ command[p] = "init" /\ graph # NoGraph /\ Raise(p, "ended")
       \/ command[p] = "init" /\ graph = NoGraph /\ Goto(p, "trying")
       \/ command[p] = "mutate" /\ Goto(p, "trying")
       \/ command[p] = "check" /\ Goto(p, "reading")
    /\ UNCHANGED <<files, command, memory, around>>

\* O_CREAT | O_EXCL creates the file only where there is none.
LockFreeNoExcl == TRUE   \* mutant: O_EXCL forgotten
LockFree == lock = None

CreateLock(p) ==
    /\ pc[p] = "trying"
    /\ LockFree
    /\ \E i \in Inodes :
          /\ Unused(i)
          /\ lock' = i
          /\ fd' = [fd EXCEPT ![p] = i]
          /\ identity' = [identity EXCEPT ![p] = i]
    /\ Goto(p, "created")
    /\ UNCHANGED <<graph, stamp, media, durable, command, seen, held, temp, around>>

\* The deadline is looked at after an attempt that failed, because there was
\* a lock or because the system denied access; the lock may be gone by then.
TimeOut(p) ==
    /\ pc[p] = "trying"
    /\ Raise(p, "ended")
    /\ UNCHANGED <<files, command, memory, around>>

\* os.write of the process id.
WritePid(p) ==
    /\ pc[p] = "created"
    /\ Goto(p, "locked")
    /\ UNCHANGED <<files, command, memory, around>>

\* The write fails: the error leaves __enter__, so __exit__ never runs and
\* the file stays.  The descriptor goes with the process.
WritePidFails(p) ==
    /\ pc[p] = "created"
    /\ Raise(p, "ended")
    /\ fd' = [fd EXCEPT ![p] = None]
    /\ UNCHANGED <<files, command, identity, seen, held, temp, around>>

-----------------------------------------------------------------------------
(* GraphStore.load, through open_bounded_regular_file *)

Look(p) ==
    /\ \/ pc[p] = "locked" /\ command[p] = "mutate"
       \/ pc[p] = "reading"
    /\ \/ graph = NoGraph /\ Refuse(p) /\ UNCHANGED seen
       \/ graph # NoGraph /\ Goto(p, "looked") /\ seen' = [seen EXCEPT ![p] = stamp]
    /\ UNCHANGED <<files, command, fd, identity, held, temp, around>>

\* The file opened has to be the one looked at.  After two publications its
\* identity may have come back.
SameFile(p) == stamp = seen[p] \/ stamp > seen[p] + 1

Open(p) ==
    /\ pc[p] = "looked"
    /\ \/ /\ SameFile(p) /\ graph # Torn
          /\ held' = [held EXCEPT ![p] = graph]
          /\ IF command[p] = "check"
             THEN /\ pc' = [pc EXCEPT ![p] = "ended"]
                  /\ outcome' = [outcome EXCEPT ![p] = "ok"]
             ELSE Goto(p, "loaded")
       \/ /\ stamp # seen[p] \/ graph = Torn
          /\ Refuse(p)
          /\ UNCHANGED held
    /\ UNCHANGED <<files, command, fd, identity, seen, temp, around>>

\* The operation on the document in memory, and the validate() after it.
Operate(p) ==
    /\ pc[p] = "loaded"
    /\ \/ held' = [held EXCEPT ![p] = @ \cup {p}] /\ Goto(p, "saving")
       \/ Refuse(p) /\ UNCHANGED held
    /\ UNCHANGED <<files, command, fd, identity, seen, temp, around>>

\* What init does instead: a second look at the path, then its own document.
NewDocument(p) ==
    /\ pc[p] = "locked" /\ command[p] = "init"
    /\ \/ graph # NoGraph /\ Refuse(p) /\ UNCHANGED held
       \/ graph = NoGraph /\ Goto(p, "saving") /\ held' = [held EXCEPT ![p] = {p}]
    /\ UNCHANGED <<files, command, fd, identity, seen, temp, around>>

-----------------------------------------------------------------------------
(* GraphStore.save and _save_new_graph *)

\* mkstemp, write, flush and fsync of the temporary file.
WriteTemp(p) ==
    /\ pc[p] = "saving"
    /\ \/ temp[p] = "none" /\ temp' = [temp EXCEPT ![p] = "empty"]
       \/ temp[p] = "empty" /\ temp' = [temp EXCEPT ![p] = "written"]
       \/ temp[p] = "written" /\ temp' = [temp EXCEPT ![p] = "synced"]
    /\ UNCHANGED <<files, pc, command, fd, identity, seen, held, outcome, around>>

\* Any of these steps, the size check before them or the rename after them
\* may fail; the temporary file is removed.
SaveFails(p) ==
    /\ pc[p] = "saving"
    /\ Refuse(p)
    /\ temp' = [temp EXCEPT ![p] = "none"]
    /\ UNCHANGED <<files, command, fd, identity, seen, held, around>>

CompleteUnsynced(p) == temp[p] \in {"written", "synced"}   \* mutant: no fsync
CompleteInPlace(p) == temp[p] \in {"empty", "written", "synced"}   \* mutant: writes in place
Complete(p) == temp[p] = "synced"

\* The new directory entry, with what has reached the file so far.
Published(p) ==
    /\ graph' = IF temp[p] = "empty" THEN Torn ELSE held[p]
    /\ stamp' = stamp + 1
    /\ media' = IF temp[p] = "synced" THEN held[p] ELSE Torn
    /\ UNCHANGED <<lock, durable>>

\* os.replace.
Replace(p) ==
    /\ pc[p] = "saving" /\ command[p] = "mutate" /\ Complete(p)
    /\ Published(p)
    /\ temp' = [temp EXCEPT ![p] = "none"]
    /\ pc' = [pc EXCEPT ![p] = "releasing"]
    /\ outcome' = [outcome EXCEPT ![p] = "ok"]
    /\ UNCHANGED <<command, fd, identity, seen, held, around>>

\* os.link refuses to replace what is there.
LinkFreeReplace == TRUE   \* mutant: os.replace instead of os.link
LinkFree == graph = NoGraph

Link(p) ==
    /\ pc[p] = "saving" /\ command[p] = "init" /\ Complete(p)
    /\ \/ /\ LinkFree
          /\ Published(p)
          /\ pc' = [pc EXCEPT ![p] = "linked"]
          /\ outcome' = [outcome EXCEPT ![p] = "ok"]
          /\ UNCHANGED temp
       \/ /\ graph # NoGraph
          /\ Refuse(p)
          /\ temp' = [temp EXCEPT ![p] = "none"]
          /\ UNCHANGED files
    /\ UNCHANGED <<command, fd, identity, seen, held, around>>

\* The second name of the published file is removed, or cannot be.
UnlinkTemp(p) ==
    /\ pc[p] = "linked"
    /\ \/ temp' = [temp EXCEPT ![p] = "none"] /\ Goto(p, "releasing")
       \/ UNCHANGED temp /\ Raise(p, "releasing")
    /\ UNCHANGED <<files, command, fd, identity, seen, held, around>>

-----------------------------------------------------------------------------
(* FileLock.__exit__, _observe and the end of the process *)

CloseLockNot(p) ==   \* mutant: os.close forgotten
    /\ pc[p] = "releasing"
    /\ Goto(p, "closed")
    /\ UNCHANGED <<files, command, memory, around>>

CloseLock(p) ==
    /\ pc[p] = "releasing"
    /\ fd' = [fd EXCEPT ![p] = None]
    /\ Goto(p, "closed")
    /\ UNCHANGED <<files, command, identity, seen, held, temp, around>>

\* lstat: only a lock of the identity created here is removed.
CompareLock(p) ==
    /\ pc[p] = "closed"
    /\ IF lock = identity[p] THEN Goto(p, "matching") ELSE Goto(p, AfterRelease(p))
    /\ UNCHANGED <<files, command, memory, around>>

\* Whatever is at the path by now is removed.
UnlinkLock(p) ==
    /\ pc[p] = "matching"
    /\ lock' = None
    /\ Goto(p, AfterRelease(p))
    /\ UNCHANGED <<graph, stamp, media, durable, command, memory, around>>

ReleaseFailsQuietly(p) ==   \* mutant: any error of the removal is forgiven
    /\ pc[p] \in {"closed", "matching"}
    /\ Goto(p, AfterRelease(p))
    /\ UNCHANGED <<files, command, memory, around>>

\* Only a missing file is forgiven; any other error leaves __exit__.
ReleaseFails(p) ==
    /\ pc[p] \in {"closed", "matching"}
    /\ Raise(p, "ended")
    /\ UNCHANGED <<files, command, memory, around>>

\* _observe swallows whatever goes wrong with the record.
Observe(p) ==
    /\ pc[p] = "observing"
    /\ recorded' \in {recorded, recorded \cup {p}}
    /\ Goto(p, "ended")
    /\ UNCHANGED <<files, command, memory, removing, outages>>

-----------------------------------------------------------------------------
(* What the system and the person may do at any time *)

Crash(p) ==
    /\ Running(p)
    /\ pc' = [pc EXCEPT ![p] = "dead"]
    /\ fd' = [fd EXCEPT ![p] = None]
    /\ UNCHANGED <<files, command, identity, seen, held, temp, outcome, around>>

\* The file system writes the directory to disk.
Flush ==
    /\ durable' = media
    /\ UNCHANGED <<lock, graph, stamp, media, pc, command, memory, outcome, around>>

\* Directory entries that were not flushed are lost or come back.
PowerFailure ==
    /\ outages < MaxOutages
    /\ outages' = outages + 1
    /\ graph' = durable /\ media' = durable
    /\ stamp' = stamp + 1
    /\ lock' \in {lock, None} \cup {identity[p] : p \in Procs}
    /\ pc' = [p \in Procs |-> IF Running(p) THEN "dead" ELSE pc[p]]
    /\ fd' = [p \in Procs |-> None]
    /\ removing' = None
    /\ UNCHANGED <<durable, command, identity, seen, held, temp, outcome, recorded>>

\* "confirm no writer is active before manually removing only the reported lock"
Confirmed == Careful => \A p \in Procs : ~Running(p)

DecideRemoval ==
    /\ lock # None /\ removing = None
    /\ Confirmed
    /\ removing' = lock
    /\ UNCHANGED <<files, pc, command, memory, outcome, recorded, outages>>

RemoveLock ==
    /\ removing # None
    /\ lock' = None
    /\ removing' = None
    /\ UNCHANGED <<graph, stamp, media, durable, pc, command, memory, outcome, recorded, outages>>

-----------------------------------------------------------------------------

Step(p) ==
    \/ Begin(p) \/ CreateLock(p) \/ TimeOut(p) \/ WritePid(p) \/ WritePidFails(p)
    \/ Look(p) \/ Open(p) \/ Operate(p) \/ NewDocument(p)
    \/ WriteTemp(p) \/ SaveFails(p) \/ Replace(p) \/ Link(p) \/ UnlinkTemp(p)
    \/ CloseLock(p) \/ CompareLock(p) \/ UnlinkLock(p) \/ ReleaseFails(p)
    \/ Observe(p)

Next ==
    \/ \E p \in Procs : Step(p) \/ Crash(p)
    \/ Flush \/ PowerFailure \/ DecideRemoval \/ RemoveLock

Spec == Init /\ [][Next]_vars

-----------------------------------------------------------------------------
(* Properties *)

TypeOK ==
    /\ lock \in Inodes \cup {None}
    /\ graph \in {NoGraph, Torn} \cup Documents
    /\ media \in {NoGraph, Torn} \cup Documents
    /\ durable \in {NoGraph, Torn} \cup Documents
    /\ stamp \in Nat
    /\ pc \in [Procs -> STEPS]
    /\ command \in [Procs -> COMMANDS]
    /\ fd \in [Procs -> Inodes \cup {None}]
    /\ identity \in [Procs -> Inodes \cup {None}]
    /\ seen \in [Procs -> Nat]
    /\ held \in [Procs -> Documents]
    /\ temp \in [Procs -> {"none", "empty", "written", "synced"}]
    /\ outcome \in [Procs -> {"none", "ok", "failed"}]
    /\ recorded \subseteq Procs
    /\ removing \in Inodes \cup {None}
    /\ outages \in Nat
    \* a descriptor is the lock's, and is not kept when the lock is left
    /\ \A p \in Procs : fd[p] # None => /\ fd[p] = identity[p] /\ Holding(p)
                                        /\ pc[p] \notin {"closed", "matching"}

(* Two processes are never inside the lock together, through crashes, power *)
(* failures, failing writes and unlinks, as long as the person who removes  *)
(* stale locks confirms first that nothing runs: between that look and the  *)
(* removal no process can have come in.                                     *)
MutualExclusion ==
    Careful => \A p, q \in Procs : Holding(p) /\ Holding(q) => p = q

(* From a transaction's first look at the file until it is replaced, nobody *)
(* else changes it, however long the operation, the validation and the      *)
(* write take: "file changed while it was inspected" is not for the holder  *)
(* of the lock, and the document it saves is one transition ahead.          *)
ReadIsCurrent ==
    Careful => \A p \in Procs :
        /\ pc[p] = "looked" /\ command[p] = "mutate" => stamp = seen[p]
        /\ pc[p] = "saving" =>
              IF command[p] = "init" THEN graph = NoGraph /\ held[p] = {p}
              ELSE held[p] = graph \cup {p} /\ p \notin graph

(* A command that reported success is in the document, and so is every      *)
(* command the journal has a record of; only a power failure may undo them, *)
(* because save() does not flush the directory.                             *)
AcknowledgedKept ==
    Careful /\ outages = 0 =>
        \A p \in Procs : (outcome[p] = "ok" /\ command[p] # "check") \/ p \in recorded
            => graph \notin {NoGraph, Torn} /\ p \in graph

(* Nobody ever finds half a document: not a reader at any moment, nor       *)
(* anybody after a power failure, and not even if live locks are removed.   *)
GraphWhole == Torn \notin {graph, media, durable}

(* However many inits race, and whatever the commands after them do: an init *)
(* that reported success stays the one whose document every later graph     *)
(* grew from.  This holds even if live locks are removed, when transitions  *)
(* of other commands may well be lost; a power failure ends it.             *)
Inits == {p \in Procs : command[p] = "init"}

InitIsTheBase ==
    outages = 0 => \A p \in Inits :
        outcome[p] = "ok" => graph \notin {NoGraph, Torn} /\ graph \cap Inits = {p}

(* A lock that stays behind is accounted for: the process that created it is *)
(* still inside, was killed, or ended with an error.  No command reports    *)
(* success and leaves its lock, not even where identities were reused or    *)
(* other people's locks removed.                                            *)
LockAccounted ==
    outages = 0 /\ lock # None =>
        \E p \in Procs : /\ identity[p] = lock
                         /\ \/ Holding(p)
                            \/ pc[p] = "dead"
                            \/ pc[p] = "ended" /\ outcome[p] = "failed"

(* Storage is the register: one command's transition at a time on top of     *)
(* all before it, success reported for those that are in it.                *)
Register == INSTANCE GraphRegister WITH
    Commands <- Procs, doc <- graph, stable <- durable,
    answered <- {p \in Procs : /\ command[p] # "check"
                               /\ outcome[p] = "ok" /\ pc[p] = "ended"}
RegisterSpec == Register!Spec

=============================================================================

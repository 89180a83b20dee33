------------------------------- MODULE Journal -------------------------------
(***************************************************************************)
(* agent_harness/journal.py: month files of one-line records, appended     *)
(* without coordination on POSIX and under a file lock on Windows.         *)
(*                                                                         *)
(* A file is the lines that end in a newline and the tail after the last   *)
(* newline.  A line is the sequence of what was written into it, normally  *)
(* one whole record; the reader gets a record from a line that holds       *)
(* exactly one, and it whole.  An append is two steps: the file is opened  *)
(* and its last byte looked at, then one os.write appends the separator    *)
(* that repairs a torn tail, and the line.                                 *)
(***************************************************************************)
EXTENDS Integers, FiniteSets, SequencesExt

CONSTANTS Writers,                \* processes that append: hooks, graphctl
          MONTHS,                 \* bound: the months that pass
          Entries,                \* the records handed to append
          MAX_JOURNAL_LINE_BYTES,
          SHED_MARK,              \* bytes one name costs in the field "shed"
          APPENDS,                \* bound: calls of append
          TEARS,                  \* bound: writes cut short
          None

ASSUME JournalAssumption ==
    /\ MONTHS \in Nat \ {0} /\ APPENDS \in Nat /\ TEARS \in Nat
    /\ None \notin Writers

VARIABLES files,      \* month -> its file; the domain is the files that exist
          month,      \* the month of the clock
          pc,         \* writer -> "idle", "rendered", "opened" or "dead"
          call,       \* writer -> the append it is in
          lock,       \* month -> who holds its .lock, on Windows
          windows,    \* os.name == "nt"
          taken,      \* how many appends were called
          owed,       \* whole and short records append returned True for,
                      \* as long as their month is kept
          tears       \* how many writes were cut short

vars == <<files, month, pc, call, lock, windows, taken, owed, tears>>

Months == 1..MONTHS

-----------------------------------------------------------------------------
(* render *)

SHEDDABLE_FIELDS == <<"snapshot", "reason", "source", "actor", "command">>

\* The bytes of an entry: what is never shed (the newline included), and each
\* sheddable field it carries.
ASSUME EntriesAssumption ==
    /\ SHED_MARK \in Nat /\ MAX_JOURNAL_LINE_BYTES \in Nat
    /\ \A e \in Entries :
         /\ e.identity \in Nat \ {0}
         /\ DOMAIN e.fields \subseteq ToSet(SHEDDABLE_FIELDS)
         /\ \A f \in DOMAIN e.fields : e.fields[f] \in Nat

\* The bytes of the line without the first k sheddable fields: the name of
\* each one dropped is listed in "shed".
Size(e, k) ==
    LET bytes[i \in 0..5] ==
          IF i = 0 THEN e.identity
          ELSE bytes[i - 1] + (IF SHEDDABLE_FIELDS[i] \notin DOMAIN e.fields THEN 0
                               ELSE IF i <= k THEN SHED_MARK
                               ELSE e.fields[SHEDDABLE_FIELDS[i]])
    IN  bytes[5]

Fitting(e) == {k \in 0..5 : Size(e, k) <= MAX_JOURNAL_LINE_BYTES}

(* Mutant: falls out of the loop with the last line it tried. *)
RenderAnyway(e) ==
    Size(e, IF Fitting(e) = {} THEN 5
            ELSE CHOOSE k \in Fitting(e) : \A j \in Fitting(e) : k <= j)

\* The bytes of the rendered line, or None when no shedding is enough.
Render(e) ==
    IF Fitting(e) = {} THEN None
    ELSE Size(e, CHOOSE k \in Fitting(e) : \A j \in Fitting(e) : k <= j)

-----------------------------------------------------------------------------
(* Files, and what a reader gets from them *)

EmptyFile == [lines |-> <<>>, tail |-> <<>>]

Content(m) == IF m \in DOMAIN files THEN files[m] ELSE EmptyFile

Parses(line) == Len(line) = 1 /\ line[1].whole

\* The unterminated tail is a line of its own to the reader.
Lines(file) == Append(file.lines, file.tail)

Pieces(file) == UNION {ToSet(Lines(file)[i]) : i \in DOMAIN Lines(file)}

Ids(file) == {p.id : p \in Pieces(file)}

\* The loop of read: a line that does not parse is passed over.
Readable(file) ==
    LET got[n \in 0..Len(Lines(file))] ==
          IF n = 0 THEN <<>>
          ELSE IF Parses(Lines(file)[n]) THEN Append(got[n - 1], Lines(file)[n][1].id)
          ELSE got[n - 1]
    IN  got[Len(Lines(file))]

(* Mutant: the newest month first. *)
ReadNewestFirst ==
    FlattenSeq([m \in Months |-> Readable(Content(MONTHS + 1 - m))])

\* read: the month files in the order of their names.
Read == FlattenSeq([m \in Months |-> Readable(Content(m))])

(* Mutant: no separator. *)
RepairNothing(file, prefix) == file

\* os.write of the separator that _repair_prefix returned, when there is one.
Repaired(file, prefix) ==
    IF prefix THEN [lines |-> Append(file.lines, file.tail), tail |-> <<>>]
    ELSE file

(* Mutant: a seek and a write on every platform. *)
TargetSought(w) ==
    LET now == Content(call[w].month)
    IN  IF Len(now.lines) = call[w].seen THEN now
        ELSE [lines |-> SubSeq(now.lines, 1, call[w].seen), tail |-> <<>>]

\* O_APPEND pins the write to the end of the file.  On Windows the end is
\* where the writer found it, and what was written there since is lost.
Target(w) ==
    LET now == Content(call[w].month)
    IN  IF ~windows \/ Len(now.lines) = call[w].seen THEN now
        ELSE [lines |-> SubSeq(now.lines, 1, call[w].seen), tail |-> <<>>]

\* The piece of record w is writing, all of it or the beginning.
Piece(w, whole) == [id |-> call[w].id, by |-> w, size |-> call[w].size, whole |-> whole]

WholeLine(w) ==
    LET at == Repaired(Target(w), call[w].prefix)
    IN  [lines |-> Append(at.lines, Append(at.tail, Piece(w, TRUE))), tail |-> <<>>]

\* What a write cut short leaves: the separator alone, the beginning of the
\* line, or everything except its newline.
Torn(w) ==
    LET at == Repaired(Target(w), call[w].prefix)
    IN  {at} \cup {[at EXCEPT !.tail = Append(@, Piece(w, b))] : b \in BOOLEAN}

-----------------------------------------------------------------------------

NoCall == [id |-> 0, month |-> 1, size |-> 0, seen |-> 0, prefix |-> FALSE,
           orphan |-> FALSE]

Init ==
    /\ files = [m \in {} |-> EmptyFile]
    /\ month = 1
    /\ pc = [w \in Writers |-> "idle"]
    /\ call = [w \in Writers |-> NoCall]
    /\ lock = [m \in Months |-> None]
    /\ windows \in BOOLEAN
    /\ taken = 0
    /\ owed = {}
    /\ tears = 0

\* append returns: the writer is free for its next call.
Return(w) ==
    /\ pc' = [pc EXCEPT ![w] = "idle"]
    /\ call' = [call EXCEPT ![w] = NoCall]
    /\ lock' = [m \in Months |-> IF lock[m] = w THEN None ELSE lock[m]]

\* record() and the first half of append: the line is rendered and its
\* timestamp has chosen the month; an entry that cannot fit is refused.
Call(w, e) ==
    /\ pc[w] = "idle" /\ taken < APPENDS
    /\ taken' = taken + 1
    /\ IF Render(e) = None
       THEN UNCHANGED <<pc, call>>
       ELSE /\ pc' = [pc EXCEPT ![w] = "rendered"]
            /\ call' = [call EXCEPT ![w] = [NoCall EXCEPT !.id = taken + 1,
                                            !.month = month, !.size = Render(e)]]
    /\ UNCHANGED <<files, month, lock, windows, owed, tears>>

\* os.open creates the file; the last byte decides the separator.  Windows
\* takes the lock before that.
Open(w) ==
    LET m == call[w].month IN
    /\ pc[w] = "rendered"
    /\ windows => lock[m] = None
    /\ lock' = IF windows THEN [lock EXCEPT ![m] = w] ELSE lock
    /\ files' = [k \in DOMAIN files \cup {m} |-> Content(k)]
    /\ pc' = [pc EXCEPT ![w] = "opened"]
    /\ call' = [call EXCEPT ![w].prefix = Content(m).tail # <<>>,
                            ![w].seen = Len(Content(m).lines)]
    /\ UNCHANGED <<month, windows, taken, owed, tears>>

\* No lock within the timeout, or the directory or the file refuses.
Refused(w) ==
    /\ pc[w] \in {"rendered", "opened"}
    /\ Return(w)
    /\ UNCHANGED <<files, month, windows, taken, owed, tears>>

\* One os.write takes it all, and append returns True.
Write(w) ==
    LET m == call[w].month IN
    /\ pc[w] = "opened"
    /\ files' = IF call[w].orphan THEN files ELSE [files EXCEPT ![m] = WholeLine(w)]
    /\ owed' = IF call[w].orphan THEN owed
               ELSE owed \cup {[id |-> call[w].id, whole |-> TRUE]}
    /\ Return(w)
    /\ UNCHANGED <<month, windows, taken, tears>>

\* os.write takes less: a full disk, and append still returns True because
\* nobody looks at the count.
WriteShort(w) ==
    LET m == call[w].month IN
    /\ pc[w] = "opened" /\ tears < TEARS /\ ~call[w].orphan
    /\ \E f \in Torn(w) : files' = [files EXCEPT ![m] = f]
    /\ tears' = tears + 1
    /\ owed' = owed \cup {[id |-> call[w].id, whole |-> FALSE]}
    /\ Return(w)
    /\ UNCHANGED <<month, windows, taken>>

\* The process dies inside its write, or before it; a lock it holds stays.
Die(w) ==
    LET m == call[w].month IN
    /\ pc[w] \in {"rendered", "opened"}
    /\ \/ UNCHANGED <<files, tears>>
       \/ /\ pc[w] = "opened" /\ tears < TEARS /\ ~call[w].orphan
          /\ \E f \in Torn(w) : files' = [files EXCEPT ![m] = f]
          /\ tears' = tears + 1
    /\ pc' = [pc EXCEPT ![w] = "dead"]
    /\ UNCHANGED <<month, call, lock, windows, taken, owed>>

NextMonth ==
    /\ month < MONTHS
    /\ month' = month + 1
    /\ UNCHANGED <<files, pc, call, lock, windows, taken, owed, tears>>

(* Mutant: the oldest are kept. *)
PruneNewest(keep) ==
    LET older(m) == {k \in DOMAIN files : k < m}
        old == {m \in DOMAIN files : Cardinality(older(m)) >= keep}
    IN  \E gone \in (SUBSET old) \ {{}} :
          /\ files' = [m \in DOMAIN files \ gone |-> files[m]]
          /\ call' = [w \in Writers |->
                        IF pc[w] = "opened" /\ call[w].month \in gone
                        THEN [call[w] EXCEPT !.orphan = TRUE] ELSE call[w]]
          /\ owed' = {r \in owed : \A m \in gone : r.id \notin Ids(files[m])}
          /\ UNCHANGED <<month, pc, lock, windows, taken, tears>>

\* prune(keep): every month but the newest `keep`, less those whose unlink
\* fails (Windows does not unlink a file that is open).
Prune(keep) ==
    LET newer(m) == {k \in DOMAIN files : k > m}
        old == {m \in DOMAIN files : Cardinality(newer(m)) >= keep}
        busy == {call[w].month : w \in {v \in Writers : pc[v] = "opened"}}
    IN  \E gone \in (SUBSET old) \ {{}} :
          /\ windows => gone \cap busy = {}
          /\ files' = [m \in DOMAIN files \ gone |-> files[m]]
          /\ call' = [w \in Writers |->
                        IF pc[w] = "opened" /\ call[w].month \in gone
                        THEN [call[w] EXCEPT !.orphan = TRUE] ELSE call[w]]
          /\ owed' = {r \in owed : \A m \in gone : r.id \notin Ids(files[m])}
          /\ UNCHANGED <<month, pc, lock, windows, taken, tears>>

\* Somebody acts on the recovery procedure: a lock whose holder is dead.
RemoveLock ==
    /\ \E m \in Months : /\ lock[m] # None /\ pc[lock[m]] = "dead"
                         /\ lock' = [lock EXCEPT ![m] = None]
    /\ UNCHANGED <<files, month, pc, call, windows, taken, owed, tears>>

Next ==
    \/ \E w \in Writers, e \in Entries : Call(w, e)
    \/ \E w \in Writers : Open(w) \/ Refused(w) \/ Write(w) \/ WriteShort(w) \/ Die(w)
    \/ NextMonth
    \/ \E keep \in Months : Prune(keep)
    \/ RemoveLock

Spec == Init /\ [][Next]_vars

-----------------------------------------------------------------------------
(* Properties *)

TypeOK ==
    /\ DOMAIN files \subseteq Months
    /\ \A m \in DOMAIN files : Pieces(files[m]) \subseteq
         [id : 1..APPENDS, by : Writers, size : 1..MAX_JOURNAL_LINE_BYTES, whole : BOOLEAN]
    /\ month \in Months
    /\ pc \in [Writers -> {"idle", "rendered", "opened", "dead"}]
    /\ call \in [Writers -> [id : 0..APPENDS, month : Months, size : Nat, seen : Nat,
                             prefix : BOOLEAN, orphan : BOOLEAN]]
    /\ lock \in [Months -> {None} \cup Writers]
    /\ windows \in BOOLEAN
    /\ taken \in 0..APPENDS /\ tears \in 0..TEARS
    /\ owed \subseteq [id : 1..APPENDS, whole : BOOLEAN]

(* The records written whole and acknowledged that no reader gets.          *)
Lost == {r \in owed : r.whole /\ r.id \notin ToSet(Read)}

(* "One interrupted session would cost two records instead of one"          *)
(* (_repair_prefix): an interrupted write costs, besides itself, at most    *)
(* one record of another writer, the one that had looked at the file before *)
(* it was torn; without interruption nothing acknowledged is ever lost, and *)
(* nothing at all where appends are serialized (Windows), because the next  *)
(* writer looks at the tail that was left.                                  *)
OneLossPerTear == Cardinality(Lost) <= IF windows THEN 0 ELSE tears

(* A reader gets the records of one writer in the order it appended them,   *)
(* each once, across months, damage, repairs and pruning.                   *)
WriterOrder ==
    LET author(id) == CHOOSE w \in Writers : \E m \in DOMAIN files :
                        \E p \in Pieces(files[m]) : p.id = id /\ p.by = w
    IN  \A i, j \in DOMAIN Read :
          i < j /\ author(Read[i]) = author(Read[j]) => Read[i] < Read[j]

(* What readers get of a month only grows at its end, or loses its newest   *)
(* record or the whole month: positions already read never move.            *)
Log == INSTANCE RecordLog WITH
         Records <- 1..APPENDS,
         log <- [m \in Months |-> Readable(Content(m))]
LogSpec == Log!Spec
=============================================================================

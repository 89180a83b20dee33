---------------------------- MODULE SessionHooks ----------------------------
(***************************************************************************)
(* agent_harness/session_hooks.py, with the records that claude_hook.py    *)
(* and graphctl add to the same journal.                                   *)
(*                                                                         *)
(* Sessions open, edit, run graphctl, end turns and close, each event a    *)
(* record that a process of its own appends.  A session that starts looks  *)
(* in the records of its repository for the newest finished session that   *)
(* edited without using the graph, claims the report of it under           *)
(* report.lock, and prints it.  The journal is one month of the log that   *)
(* RecordLog promises: an append adds one record at the end or none that   *)
(* can be read, whatever it returns, and the newest record may be spoilt   *)
(* later by a line that is written on to it (module Journal).              *)
(***************************************************************************)
EXTENDS Integers, FiniteSets, Sequences

CONSTANTS Sessions,         \* session identifiers
          Repos,            \* repository keys
          Paths,            \* path_id of files inside the repository
          Outside,          \* path_id of any file outside
          None,
          WARN_MIN_FILES, WARN_MIN_EDITS, MAX_CANDIDATES,
          RECORDS,          \* bound: the length of the journal
          WORK,             \* bound: its length while sessions edit and end turns
          CLOCK,            \* bound: the seconds that pass
          FAULTS            \* bound: appends lost, records spoilt and hooks killed

ASSUME SessionsAssumption ==
    /\ None \notin Sessions \cup Repos \cup Paths
    /\ Outside \notin Paths \cup {None}
    /\ MAX_CANDIDATES \in Nat /\ RECORDS \in Nat /\ WORK \in Nat /\ CLOCK \in Nat \ {0} /\ FAULTS \in Nat

VARIABLES journal,    \* the records, in the order readers get them
          clock,      \* utc_now, in seconds
          life,       \* session -> "absent", "live" or "over"
          home,       \* session -> the repository its hooks derive
          hook,       \* session -> where its start hook is
          since,      \* session -> the open record its start hook holds
          bypass,     \* session -> the session its start hook means to report
          reportLock, \* who holds report.lock, dead or alive
          printed,    \* session -> how often it was reported to somebody
          forgotten,  \* auxiliary: sessions that an unreadable record claims
          faults

vars == <<journal, clock, life, home, hook, since, bypass, reportLock,
          printed, forgotten, faults>>

-----------------------------------------------------------------------------
(* Records, and what they say of one session *)

ENDS == {"turn_end", "session_close"}
BOUNDARY_EVENTS == {"session_open"} \cup ENDS
OWNED_EVENTS == BOUNDARY_EVENTS \cup {"edit"}

Rec(event, s, r) == [event |-> event, session |-> s, repo |-> r, path |-> None, ts |-> 0]

\* read_repo: the records of r, at their places in the journal.
History(r) == [i \in {j \in DOMAIN journal : journal[j].repo = r} |-> journal[i]]

\* The positions before n of s's records of these events.
At(h, n, s, events) == {i \in DOMAIN h : i < n /\ h[i].session = s /\ h[i].event \in events}

First(S) == IF S = {} THEN 0 ELSE CHOOSE i \in S : \A j \in S : i <= j
Last1(S) == IF S = {} THEN 0 ELSE CHOOSE i \in S : \A j \in S : j <= i

\* The first open and the last end before n, or 0.
OpenAt(h, n, s) == First(At(h, n, s, {"session_open"}))
EndAt(h, n, s)  == Last1(At(h, n, s, ENDS))

\* edits: the project's own, by default.
Edits(h, n, s) == {i \in At(h, n, s, {"edit"}) : h[i].path # Outside}

\* worth_reporting, of a session whose opening was recorded.
WorthReporting(h, n, s) ==
    /\ Edits(h, n, s) # {}
    /\ \/ Cardinality({h[i].path : i \in Edits(h, n, s)}) >= WARN_MIN_FILES
       \/ Cardinality(Edits(h, n, s)) >= WARN_MIN_EDITS

-----------------------------------------------------------------------------
(* previous_bypass *)

Named(h, s) == {i \in DOMAIN h : h[i].event = "graph_transition" /\ h[i].session = s}

(* Mutant: a run counts only between the opening and the end. *)
UsedInWindow(h, s, o, e) == \E i \in Named(h, s) \cup Named(h, None) : o < i /\ i < e

\* Whether s used the graph, its window being from o to e.  A run that names
\* its session counts wherever it was recorded after o.
UsedGraph(h, s, o, e) ==
    \/ \E i \in Named(h, s) : i > o
    \/ \E i \in Named(h, None) : o < i /\ i < e

Reported(h) == {h[i].session : i \in {j \in DOMAIN h : h[j].event = "bypass_reported"}}

\* _cut_position: the newest record that agrees with the asker's opening.
Cut(h, asked) ==
    LET same == {i \in DOMAIN h : /\ h[i].event = "session_open"
                                  /\ h[i].session = asked.session /\ h[i].ts = asked.ts}
    IN  IF same = {} THEN Len(journal) + 1 ELSE Last1(same)

Finished(h, n) == {s \in Sessions : OpenAt(h, n, s) > 0 /\ EndAt(h, n, s) > OpenAt(h, n, s)}

\* Sessions that ended after s did.
Newer(h, n, s) == {t \in Finished(h, n) : EndAt(h, n, t) > EndAt(h, n, s)}

Candidates(h, n) == {s \in Finished(h, n) : Cardinality(Newer(h, n, s)) < MAX_CANDIDATES}

Used(h, n, s) == UsedGraph(h, s, OpenAt(h, n, s), EndAt(h, n, s))

\* The records of h before n.
Before(h, n) == [i \in {j \in DOMAIN h : j < n} |-> h[i]]

(* Mutant: claims made after the asker opened are not seen. *)
ReportableCut(h, n, s) ==
    /\ s \in Candidates(h, n) /\ s \notin Reported(Before(h, n))
    /\ ~Used(h, n, s) /\ WorthReporting(h, n, s)

Reportable(h, n, s) ==
    /\ s \in Candidates(h, n) /\ s \notin Reported(h)
    /\ ~Used(h, n, s) /\ WorthReporting(h, n, s)

(* Mutant: only the newest session is looked at. *)
BypassNewestOnly(h, n) ==
    LET found == {s \in Sessions : Reportable(h, n, s) /\ Newer(h, n, s) = {}}
    IN  IF found = {} THEN None ELSE CHOOSE s \in found : TRUE

\* The newest reportable session, unless a newer one used the graph.
PreviousBypass(h, n) ==
    LET found == {s \in Sessions :
                    /\ Reportable(h, n, s)
                    /\ \A t \in Newer(h, n, s) : ~Used(h, n, t) /\ ~Reportable(h, n, t)}
    IN  IF found = {} THEN None ELSE CHOOSE s \in found : TRUE

-----------------------------------------------------------------------------
(* Sessions and the processes they start *)

Init ==
    /\ journal = <<>> /\ clock = 1 /\ faults = 0
    /\ life = [s \in Sessions |-> "absent"]
    /\ home \in [Sessions -> Repos]
    /\ hook = [s \in Sessions |-> "none"]
    /\ since = [s \in Sessions |-> None]
    /\ bypass = [s \in Sessions |-> None]
    /\ reportLock = None
    /\ printed = [s \in Sessions |-> 0]
    /\ forgotten = {}

\* journal.append, when the disk takes the record.
Written(e) ==
    /\ Len(journal) < RECORDS
    /\ journal' = Append(journal, e)
    /\ UNCHANGED faults

\* journal.append leaves nothing that can be read: it returns False, or True
\* for a line that was cut short (it ignores the count os.write returns) or
\* written on to somebody else's, or the process that would call it dies.
LostAppend ==
    /\ faults < FAULTS
    /\ faults' = faults + 1
    /\ UNCHANGED journal

Appended(e) == Written(e) \/ LostAppend

Tick ==
    /\ clock < CLOCK
    /\ clock' = clock + 1
    /\ UNCHANGED <<journal, life, home, hook, since, bypass, reportLock, printed, forgotten, faults>>

\* session_start up to observe, of a new session or a resumed one.
Open(s) ==
    LET e == [Rec("session_open", s, home[s]) EXCEPT !.ts = clock] IN
    /\ life[s] \in {"absent", "over"} /\ hook[s] = "none"
    /\ Appended(e)
    /\ life' = [life EXCEPT ![s] = "live"]
    /\ hook' = [hook EXCEPT ![s] = "waiting"]
    /\ since' = [since EXCEPT ![s] = e]
    /\ UNCHANGED <<clock, home, bypass, reportLock, printed, forgotten>>

(* Mutant: what it meant to report is not forgotten. *)
HookEndsStale(s) ==
    /\ hook' = [hook EXCEPT ![s] = "none"]
    /\ since' = [since EXCEPT ![s] = None]
    /\ UNCHANGED bypass

HookEnds(s) ==
    /\ hook' = [hook EXCEPT ![s] = "none"]
    /\ since' = [since EXCEPT ![s] = None]
    /\ bypass' = [bypass EXCEPT ![s] = None]

(* Mutant: the history is cut before it is read. *)
DecideCut(s) ==
    LET h == History(home[s])
        b == PreviousBypass(Before(h, Cut(h, since[s])), Cut(h, since[s]))
    IN  /\ hook[s] = "waiting" /\ reportLock = None
        /\ IF b = None
           THEN HookEnds(s) /\ UNCHANGED reportLock
           ELSE /\ hook' = [hook EXCEPT ![s] = "claiming"]
                /\ bypass' = [bypass EXCEPT ![s] = b]
                /\ reportLock' = s
                /\ UNCHANGED since
        /\ UNCHANGED <<journal, clock, life, home, printed, forgotten, faults>>

\* _claim_bypass takes report.lock and decides.
Decide(s) ==
    LET h == History(home[s])
        b == PreviousBypass(h, Cut(h, since[s]))
    IN  /\ hook[s] = "waiting" /\ reportLock = None
        /\ IF b = None
           THEN HookEnds(s) /\ UNCHANGED reportLock
           ELSE /\ hook' = [hook EXCEPT ![s] = "claiming"]
                /\ bypass' = [bypass EXCEPT ![s] = b]
                /\ reportLock' = s
                /\ UNCHANGED since
        /\ UNCHANGED <<journal, clock, life, home, printed, forgotten, faults>>

\* No report.lock within the second it is given.
LockTimeout(s) ==
    /\ hook[s] = "waiting" /\ reportLock # None
    /\ HookEnds(s)
    /\ UNCHANGED <<journal, clock, life, home, reportLock, printed, forgotten, faults>>

\* _claim_bypass records the claim and lets go of the lock; it goes by what
\* append returns.
Claim(s) ==
    /\ hook[s] = "claiming"
    /\ reportLock' = None
    /\ \/ /\ Written(Rec("bypass_reported", bypass[s], home[s]))
          /\ hook' = [hook EXCEPT ![s] = "printing"]
          /\ UNCHANGED <<since, bypass, forgotten>>
       \/ /\ LostAppend
          /\ hook' = [hook EXCEPT ![s] = "printing"]
          /\ forgotten' = forgotten \cup {bypass[s]}
          /\ UNCHANGED <<since, bypass>>
       \/ LostAppend /\ HookEnds(s) /\ UNCHANGED forgotten
    /\ UNCHANGED <<clock, life, home, printed>>

\* session_start says it.
Report(s) ==
    /\ hook[s] = "printing"
    /\ printed' = [printed EXCEPT ![bypass[s]] = @ + 1]
    /\ HookEnds(s)
    /\ UNCHANGED <<journal, clock, life, home, reportLock, forgotten, faults>>

\* The client kills a hook that takes too long; a lock it holds stays, and
\* the claim may have been written.
HookKilled(s) ==
    /\ hook[s] # "none" /\ faults < FAULTS
    /\ faults' = faults + 1
    /\ \/ UNCHANGED journal
       \/ /\ hook[s] = "claiming" /\ Len(journal) < RECORDS
          /\ journal' = Append(journal, Rec("bypass_reported", bypass[s], home[s]))
    /\ HookEnds(s)
    /\ UNCHANGED <<clock, life, home, reportLock, printed, forgotten>>

\* The newest record can no longer be read: its line lacked its end, and what
\* was written next was added to it.
Spoil ==
    /\ faults < FAULTS /\ journal # <<>>
    /\ faults' = faults + 1
    /\ journal' = SubSeq(journal, 1, Len(journal) - 1)
    /\ LET newest == journal[Len(journal)]
       IN  forgotten' = IF newest.event = "bypass_reported"
                        THEN forgotten \cup {newest.session} ELSE forgotten
    /\ UNCHANGED <<clock, life, home, hook, since, bypass, reportLock, printed>>

\* A person removes a report.lock whose holder is gone.
RemoveReportLock ==
    /\ reportLock # None /\ hook[reportLock] # "claiming"
    /\ reportLock' = None
    /\ UNCHANGED <<journal, clock, life, home, hook, since, bypass, printed, forgotten, faults>>

Acting(s) == life[s] = "live" /\ hook[s] = "none" /\ Len(journal) < WORK

\* record_edit
Edit(s, p) ==
    /\ Acting(s)
    /\ Appended([Rec("edit", s, home[s]) EXCEPT !.path = p])
    /\ UNCHANGED <<clock, life, home, hook, since, bypass, reportLock, printed, forgotten>>

\* _observe, after a graphctl command of session s in repository r succeeded:
\* the process may get there after the session is over.  The client may or
\* may not have exported the session's identifier to it.
GraphRun(s, r) ==
    /\ life[s] # "absent" /\ Len(journal) < WORK
    /\ \E named \in {s, None} : Appended(Rec("graph_transition", named, r))
    /\ UNCHANGED <<clock, life, home, hook, since, bypass, reportLock, printed, forgotten>>

\* _observe_turn.  A stop that the hook itself provoked (stop_hook_active)
\* records nothing.
TurnEnd(s) ==
    /\ Acting(s)
    /\ Appended([Rec("turn_end", s, home[s]) EXCEPT !.ts = clock])
    /\ UNCHANGED <<clock, life, home, hook, since, bypass, reportLock, printed, forgotten>>

\* session_end; a process that is killed never gets there.
Close(s) ==
    /\ Acting(s)
    /\ life' = [life EXCEPT ![s] = "over"]
    /\ \/ Appended([Rec("session_close", s, home[s]) EXCEPT !.ts = clock])
       \/ UNCHANGED <<journal, faults>>
    /\ UNCHANGED <<clock, home, hook, since, bypass, reportLock, printed, forgotten>>

Next ==
    \/ Tick \/ RemoveReportLock \/ Spoil
    \/ \E s \in Sessions :
         \/ Open(s) \/ Decide(s) \/ LockTimeout(s) \/ Claim(s) \/ Report(s)
         \/ HookKilled(s) \/ TurnEnd(s) \/ Close(s)
         \/ \E p \in Paths \cup {Outside} : Edit(s, p)
         \/ \E r \in Repos : GraphRun(s, r)

Spec == Init /\ [][Next]_vars

-----------------------------------------------------------------------------
(* Properties *)

Entries == [event : OWNED_EVENTS \cup {"graph_transition", "bypass_reported"},
            session : {None} \cup Sessions, repo : Repos,
            path : {None, Outside} \cup Paths, ts : 0..CLOCK]

TypeOK ==
    /\ journal \in Seq(Entries)
    /\ clock \in 1..CLOCK /\ faults \in 0..FAULTS
    /\ life \in [Sessions -> {"absent", "live", "over"}]
    /\ home \in [Sessions -> Repos]
    /\ hook \in [Sessions -> {"none", "waiting", "claiming", "printing"}]
    /\ since \in [Sessions -> {None} \cup Entries]
    /\ bypass \in [Sessions -> {None} \cup Sessions]
    /\ \A s \in Sessions : bypass[s] # None <=> hook[s] \in {"claiming", "printing"}
    /\ reportLock \in {None} \cup Sessions
    /\ printed \in [Sessions -> Nat]
    /\ forgotten \subseteq {None} \cup Sessions

\* The claims of s.
Claims(s) == {i \in DOMAIN journal : journal[i].event = "bypass_reported" /\ journal[i].session = s}

(* "It reports a given session at most once": however starts race, hooks    *)
(* are killed and records are lost, there is one claim of a session at      *)
(* most, and unless a claim of it was lost after append had acknowledged    *)
(* it, nobody is told of it twice, nor of what is not on record.            *)
AtMostOnce ==
    \A s \in Sessions :
        /\ Cardinality(Claims(s)) <= 1
        /\ s \notin forgotten => printed[s] <= Cardinality(Claims(s))

=============================================================================

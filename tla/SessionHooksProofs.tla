-------------------------- MODULE SessionHooksProofs --------------------------
(***************************************************************************)
(* Theorems about the session hooks and about their agreement with the     *)
(* conformance report, for every number of sessions, records and faults.   *)
(***************************************************************************)
EXTENDS Conformance, TLAPS, FiniteSetTheorems, WellFoundedInduction

-----------------------------------------------------------------------------
(* First and last positions *)

LEMMA LeastExists ==
    ASSUME NEW S \in SUBSET Nat, S # {}
    PROVE  \E i \in S : \A j \in S : i <= j
<1>1. PICK i \in S : \A j \in S : ~ (<<j, i>> \in OpToRel(<, Nat))
  BY NatLessThanWellFounded, WFMin, Zenon
<1>2. ASSUME NEW j \in S PROVE ~ (j < i)
  <2>1. <<j, i>> \in Nat \X Nat
    OBVIOUS
  <2>2. j < i => <<j, i>> \in OpToRel(<, Nat)
    BY <2>1, Zenon DEF OpToRel
  <2>3. QED
    BY <1>1, <2>2
<1>3. ASSUME NEW j \in S PROVE i <= j
  BY <1>2
<1>4. QED
  BY <1>3

LEMMA GreatestExists ==
    ASSUME NEW S \in SUBSET Nat, NEW b \in Nat, \A i \in S : i <= b, S # {}
    PROVE  \E i \in S : \A j \in S : j <= i
<1> DEFINE T == {m \in Nat : \E i \in S : m = b - i}
<1>0. ASSUME NEW i \in S PROVE b - i \in T
  OBVIOUS
<1>1. T \in SUBSET Nat /\ T # {}
  BY <1>0
<1>2. PICK k \in T : \A m \in T : k <= m
  <2> HIDE DEF T
  <2> QED BY <1>1, LeastExists
<1>3. PICK i \in S : k = b - i
  OBVIOUS
<1>4. ASSUME NEW j \in S PROVE j <= i
  <2>1. b - i <= b - j
    BY <1>0, <1>2, <1>3
  <2>2. b \in Int /\ i \in Int /\ j \in Int
    OBVIOUS
  <2>3. QED
    BY <2>1, <2>2
<1>5. QED
  BY <1>4

\* What First and Last1 pick.
LEMMA FirstIsLeast ==
    ASSUME NEW S \in SUBSET (Nat \ {0})
    PROVE  /\ S = {} => First(S) = 0
           /\ S # {} => First(S) \in S /\ \A j \in S : First(S) <= j
BY LeastExists DEF First

LEMMA LastIsGreatest ==
    ASSUME NEW S \in SUBSET (Nat \ {0}), NEW b \in Nat, \A i \in S : i <= b
    PROVE  /\ S = {} => Last1(S) = 0
           /\ S # {} => Last1(S) \in S /\ \A j \in S : j <= Last1(S)
BY GreatestExists DEF Last1

-----------------------------------------------------------------------------
(* Types *)

\* What a start decides to report is reportable, and nothing newer is.
LEMMA WhatIsReported ==
    ASSUME NEW h, NEW n, PreviousBypass(h, n) # None
    PROVE  /\ PreviousBypass(h, n) \in Sessions
           /\ Reportable(h, n, PreviousBypass(h, n))
           /\ \A t \in Newer(h, n, PreviousBypass(h, n)) :
                 ~ Used(h, n, t) /\ ~ Reportable(h, n, t)
BY DEF PreviousBypass

\* Records with a time or a path.
LEMMA StampedTyped ==
    ASSUME NEW e \in OWNED_EVENTS, NEW s \in Sessions, NEW r \in Repos, NEW m \in 0..CLOCK
    PROVE  [Rec(e, s, r) EXCEPT !.ts = m] \in Entries
BY SessionsAssumption DEF Rec, Entries

LEMMA EditTyped ==
    ASSUME NEW s \in Sessions, NEW r \in Repos, NEW x \in Paths \cup {Outside}
    PROVE  [Rec("edit", s, r) EXCEPT !.path = x] \in Entries
<1>1. "edit" \in OWNED_EVENTS
  BY DEF OWNED_EVENTS
<1>2. 0 \in 0..CLOCK
  BY SessionsAssumption
<1>3. QED
  BY <1>1, <1>2 DEF Rec, Entries

LEMMA InitTyped == Init => TypeOK
BY SessionsAssumption DEF Init, TypeOK, Entries

LEMMA AppendTyped ==
    ASSUME TypeOK, NEW e \in Entries, Appended(e)
    PROVE  journal' \in Seq(Entries) /\ faults' \in 0..FAULTS
<1>1. CASE Written(e)
  BY <1>1 DEF TypeOK, Written
<1>2. CASE LostAppend
  BY <1>2, SessionsAssumption DEF TypeOK, LostAppend
<1>3. QED
  BY <1>1, <1>2 DEF Appended

LEMMA SpoilTyped ==
    ASSUME TypeOK, Spoil
    PROVE  TypeOK'
<1>1. /\ journal \in Seq(Entries) /\ journal # <<>> /\ Len(journal) \in Nat
      /\ journal[Len(journal)] \in Entries
  BY DEF TypeOK, Spoil
<1>2. journal' \in Seq(Entries)
  BY <1>1 DEF Spoil
<1>3. forgotten' \subseteq {None} \cup Sessions
  <2>1. CASE journal[Len(journal)].event = "bypass_reported"
    BY <1>1, <2>1 DEF Spoil, TypeOK, Entries
  <2>2. CASE journal[Len(journal)].event # "bypass_reported"
    BY <2>2 DEF Spoil, TypeOK
  <2>3. QED
    BY <2>1, <2>2
<1>4. faults' \in 0..FAULTS
  BY SessionsAssumption DEF Spoil, TypeOK
<1>5. QED
  BY <1>2, <1>3, <1>4 DEF Spoil, TypeOK

LEMMA StepTyped == TypeOK /\ [Next]_vars => TypeOK'
<1> SUFFICES ASSUME TypeOK, [Next]_vars PROVE TypeOK'
  OBVIOUS
<1> USE SessionsAssumption DEF OWNED_EVENTS, BOUNDARY_EVENTS, ENDS
<1>1. CASE Tick
  BY <1>1 DEF Tick, TypeOK
<1>2. CASE RemoveReportLock
  BY <1>2 DEF RemoveReportLock, TypeOK
<1>3. ASSUME NEW s \in Sessions, Open(s) PROVE TypeOK'
  <2>1. [Rec("session_open", s, home[s]) EXCEPT !.ts = clock] \in Entries
    <3>1. "session_open" \in OWNED_EVENTS /\ home[s] \in Repos /\ clock \in 0..CLOCK
      BY DEF TypeOK
    <3>2. QED
      BY <3>1, StampedTyped
  <2>2. journal' \in Seq(Entries) /\ faults' \in 0..FAULTS
    BY <1>3, <2>1, AppendTyped DEF Open
  <2>3. QED
    BY <1>3, <2>1, <2>2 DEF Open, TypeOK
<1>4. ASSUME NEW s \in Sessions, Decide(s) PROVE TypeOK'
  <2> DEFINE b == PreviousBypass(History(home[s]), Cut(History(home[s]), since[s]))
  <2>1. b # None => b \in Sessions
    BY WhatIsReported
  <2>2. CASE b = None
    <3>1. /\ HookEnds(s)
          /\ UNCHANGED <<reportLock, journal, clock, life, home, printed, forgotten, faults>>
      BY <1>4, <2>2 DEF Decide
    <3> HIDE DEF b
    <3>2. QED
      BY <3>1 DEF HookEnds, TypeOK
  <2>3. CASE b # None
    <3>1. /\ hook' = [hook EXCEPT ![s] = "claiming"]
          /\ bypass' = [bypass EXCEPT ![s] = b]
          /\ reportLock' = s
          /\ UNCHANGED <<since, journal, clock, life, home, printed, forgotten, faults>>
      BY <1>4, <2>3 DEF Decide
    <3> HIDE DEF b
    <3>2. QED
      BY <2>1, <2>3, <3>1 DEF TypeOK
  <2>4. QED
    BY <2>2, <2>3
<1>5. ASSUME NEW s \in Sessions, LockTimeout(s) PROVE TypeOK'
  BY <1>5 DEF LockTimeout, HookEnds, TypeOK
<1>6. ASSUME NEW s \in Sessions, Claim(s) PROVE TypeOK'
  <2>1. Rec("bypass_reported", bypass[s], home[s]) \in Entries
    BY DEF Rec, Entries, TypeOK
  <2>2. journal' \in Seq(Entries) /\ faults' \in 0..FAULTS
    BY <1>6, <2>1, AppendTyped DEF Claim, Appended
  <2>3. bypass[s] \in Sessions
    BY <1>6 DEF Claim, TypeOK
  <2>4. forgotten' \subseteq {None} \cup Sessions
    BY <1>6, <2>3 DEF Claim, TypeOK
  <2>5. \/ hook' = [hook EXCEPT ![s] = "printing"] /\ UNCHANGED <<since, bypass>>
        \/ HookEnds(s)
    BY <1>6 DEF Claim
  <2>6. UNCHANGED <<clock, life, home, printed>> /\ reportLock' = None
    BY <1>6 DEF Claim
  <2>7. QED
    BY <2>2, <2>3, <2>4, <2>5, <2>6 DEF HookEnds, TypeOK
<1>7. ASSUME NEW s \in Sessions, Report(s) PROVE TypeOK'
  BY <1>7 DEF Report, HookEnds, TypeOK
<1>8. ASSUME NEW s \in Sessions, HookKilled(s) PROVE TypeOK'
  <2>1. Rec("bypass_reported", bypass[s], home[s]) \in Entries
    BY DEF Rec, Entries, TypeOK
  <2>2. journal' \in Seq(Entries) /\ faults' \in 0..FAULTS
    <3>1. faults' = faults + 1 /\ faults < FAULTS
      BY <1>8 DEF HookKilled
    <3>2. journal' = journal \/ journal' = Append(journal, Rec("bypass_reported", bypass[s], home[s]))
      BY <1>8 DEF HookKilled
    <3>3. journal' \in Seq(Entries)
      <4>1. journal \in Seq(Entries)
        BY DEF TypeOK
      <4>2. QED
        BY <2>1, <3>2, <4>1
    <3>4. faults' \in 0..FAULTS
      BY <3>1 DEF TypeOK
    <3>5. QED
      BY <3>3, <3>4
  <2>3. QED
    BY <1>8, <2>2 DEF HookKilled, HookEnds, TypeOK
<1>9. ASSUME NEW s \in Sessions, TurnEnd(s) PROVE TypeOK'
  <2>1. [Rec("turn_end", s, home[s]) EXCEPT !.ts = clock] \in Entries
    <3>1. "turn_end" \in OWNED_EVENTS /\ home[s] \in Repos /\ clock \in 0..CLOCK
      BY DEF TypeOK
    <3>2. QED
      BY <3>1, StampedTyped
  <2>2. QED
    BY <1>9, <2>1, AppendTyped DEF TurnEnd, TypeOK
<1>10. ASSUME NEW s \in Sessions, Close(s) PROVE TypeOK'
  <2>1. [Rec("session_close", s, home[s]) EXCEPT !.ts = clock] \in Entries
    <3>1. "session_close" \in OWNED_EVENTS /\ home[s] \in Repos /\ clock \in 0..CLOCK
      BY DEF TypeOK
    <3>2. QED
      BY <3>1, StampedTyped
  <2>2. journal' \in Seq(Entries) /\ faults' \in 0..FAULTS
    BY <1>10, <2>1, AppendTyped DEF Close, TypeOK
  <2>3. QED
    BY <1>10, <2>2 DEF Close, TypeOK
<1>11. ASSUME NEW s \in Sessions, NEW x \in Paths \cup {Outside}, Edit(s, x) PROVE TypeOK'
  <2>1. [Rec("edit", s, home[s]) EXCEPT !.path = x] \in Entries
    BY EditTyped DEF TypeOK
  <2>2. QED
    BY <1>11, <2>1, AppendTyped DEF Edit, TypeOK
<1>12. ASSUME NEW s \in Sessions, NEW r \in Repos, GraphRun(s, r) PROVE TypeOK'
  <2>1. PICK named \in {s, None} : Appended(Rec("graph_transition", named, r))
    BY <1>12 DEF GraphRun
  <2>2. Rec("graph_transition", named, r) \in Entries
    BY DEF Rec, Entries
  <2>3. QED
    BY <1>12, <2>1, <2>2, AppendTyped DEF GraphRun, TypeOK
<1>13. CASE UNCHANGED vars
  BY <1>13 DEF vars, TypeOK
<1>14. CASE Spoil
  BY <1>14, SpoilTyped
<1>15. QED
  BY <1>1, <1>2, <1>3, <1>4, <1>5, <1>6, <1>7, <1>8, <1>9, <1>10, <1>11, <1>12, <1>13, <1>14
     DEF Next

\* However sessions, hooks and faults interleave, every state is well formed.
THEOREM SessionsTypeCorrect == Spec => []TypeOK
BY InitTyped, StepTyped, PTL DEF Spec

-----------------------------------------------------------------------------
(* Nobody is reported twice *)

\* A record that belongs to a session has the repository of its session.
Homely(e) ==
    e.event # "graph_transition" => e.session \in Sessions /\ e.repo = home[e.session]

AtHome == \A i \in DOMAIN journal : Homely(journal[i])

\* A start that is about to claim holds report.lock, and nobody claimed before.
Intent(s) ==
    hook[s] = "claiming" =>
        /\ reportLock = s
        /\ home[bypass[s]] = home[s]
        /\ Claims(bypass[s]) = {}

\* A start that is about to say it is the only one, after its claim, unless
\* the claim was lost.
Saying(s) ==
    hook[s] = "printing" /\ bypass[s] \notin forgotten =>
        /\ Claims(bypass[s]) # {}
        /\ printed[bypass[s]] = 0
        /\ \A t \in Sessions : hook[t] = "printing" /\ bypass[t] = bypass[s] => t = s

\* What was said of one session whose claims were not lost.
ToldOnce(s) ==
    s \notin forgotten =>
        /\ printed[s] \in {0, 1}
        /\ printed[s] = 1 => Claims(s) # {}

\* There is one claim of it on record at most.
ClaimedOnce(s) == \A i, j \in Claims(s) : i = j

ClaimInv ==
    /\ AtHome
    /\ \A s \in Sessions : Intent(s)
    /\ \A s \in Sessions : Saying(s)
    /\ \A s \in Sessions : ToldOnce(s)
    /\ \A s \in Sessions : ClaimedOnce(s)

LEMMA Grown ==
    ASSUME TypeOK, NEW e \in Entries, journal' = Append(journal, e)
    PROVE  /\ DOMAIN journal' = DOMAIN journal \cup {Len(journal) + 1}
           /\ Len(journal) + 1 \notin DOMAIN journal
           /\ \A i \in DOMAIN journal : journal'[i] = journal[i]
           /\ journal'[Len(journal) + 1] = e
<1>1. journal \in Seq(Entries)
  BY DEF TypeOK
<1>2. QED
  BY <1>1

\* Records that are no claims leave the claims alone.
LEMMA ClaimsStay ==
    ASSUME TypeOK, NEW e \in Entries, e.event # "bypass_reported",
           journal' = journal \/ journal' = Append(journal, e)
    PROVE  \A v \in Sessions : Claims(v)' = Claims(v)
<1>1. CASE journal' = journal
  BY <1>1 DEF Claims
<1>2. CASE journal' = Append(journal, e)
  <2>1. SUFFICES ASSUME NEW v \in Sessions PROVE Claims(v)' = Claims(v)
    OBVIOUS
  <2>2. QED
    BY <1>2, Grown DEF Claims
<1>3. QED
  BY <1>1, <1>2

LEMMA StaysAtHome ==
    ASSUME TypeOK, AtHome, home' = home, NEW e \in Entries, Homely(e),
           journal' = journal \/ journal' = Append(journal, e)
    PROVE  AtHome'
<1>1. CASE journal' = journal
  BY <1>1 DEF AtHome, Homely
<1>2. CASE journal' = Append(journal, e)
  BY <1>2, Grown DEF AtHome, Homely
<1>3. QED
  BY <1>1, <1>2

\* Steps without a claim or a message, in which no start gets as far as that.
LEMMA ClaimFrame ==
    ASSUME ClaimInv, AtHome', home' = home, printed' = printed, forgotten' = forgotten,
           \A v \in Sessions : Claims(v)' = Claims(v),
           \A s \in Sessions : hook'[s] \in {"claiming", "printing"} =>
                hook'[s] = hook[s] /\ bypass'[s] = bypass[s] /\ bypass[s] \in Sessions,
           \A s \in Sessions : hook'[s] = "claiming" => reportLock' = s
    PROVE  ClaimInv'
<1>1. ASSUME NEW s \in Sessions PROVE Intent(s)'
  BY DEF ClaimInv, Intent
<1>2. ASSUME NEW s \in Sessions PROVE Saying(s)'
  BY DEF ClaimInv, Saying
<1>3. ASSUME NEW s \in Sessions PROVE ToldOnce(s)' /\ ClaimedOnce(s)'
  BY DEF ClaimInv, ToldOnce, ClaimedOnce
<1>4. QED
  BY <1>1, <1>2, <1>3 DEF ClaimInv

LEMMA ClaimInit == Init => ClaimInv
BY DEF Init, ClaimInv, AtHome, Intent, Saying, ToldOnce, ClaimedOnce, Claims

\* A finished session opened in the repository it is found in.
LEMMA FinishedAtHome ==
    ASSUME AtHome, NEW r \in Repos, NEW n, NEW b \in Finished(History(r), n)
    PROVE  home[b] = r
<1>1. At(History(r), n, b, {"session_open"}) # {}
  BY DEF Finished, OpenAt, First
<1>2. PICK i \in DOMAIN History(r) : History(r)[i].session = b /\ History(r)[i].event = "session_open"
  BY <1>1 DEF At
<1>3. i \in DOMAIN journal /\ journal[i].repo = r /\ History(r)[i] = journal[i]
  BY DEF History
<1>4. QED
  BY <1>2, <1>3 DEF AtHome, Homely

LEMMA ClaimsAreSeen ==
    ASSUME AtHome, NEW b \in Sessions, b \notin Reported(History(home[b]))
    PROVE  Claims(b) = {}
<1>1. SUFFICES ASSUME NEW i \in Claims(b) PROVE FALSE
  OBVIOUS
<1>2. i \in DOMAIN journal /\ journal[i].event = "bypass_reported" /\ journal[i].session = b
  BY DEF Claims
<1>3. journal[i].repo = home[b]
  BY <1>2 DEF AtHome, Homely
<1>4. i \in DOMAIN History(home[b]) /\ History(home[b])[i] = journal[i]
  BY <1>2, <1>3 DEF History
<1>5. QED
  BY <1>2, <1>4 DEF Reported

LEMMA DecidedUnclaimed ==
    ASSUME TypeOK, AtHome, NEW s \in Sessions, NEW n, NEW b,
           b = PreviousBypass(History(home[s]), n), b # None
    PROVE  b \in Sessions /\ home[b] = home[s] /\ Claims(b) = {}
<1>1. b \in Sessions /\ Reportable(History(home[s]), n, b)
  BY WhatIsReported
<1>2. b \in Finished(History(home[s]), n) /\ b \notin Reported(History(home[s]))
  BY <1>1 DEF Reportable, Candidates
<1>3. home[b] = home[s]
  BY <1>2, FinishedAtHome DEF TypeOK
<1>4. QED
  BY <1>1, <1>2, <1>3, ClaimsAreSeen

\* Opens, edits, runs, turn ends and closes.
LEMMA OtherRecords ==
    ASSUME TypeOK, ClaimInv, NEW e \in Entries, e.event # "bypass_reported", Homely(e),
           Appended(e), NEW s \in Sessions,
           UNCHANGED <<home, bypass, reportLock, printed, forgotten>>,
           hook' = hook \/ hook' = [hook EXCEPT ![s] = "waiting"]
    PROVE  ClaimInv'
<1>1. journal' = journal \/ journal' = Append(journal, e)
  BY DEF Appended, Written, LostAppend
<1>2. AtHome' /\ \A v \in Sessions : Claims(v)' = Claims(v)
  BY <1>1, ClaimsStay, StaysAtHome DEF ClaimInv
<1>3. \A t \in Sessions : hook'[t] \in {"claiming", "printing"} => hook'[t] = hook[t]
  BY DEF TypeOK
<1>4. \A t \in Sessions : hook'[t] = "claiming" => reportLock' = t
  BY <1>3 DEF ClaimInv, Intent
<1>5. \A t \in Sessions : hook[t] \in {"claiming", "printing"} => bypass[t] \in Sessions
  BY DEF TypeOK
<1>6. QED
  BY <1>2, <1>3, <1>4, <1>5, ClaimFrame

\* Steps that record nothing and get no start further than it was.
LEMMA NothingRecorded ==
    ASSUME TypeOK, ClaimInv, UNCHANGED <<journal, home, printed, forgotten>>,
           \A t \in Sessions : hook'[t] \in {"claiming", "printing"} =>
                hook'[t] = hook[t] /\ bypass'[t] = bypass[t],
           \A t \in Sessions : hook'[t] = "claiming" => reportLock' = reportLock
    PROVE  ClaimInv'
<1>1. AtHome' /\ \A v \in Sessions : Claims(v)' = Claims(v)
  BY DEF ClaimInv, AtHome, Homely, Claims
<1>2. \A t \in Sessions : hook'[t] = "claiming" => reportLock' = t
  BY DEF ClaimInv, Intent
<1>3. \A t \in Sessions : hook[t] \in {"claiming", "printing"} => bypass[t] \in Sessions
  BY DEF TypeOK
<1>4. QED
  BY <1>1, <1>2, <1>3, ClaimFrame

LEMMA DecideKeeps ==
    ASSUME TypeOK, ClaimInv, NEW s \in Sessions, Decide(s)
    PROVE  ClaimInv'
<1> DEFINE b == PreviousBypass(History(home[s]), Cut(History(home[s]), since[s]))
<1>1. CASE b = None
  BY <1>1, NothingRecorded DEF Decide, HookEnds, TypeOK
<1>2. CASE b # None
  <2>1. /\ hook' = [hook EXCEPT ![s] = "claiming"]
        /\ bypass' = [bypass EXCEPT ![s] = b]
        /\ reportLock = None /\ reportLock' = s
        /\ UNCHANGED <<journal, home, printed, forgotten>>
    BY <1>2 DEF Decide
  <2>2. b \in Sessions /\ home[b] = home[s] /\ Claims(b) = {}
    BY <1>2, DecidedUnclaimed DEF ClaimInv
  <2> HIDE DEF b
  <2>3. /\ hook'[s] = "claiming" /\ bypass'[s] = b
        /\ \A t \in Sessions \ {s} : hook'[t] = hook[t] /\ bypass'[t] = bypass[t]
    BY <2>1 DEF TypeOK
  <2>4. \A t \in Sessions : hook[t] # "claiming"
    BY <2>1, SessionsAssumption DEF ClaimInv, Intent
  <2>5. AtHome' /\ \A v : Claims(v)' = Claims(v)
    BY <2>1 DEF ClaimInv, AtHome, Homely, Claims
  <2>6. ASSUME NEW t \in Sessions PROVE Intent(t)'
    BY <2>1, <2>2, <2>3, <2>4, <2>5 DEF Intent
  <2>7. ASSUME NEW t \in Sessions PROVE Saying(t)'
    BY <2>1, <2>3, <2>5 DEF ClaimInv, Saying
  <2>8. ASSUME NEW t \in Sessions PROVE ToldOnce(t)' /\ ClaimedOnce(t)'
    BY <2>1, <2>5 DEF ClaimInv, ToldOnce, ClaimedOnce
  <2>9. QED
    BY <2>5, <2>6, <2>7, <2>8 DEF ClaimInv
<1>3. QED
  BY <1>1, <1>2

\* The record of a claim, by a start that goes on to say it or is killed.
LEMMA ClaimRecorded ==
    ASSUME TypeOK, ClaimInv, NEW s \in Sessions, hook[s] = "claiming", NEW b, b = bypass[s],
           journal' = Append(journal, Rec("bypass_reported", b, home[s])),
           UNCHANGED <<home, printed, forgotten>>,
           \/ hook' = [hook EXCEPT ![s] = "printing"] /\ bypass' = bypass
           \/ hook' = [hook EXCEPT ![s] = "none"] /\ bypass' = [bypass EXCEPT ![s] = None]
    PROVE  ClaimInv'
<1> DEFINE e == Rec("bypass_reported", b, home[s])
           k == Len(journal) + 1
<1>1. b \in Sessions /\ home[b] = home[s] /\ Claims(b) = {} /\ reportLock = s
  BY DEF TypeOK, ClaimInv, Intent
<1>2. /\ e \in Entries /\ Homely(e)
      /\ e.event = "bypass_reported" /\ e.session = b
  BY <1>1, SessionsAssumption DEF Rec, Entries, TypeOK, Homely
<1>3. /\ DOMAIN journal' = DOMAIN journal \cup {k}
      /\ k \notin DOMAIN journal
      /\ \A i \in DOMAIN journal : journal'[i] = journal[i]
      /\ journal'[k] = e
  BY <1>2, Grown
<1>4. AtHome'
  BY <1>2, StaysAtHome DEF ClaimInv
<1>5. Claims(b)' = {k} /\ \A v \in Sessions \ {b} : Claims(v)' = Claims(v)
  <2> HIDE DEF e, k
  <2>1. \A v \in Sessions \ {b} : Claims(v)' = Claims(v)
    BY <1>2, <1>3 DEF Claims
  <2>2. Claims(b)' = Claims(b) \cup {k}
    BY <1>2, <1>3 DEF Claims
  <2>3. QED
    BY <1>1, <2>1, <2>2
<1> HIDE DEF e, k
<1>6. \A t \in Sessions : hook[t] = "claiming" => t = s
  BY <1>1 DEF ClaimInv, Intent
<1>7. /\ \A t \in Sessions \ {s} : hook'[t] = hook[t] /\ bypass'[t] = bypass[t]
      /\ hook'[s] = "none" \/ (hook'[s] = "printing" /\ bypass'[s] = b)
  BY DEF TypeOK
<1>8. ASSUME NEW t \in Sessions PROVE Intent(t)'
  BY <1>6, <1>7 DEF Intent
<1>9. \A t \in Sessions :
        hook[t] = "printing" /\ bypass[t] \notin forgotten => bypass[t] # b /\ bypass[t] \in Sessions
  BY <1>1 DEF ClaimInv, Saying, TypeOK
<1>10. ASSUME NEW t \in Sessions, hook'[t] = "printing", bypass'[t] \notin forgotten
       PROVE Saying(t)'
  <2>1. CASE t = s
    <3>1. Claims(bypass[t])' # {} /\ bypass'[t] = b
      BY <1>5, <1>7, <1>10, <2>1
    <3>2. printed[b] = 0
      BY <1>1, <1>7, <1>10, <2>1 DEF ClaimInv, ToldOnce
    <3>3. \A u \in Sessions : hook'[u] = "printing" /\ bypass'[u] = b => u = s
      BY <1>7, <1>9, <1>10, <2>1
    <3>4. QED
      BY <2>1, <3>1, <3>2, <3>3 DEF Saying
  <2>2. CASE t # s
    <3>1. hook[t] = "printing" /\ bypass'[t] = bypass[t] /\ bypass[t] \in Sessions \ {b}
      BY <1>7, <1>9, <1>10, <2>2
    <3>2. Claims(bypass[t])' # {} /\ printed'[bypass'[t]] = 0
      BY <1>5, <1>10, <3>1 DEF ClaimInv, Saying
    <3>3. \A u \in Sessions : hook'[u] = "printing" /\ bypass'[u] = bypass'[t] => u = t
      BY <1>7, <1>10, <3>1 DEF ClaimInv, Saying
    <3>4. QED
      BY <3>2, <3>3 DEF Saying
  <2>3. QED
    BY <2>1, <2>2
<1>11. ASSUME NEW t \in Sessions PROVE ToldOnce(t)' /\ ClaimedOnce(t)'
  BY <1>1, <1>5 DEF ClaimInv, ToldOnce, ClaimedOnce
<1>12. QED
  BY <1>4, <1>8, <1>10, <1>11 DEF ClaimInv, Saying

LEMMA ReportKeeps ==
    ASSUME TypeOK, ClaimInv, NEW s \in Sessions, Report(s)
    PROVE  ClaimInv'
<1> DEFINE b == bypass[s]
<1>1. b \in Sessions /\ (b \notin forgotten => printed[b] = 0 /\ Claims(b) # {})
  BY DEF Report, TypeOK, ClaimInv, Saying
<1>2. /\ printed' = [printed EXCEPT ![b] = @ + 1]
      /\ hook' = [hook EXCEPT ![s] = "none"] /\ bypass' = [bypass EXCEPT ![s] = None]
      /\ UNCHANGED <<journal, home, reportLock, forgotten>> /\ hook[s] = "printing"
  BY DEF Report, HookEnds
<1>3. AtHome' /\ \A v : Claims(v)' = Claims(v)
  BY <1>2 DEF ClaimInv, AtHome, Homely, Claims
<1>4. (b \notin forgotten => printed'[b] = 1) /\ \A v \in Sessions \ {b} : printed'[v] = printed[v]
  BY <1>1, <1>2 DEF TypeOK
<1>5. hook'[s] = "none" /\ \A t \in Sessions \ {s} : hook'[t] = hook[t] /\ bypass'[t] = bypass[t]
  BY <1>2 DEF TypeOK
<1>6. ASSUME NEW t \in Sessions PROVE Intent(t)'
  BY <1>2, <1>3, <1>5 DEF ClaimInv, Intent
<1>7. ASSUME NEW t \in Sessions, hook'[t] = "printing", bypass'[t] \notin forgotten
      PROVE Saying(t)'
  <2>1. t # s /\ hook[t] = "printing" /\ bypass'[t] = bypass[t] /\ bypass[t] \in Sessions
    BY <1>5, <1>7 DEF TypeOK
  <2>2. bypass[t] # b
    BY <1>2, <1>7, <2>1 DEF ClaimInv, Saying
  <2>3. QED
    BY <1>3, <1>4, <1>5, <1>7, <2>1, <2>2 DEF ClaimInv, Saying
<1>8. ASSUME NEW t \in Sessions PROVE ToldOnce(t)' /\ ClaimedOnce(t)'
  BY <1>1, <1>2, <1>3, <1>4 DEF ClaimInv, ToldOnce, ClaimedOnce
<1>9. QED
  BY <1>2, <1>3, <1>6, <1>7, <1>8 DEF ClaimInv, Saying

\* A start says it although nobody can read its claim.
LEMMA ClaimLost ==
    ASSUME TypeOK, ClaimInv, NEW s \in Sessions, hook[s] = "claiming",
           hook' = [hook EXCEPT ![s] = "printing"], forgotten' = forgotten \cup {bypass[s]},
           UNCHANGED <<journal, home, printed, bypass>>
    PROVE  ClaimInv'
<1>1. AtHome' /\ \A v : Claims(v)' = Claims(v)
  BY DEF ClaimInv, AtHome, Homely, Claims
<1>2. hook'[s] = "printing" /\ \A t \in Sessions \ {s} : hook'[t] = hook[t]
  BY DEF TypeOK
<1>3. \A t \in Sessions : hook[t] = "claiming" => t = s
  BY DEF ClaimInv, Intent
<1>4. ASSUME NEW t \in Sessions PROVE Intent(t)'
  BY <1>2, <1>3 DEF Intent
<1>5. ASSUME NEW t \in Sessions PROVE Saying(t)'
  BY <1>1, <1>2 DEF ClaimInv, Saying
<1>6. ASSUME NEW t \in Sessions PROVE ToldOnce(t)' /\ ClaimedOnce(t)'
  BY <1>1 DEF ClaimInv, ToldOnce, ClaimedOnce
<1>7. QED
  BY <1>1, <1>4, <1>5, <1>6 DEF ClaimInv

\* The newest record is spoilt: if it was a claim, its session is forgotten.
LEMMA SpoilKeeps ==
    ASSUME TypeOK, ClaimInv, Spoil
    PROVE  ClaimInv'
<1> DEFINE k == Len(journal)
<1>1. /\ journal \in Seq(Entries) /\ journal # <<>> /\ journal' = SubSeq(journal, 1, k - 1)
      /\ UNCHANGED <<home, hook, bypass, reportLock, printed>>
  BY DEF TypeOK, Spoil
<1>2. /\ DOMAIN journal' = DOMAIN journal \ {k} /\ k \in DOMAIN journal
      /\ \A i \in DOMAIN journal' : journal'[i] = journal[i]
  BY <1>1
<1>3. /\ forgotten \subseteq forgotten'
      /\ journal[k].event = "bypass_reported" => journal[k].session \in forgotten'
  BY DEF Spoil
<1> HIDE DEF k
<1>4. AtHome'
  BY <1>1, <1>2 DEF ClaimInv, AtHome, Homely
<1>5. \A v : Claims(v)' \subseteq Claims(v)
  BY <1>2 DEF Claims
<1>6. \A v : v \notin forgotten' => Claims(v)' = Claims(v)
  BY <1>2, <1>3 DEF Claims
<1>7. ASSUME NEW t \in Sessions PROVE Intent(t)'
  BY <1>1, <1>5 DEF ClaimInv, Intent
<1>8. ASSUME NEW t \in Sessions PROVE Saying(t)'
  BY <1>1, <1>3, <1>6 DEF ClaimInv, Saying
<1>9. ASSUME NEW t \in Sessions PROVE ToldOnce(t)' /\ ClaimedOnce(t)'
  BY <1>1, <1>3, <1>5, <1>6 DEF ClaimInv, ToldOnce, ClaimedOnce
<1>10. QED
  BY <1>4, <1>7, <1>8, <1>9 DEF ClaimInv

LEMMA ClaimStep == TypeOK /\ ClaimInv /\ [Next]_vars => ClaimInv'
<1> SUFFICES ASSUME TypeOK, ClaimInv, [Next]_vars PROVE ClaimInv'
  OBVIOUS
<1>1. CASE Tick
  BY <1>1, NothingRecorded DEF Tick
<1>2. CASE RemoveReportLock
  <2>1. \A t \in Sessions : hook[t] # "claiming"
    BY <1>2 DEF RemoveReportLock, ClaimInv, Intent
  <2>2. QED
    BY <1>2, <2>1, NothingRecorded DEF RemoveReportLock
<1>3. ASSUME NEW s \in Sessions, Open(s) PROVE ClaimInv'
  <2> DEFINE e == [Rec("session_open", s, home[s]) EXCEPT !.ts = clock]
  <2>1. e \in Entries
    <3>1. "session_open" \in OWNED_EVENTS /\ home[s] \in Repos /\ clock \in 0..CLOCK
      BY DEF TypeOK, OWNED_EVENTS, BOUNDARY_EVENTS, ENDS
    <3>2. QED
      BY <3>1, StampedTyped
  <2>2. e.event = "session_open" /\ Homely(e)
    BY DEF Rec, Homely
  <2>3. QED
    BY <1>3, <2>1, <2>2, OtherRecords DEF Open
<1>4. ASSUME NEW s \in Sessions, Decide(s) PROVE ClaimInv'
  BY <1>4, DecideKeeps
<1>5. ASSUME NEW s \in Sessions, LockTimeout(s) PROVE ClaimInv'
  BY <1>5, NothingRecorded DEF LockTimeout, HookEnds, TypeOK
<1>6. ASSUME NEW s \in Sessions, Claim(s) PROVE ClaimInv'
  <2>1. CASE /\ Written(Rec("bypass_reported", bypass[s], home[s]))
             /\ hook' = [hook EXCEPT ![s] = "printing"]
             /\ UNCHANGED <<bypass, forgotten>>
    BY <1>6, <2>1, ClaimRecorded DEF Claim, Written
  <2>2. CASE LostAppend /\ HookEnds(s) /\ UNCHANGED forgotten
    <3>1. \A t \in Sessions : hook'[t] # "claiming"
      BY <1>6, <2>2 DEF Claim, HookEnds, TypeOK, ClaimInv, Intent
    <3>2. QED
      BY <1>6, <2>2, <3>1, NothingRecorded DEF Claim, HookEnds, LostAppend, TypeOK
  <2>3. CASE /\ LostAppend
             /\ hook' = [hook EXCEPT ![s] = "printing"]
             /\ forgotten' = forgotten \cup {bypass[s]}
             /\ UNCHANGED bypass
    BY <1>6, <2>3, ClaimLost DEF Claim, LostAppend
  <2>4. QED
    BY <1>6, <2>1, <2>2, <2>3 DEF Claim
<1>7. ASSUME NEW s \in Sessions, Report(s) PROVE ClaimInv'
  BY <1>7, ReportKeeps
<1>8. ASSUME NEW s \in Sessions, HookKilled(s) PROVE ClaimInv'
  <2>1. CASE journal' = journal
    BY <1>8, <2>1, NothingRecorded DEF HookKilled, HookEnds, TypeOK
  <2>2. CASE hook[s] = "claiming" /\ journal' = Append(journal, Rec("bypass_reported", bypass[s], home[s]))
    BY <1>8, <2>2, ClaimRecorded DEF HookKilled, HookEnds
  <2>3. QED
    BY <1>8, <2>1, <2>2 DEF HookKilled
<1>9. ASSUME NEW s \in Sessions, TurnEnd(s) PROVE ClaimInv'
  <2> DEFINE e == [Rec("turn_end", s, home[s]) EXCEPT !.ts = clock]
  <2>1. e \in Entries
    <3>1. "turn_end" \in OWNED_EVENTS /\ home[s] \in Repos /\ clock \in 0..CLOCK
      BY DEF TypeOK, OWNED_EVENTS, BOUNDARY_EVENTS, ENDS
    <3>2. QED
      BY <3>1, StampedTyped
  <2>2. e.event = "turn_end" /\ Homely(e)
    BY DEF Rec, Homely
  <2>3. QED
    BY <1>9, <2>1, <2>2, OtherRecords DEF TurnEnd
<1>10. ASSUME NEW s \in Sessions, Close(s) PROVE ClaimInv'
  <2> DEFINE e == [Rec("session_close", s, home[s]) EXCEPT !.ts = clock]
  <2>1. e \in Entries
    <3>1. "session_close" \in OWNED_EVENTS /\ home[s] \in Repos /\ clock \in 0..CLOCK
      BY DEF TypeOK, OWNED_EVENTS, BOUNDARY_EVENTS, ENDS
    <3>2. QED
      BY <3>1, StampedTyped
  <2>2. e.event = "session_close" /\ Homely(e)
    BY DEF Rec, Homely
  <2>3. CASE Appended(e)
    BY <1>10, <2>1, <2>2, <2>3, OtherRecords DEF Close
  <2>4. CASE UNCHANGED journal
    BY <1>10, <2>4, NothingRecorded DEF Close
  <2>5. QED
    BY <1>10, <2>3, <2>4 DEF Close
<1>11. ASSUME NEW s \in Sessions, NEW x \in Paths \cup {Outside}, Edit(s, x) PROVE ClaimInv'
  <2> DEFINE e == [Rec("edit", s, home[s]) EXCEPT !.path = x]
  <2>1. e \in Entries
    BY EditTyped DEF TypeOK
  <2>2. e.event = "edit" /\ Homely(e)
    BY DEF Rec, Homely
  <2>3. QED
    BY <1>11, <2>1, <2>2, OtherRecords DEF Edit
<1>12. ASSUME NEW s \in Sessions, NEW r \in Repos, GraphRun(s, r) PROVE ClaimInv'
  <2>1. PICK named \in {s, None} : Appended(Rec("graph_transition", named, r))
    BY <1>12 DEF GraphRun
  <2> DEFINE e == Rec("graph_transition", named, r)
  <2>2. e \in Entries
    BY SessionsAssumption DEF Rec, Entries
  <2>3. e.event = "graph_transition" /\ Homely(e)
    BY DEF Rec, Homely
  <2>4. QED
    BY <1>12, <2>1, <2>2, <2>3, OtherRecords DEF GraphRun
<1>13. CASE UNCHANGED vars
  BY <1>13, NothingRecorded DEF vars
<1>14. CASE Spoil
  BY <1>14, SpoilKeeps
<1>15. QED
  BY <1>1, <1>2, <1>3, <1>4, <1>5, <1>6, <1>7, <1>8, <1>9, <1>10, <1>11, <1>12, <1>13, <1>14
     DEF Next

\* Starts race, are killed and lose records: a session is claimed once at most,
\* and mentioned at most as often as it is claimed unless an acknowledged claim
\* of it was lost.
THEOREM ReportedOnce == Spec => []AtMostOnce
<1>1. ASSUME ClaimInv, NEW s \in Sessions
      PROVE  /\ Cardinality(Claims(s)) <= 1
             /\ s \notin forgotten => printed[s] <= Cardinality(Claims(s))
  <2>1. ToldOnce(s) /\ ClaimedOnce(s)
    BY <1>1 DEF ClaimInv
  <2>2. CASE Claims(s) = {}
    BY <2>1, <2>2, FS_EmptySet DEF ToldOnce
  <2>3. CASE Claims(s) # {}
    <3>1. PICK i : Claims(s) = {i}
      BY <2>1, <2>3 DEF ClaimedOnce
    <3>2. Cardinality(Claims(s)) = 1
      BY <3>1, FS_Singleton
    <3>3. QED
      BY <2>1, <3>2 DEF ToldOnce
  <2>4. QED
    BY <2>2, <2>3
<1>2. ClaimInv => AtMostOnce
  BY <1>1 DEF AtMostOnce
<1>3. QED
  BY <1>2, InitTyped, StepTyped, ClaimInit, ClaimStep, PTL DEF Spec

-----------------------------------------------------------------------------
(* Windows *)

LEMMA Positions ==
    ASSUME TypeOK
    PROVE  /\ DOMAIN journal = 1..Len(journal) /\ Len(journal) \in Nat
           /\ \A i \in DOMAIN journal : journal[i] \in Entries
           /\ \A r : /\ DOMAIN History(r) \subseteq DOMAIN journal
                     /\ \A i \in DOMAIN History(r) : History(r)[i] = journal[i]
                     /\ \A i \in DOMAIN journal : journal[i].repo = r => i \in DOMAIN History(r)
<1>1. journal \in Seq(Entries)
  BY DEF TypeOK
<1>2. QED
  BY <1>1 DEF History

\* A set of positions, its first and its last.
LEMMA FirstAndLast ==
    ASSUME TypeOK, NEW S \in SUBSET DOMAIN journal
    PROVE  /\ S = {} => First(S) = 0 /\ Last1(S) = 0
           /\ S # {} => /\ First(S) \in S /\ \A j \in S : First(S) <= j
                        /\ Last1(S) \in S /\ \A j \in S : j <= Last1(S)
           /\ First(S) \in Nat /\ Last1(S) \in Nat
<1>1. S \in SUBSET (Nat \ {0}) /\ Len(journal) \in Nat /\ \A i \in S : i <= Len(journal)
  BY Positions
<1>2. /\ S = {} => First(S) = 0
      /\ S # {} => First(S) \in S /\ \A j \in S : First(S) <= j
  BY <1>1, FirstIsLeast
<1>3. /\ S = {} => Last1(S) = 0
      /\ S # {} => Last1(S) \in S /\ \A j \in S : j <= Last1(S)
  BY <1>1, LastIsGreatest
<1>4. QED
  BY <1>1, <1>2, <1>3

LEMMA CutIsPosition ==
    ASSUME TypeOK, NEW r, NEW x
    PROVE  Cut(History(r), x) \in Nat
<1> DEFINE same == {i \in DOMAIN History(r) : /\ History(r)[i].event = "session_open"
                                              /\ History(r)[i].session = x.session
                                              /\ History(r)[i].ts = x.ts}
<1>1. same \in SUBSET DOMAIN journal /\ Len(journal) \in Nat
  BY Positions
<1>2. Last1(same) \in Nat
  BY <1>1, FirstAndLast
<1>3. QED
  BY <1>1, <1>2 DEF Cut

\* Only a start that decides means to report somebody.
LEMMA OnlyDecide ==
    ASSUME TypeOK, [Next]_vars, NEW s \in Sessions, NEW v \in Sessions,
           bypass'[s] = v, bypass[s] # v
    PROVE  v = PreviousBypass(History(home[s]), Cut(History(home[s]), since[s]))
<1> USE SessionsAssumption DEF TypeOK
<1>1. v # None
  OBVIOUS
<1>2. ASSUME NEW t \in Sessions, bypass' = [bypass EXCEPT ![t] = None] PROVE FALSE
  BY <1>1, <1>2
<1>3. ASSUME bypass' = bypass PROVE FALSE
  BY <1>3
<1>4. ASSUME NEW t \in Sessions, HookEnds(t) PROVE FALSE
  BY <1>2, <1>4 DEF HookEnds
<1>5. PICK t \in Sessions : Decide(t)
  BY <1>3, <1>4 DEF Next, vars, Tick, RemoveReportLock, Spoil, Open, LockTimeout, Claim, Report,
     HookKilled, TurnEnd, Close, Edit, GraphRun
<1> DEFINE b == PreviousBypass(History(home[t]), Cut(History(home[t]), since[t]))
<1>6. bypass' = [bypass EXCEPT ![t] = b]
  BY <1>4, <1>5 DEF Decide
<1> HIDE DEF b
<1>7. s = t /\ v = b
  BY <1>6
<1>8. QED
  BY <1>7 DEF b

\* The opening a start sees of a finished session is the opening on record.
LEMMA OpeningSeen ==
    ASSUME TypeOK, AtHome, NEW r \in Repos, NEW n \in Nat, NEW v \in Finished(History(r), n)
    PROVE  OpenAt(History(r), n, v) = Opened(v) /\ Opened(v) \in Nat
<1> DEFINE seen == At(History(r), n, v, {"session_open"})
           all  == At(journal, End, v, {"session_open"})
<1>1. home[v] = r /\ v \in Sessions
  BY FinishedAtHome DEF Finished
<1>2. seen \subseteq all /\ all \subseteq DOMAIN journal
  BY Positions DEF At, End
<1>3. seen # {}
  BY DEF Finished, OpenAt, First
<1>4. ASSUME NEW j \in all PROVE First(seen) <= j
  <2>1. j \in DOMAIN journal /\ journal[j].session = v /\ journal[j].event = "session_open" /\ j \in Nat
    BY Positions DEF At
  <2>2. journal[j].repo = r
    BY <1>1, <2>1 DEF AtHome, Homely
  <2>3. j \in DOMAIN History(r) /\ History(r)[j] = journal[j]
    BY <2>1, <2>2, Positions
  <2>4. First(seen) \in seen /\ First(seen) \in Nat /\ \A k \in seen : First(seen) <= k
    BY <1>2, <1>3, FirstAndLast
  <2>5. CASE j < n
    BY <2>1, <2>3, <2>4, <2>5 DEF At
  <2>6. CASE ~ (j < n)
    <3>1. First(seen) < n
      BY <2>4 DEF At
    <3>2. QED
      BY <2>1, <2>4, <2>6, <3>1
  <2>7. QED
    BY <2>5, <2>6
<1>5. First(all) \in all /\ First(all) \in Nat /\ \A j \in all : First(all) <= j
  BY <1>2, <1>3, FirstAndLast
<1>6. First(seen) \in all /\ First(seen) \in Nat
  BY <1>2, <1>3, FirstAndLast
<1>7. First(seen) <= First(all) /\ First(all) <= First(seen)
  BY <1>4, <1>5, <1>6
<1>8. First(seen) = First(all)
  BY <1>5, <1>6, <1>7
<1>9. QED
  BY <1>5, <1>8 DEF OpenAt, Opened

\* No start decides to report a session of which a run that names it is on
\* record after its opening.
THEOREM NamedRunsCount == Spec => NamedRunProtects
<1>1. ASSUME TypeOK, ClaimInv, [Next]_vars, NEW s \in Sessions, NEW v \in Sessions,
             bypass'[s] = v, bypass[s] # v,
             NEW i \in Named(journal, v), journal[i].repo = home[s], i > Opened(v)
      PROVE  FALSE
  <2> DEFINE h == History(home[s])
             n == Cut(h, since[s])
  <2>1. v = PreviousBypass(h, n) /\ v # None
    BY <1>1, OnlyDecide, SessionsAssumption
  <2>2. v \in Finished(h, n) /\ ~ Used(h, n, v)
    BY <2>1, WhatIsReported DEF Reportable, Candidates
  <2>3. home[s] \in Repos /\ n \in Nat /\ AtHome
    BY <1>1, CutIsPosition DEF TypeOK, ClaimInv
  <2>4. OpenAt(h, n, v) = Opened(v)
    BY <1>1, <2>2, <2>3, OpeningSeen
  <2>5. i \in Named(h, v)
    BY <1>1, Positions DEF Named
  <2>6. QED
    BY <1>1, <2>2, <2>4, <2>5 DEF Used, UsedGraph
<1>2. TypeOK /\ ClaimInv /\ [Next]_vars =>
        [\A s, v \in Sessions :
           bypass'[s] = v /\ bypass[s] # v =>
              ~\E i \in Named(journal, v) : journal[i].repo = home[s] /\ i > Opened(v)]_vars
  BY <1>1
<1>3. QED
  BY <1>2, InitTyped, StepTyped, ClaimInit, ClaimStep, PTL DEF Spec, NamedRunProtects

-----------------------------------------------------------------------------
(* The hook and the report, where all records are of one repository *)

LEMMA WholeHistory ==
    ASSUME TypeOK, NEW r, Repos = {r}
    PROVE  History(r) = journal
<1>1. journal \in Seq(Entries) /\ \A i \in DOMAIN journal : journal[i].repo = r
  BY Positions DEF TypeOK, Entries
<1>2. {j \in DOMAIN journal : journal[j].repo = r} = DOMAIN journal
  BY <1>1
<1>3. journal = [i \in DOMAIN journal |-> journal[i]]
  BY <1>1
<1>4. QED
  BY <1>2, <1>3 DEF History

\* What finished means to both.
LEMMA FinishedOnRecord ==
    ASSUME TypeOK, NEW r, Repos = {r}, NEW s \in Sessions
    PROVE  /\ Opened(s) \in Nat /\ Ended(s) \in Nat
           /\ s \in Finished(journal, End) <=> Opened(s) > 0 /\ Ended(s) > Opened(s)
           /\ s \in Finished(journal, End) =>
                 /\ s \in Judged /\ RepoOf(s) = r
                 /\ Ended(s) \in DOMAIN journal /\ journal[Ended(s)].session = s
<1> DEFINE opens == At(journal, End, s, {"session_open"})
           ends  == At(journal, End, s, ENDS)
<1>1. opens \in SUBSET DOMAIN journal /\ ends \in SUBSET DOMAIN journal
      /\ Observed(s) \in SUBSET DOMAIN journal
  BY DEF At, Observed
<1>2. Opened(s) \in Nat /\ Ended(s) \in Nat
  BY <1>1, FirstAndLast DEF Opened, Ended, OpenAt, EndAt
<1>3. s \in Finished(journal, End) <=> Opened(s) > 0 /\ Ended(s) > Opened(s)
  BY DEF Finished, Opened, Ended
<1>4. ASSUME s \in Finished(journal, End)
      PROVE  /\ s \in Judged /\ RepoOf(s) = r
             /\ Ended(s) \in DOMAIN journal /\ journal[Ended(s)].session = s
  <2>1. Ended(s) > 0
    BY <1>2, <1>3, <1>4
  <2>2. Ended(s) \in ends
    BY <1>1, <2>1, FirstAndLast DEF Ended, EndAt
  <2>3. ends \subseteq Observed(s)
    BY DEF At, Observed, OWNED_EVENTS, BOUNDARY_EVENTS, ENDS
  <2>4. First(Observed(s)) \in DOMAIN journal
    BY <1>1, <2>2, <2>3, FirstAndLast
  <2>5. RepoOf(s) = r
    BY <2>4, Positions DEF RepoOf, Entries
  <2>6. QED
    BY <2>2, <2>3, <2>5 DEF At, Judged
<1>5. QED
  BY <1>2, <1>3, <1>4

\* A finished session used the graph in both readings or in neither.
LEMMA UsedIsTransitions ==
    ASSUME TypeOK, NEW r, Repos = {r}, NEW s \in Finished(journal, End)
    PROVE  Used(journal, End, s) <=> Transitions(s)
<1>1. s \in Sessions /\ Opened(s) > 0 /\ RepoOf(s) = r
  BY FinishedOnRecord DEF Finished
<1>2. \A i \in Named(journal, None) : journal[i].repo = r
  BY Positions DEF Named, Entries
<1>3. QED
  BY <1>1, <1>2 DEF Used, UsedGraph, Transitions, Opened, Ended

\* Whom the hook would report, the report counts as a bypass.
THEOREM HookAndReportAgree ==
    ASSUME NEW r, Repos = {r}
    PROVE  Spec => []HookAgreesWithReport
<1>1. ASSUME TypeOK, NEW q \in Repos, HookWouldReport(q) # None
      PROVE  Judge(HookWouldReport(q)) = "bypass"
  <2>1. PICK b : b = PreviousBypass(journal, End) /\ b = HookWouldReport(q)
    BY <1>1, WholeHistory DEF HookWouldReport
  <2>2. b \in Sessions /\ Reportable(journal, End, b)
    BY <1>1, <2>1, WhatIsReported
  <2>3. /\ b \in Finished(journal, End) /\ ~ Used(journal, End, b)
        /\ Edits(journal, End, b) # {}
    BY <2>2 DEF Reportable, Candidates, WorthReporting
  <2>4. Opened(b) > 0 /\ Ended(b) > 0 /\ Opened(b) # 0 /\ Ended(b) # 0
    BY <1>1, <2>2, <2>3, FinishedOnRecord
  <2>5. ~ Transitions(b)
    BY <1>1, <2>3, UsedIsTransitions
  <2>6. Judge(b) = "bypass"
    BY <2>3, <2>4, <2>5 DEF Judge
  <2>7. QED
    BY <2>1, <2>6
<1>2. TypeOK => HookAgreesWithReport
  BY <1>1 DEF HookAgreesWithReport
<1>3. QED
  BY <1>2, InitTyped, StepTyped, PTL DEF Spec

\* Of finished sessions no two end at one position, and there are finitely many.
LEMMA FiniteNewer ==
    ASSUME TypeOK, NEW r, Repos = {r}, NEW s \in Sessions
    PROVE  IsFiniteSet(Newer(journal, End, s)) /\ Cardinality(Newer(journal, End, s)) \in Nat
<1> DEFINE N == Newer(journal, End, s)
           T == 1..Len(journal)
           f == [t \in N |-> Ended(t)]
<1>1. ASSUME NEW t \in N
      PROVE  t \in Sessions /\ Ended(t) \in T /\ journal[Ended(t)].session = t
  <2>1. t \in Finished(journal, End) /\ t \in Sessions
    BY DEF Newer, Finished
  <2>2. QED
    BY <2>1, FinishedOnRecord, Positions
<1>2. f \in Injection(N, T)
  <2>1. f \in [N -> T]
    BY <1>1
  <2>2. ASSUME NEW t \in N, NEW u \in N, f[t] = f[u] PROVE t = u
    BY <1>1, <2>2
  <2> HIDE DEF f, N, T
  <2>3. QED
    BY <2>1, <2>2 DEF Injection, IsInjective
<1>3. IsFiniteSet(T)
  BY Positions, FS_Interval
<1>4. QED
  BY <1>2, <1>3, FS_Injection, FS_CardinalityType

\* Sessions that ended after s, to both.
LEMMA NewerOnRecord ==
    ASSUME TypeOK, NEW r, Repos = {r}, NEW s \in Finished(journal, End)
    PROVE  EndedLater(s) = Newer(journal, End, s)
<1>1. s \in Sessions /\ RepoOf(s) = r
  BY FinishedOnRecord DEF Finished
<1>2. \A t \in Sessions : RepoOf(t) = r \/ t \notin Judged
  <2>1. SUFFICES ASSUME NEW t \in Sessions, t \in Judged PROVE RepoOf(t) = r
    OBVIOUS
  <2>2. Observed(t) \in SUBSET DOMAIN journal /\ Observed(t) # {}
    BY <2>1 DEF Judged, Observed, At
  <2>3. First(Observed(t)) \in DOMAIN journal
    BY <2>2, FirstAndLast
  <2>4. QED
    BY <2>3, Positions DEF RepoOf, Entries
<1>3. ASSUME NEW t \in EndedLater(s) PROVE t \in Newer(journal, End, s)
  <2>1. t \in Sessions /\ Opened(t) > 0 /\ Ended(t) > Opened(t) /\ Ended(t) > Ended(s)
    BY DEF EndedLater, EndsAfterOpening, Judged
  <2>2. QED
    BY <2>1, FinishedOnRecord DEF Newer, Ended
<1>4. ASSUME NEW t \in Newer(journal, End, s) PROVE t \in EndedLater(s)
  <2>1. t \in Finished(journal, End) /\ t \in Sessions /\ Ended(t) > Ended(s)
    BY DEF Newer, Finished, Ended
  <2>2. t \in Judged /\ Opened(t) > 0 /\ Ended(t) > Opened(t)
    BY <2>1, FinishedOnRecord
  <2>3. QED
    BY <1>1, <1>2, <2>1, <2>2 DEF EndedLater, EndsAfterOpening
<1>5. QED
  BY <1>3, <1>4

\* Of some finished sessions there is one that ended last.
LEMMA LastToEnd ==
    ASSUME TypeOK, NEW r, Repos = {r}, NEW S \in SUBSET Finished(journal, End), S # {}
    PROVE  \E t \in S : \A u \in S : Ended(u) <= Ended(t)
<1> DEFINE P == {i \in DOMAIN journal : \E t \in S : Ended(t) = i}
<1>1. \A t \in S : t \in Sessions /\ Ended(t) \in P
  BY FinishedOnRecord DEF Finished
<1>2. P \in SUBSET DOMAIN journal /\ P # {}
  BY <1>1
<1> HIDE DEF P
<1>3. Last1(P) \in P /\ \A j \in P : j <= Last1(P)
  BY <1>2, FirstAndLast
<1>4. PICK t \in S : Ended(t) = Last1(P)
  BY <1>3 DEF P
<1>5. QED
  BY <1>1, <1>3, <1>4

\* Whoever is reportable, with nothing newer that is or that used the graph,
\* is reported: there is only one such session.
LEMMA NewestIsReported ==
    ASSUME TypeOK, NEW r, Repos = {r}, NEW b \in Sessions, Reportable(journal, End, b),
           \A t \in Newer(journal, End, b) : ~ Used(journal, End, t) /\ ~ Reportable(journal, End, t)
    PROVE  PreviousBypass(journal, End) = b
<1> DEFINE found == {s \in Sessions :
                       /\ Reportable(journal, End, s)
                       /\ \A t \in Newer(journal, End, s) :
                             ~ Used(journal, End, t) /\ ~ Reportable(journal, End, t)}
<1>1. b \in found
  OBVIOUS
<1>2. ASSUME NEW u \in found PROVE u = b
  <2>1. /\ u \in Finished(journal, End) /\ b \in Finished(journal, End)
        /\ u \in Sessions
    BY DEF Reportable, Candidates
  <2>2. /\ Ended(u) \in Nat /\ Ended(b) \in Nat
        /\ journal[Ended(u)].session = u /\ journal[Ended(b)].session = b
    BY <2>1, FinishedOnRecord
  <2>3. ~ (Ended(u) > Ended(b)) /\ ~ (Ended(b) > Ended(u))
    BY <2>1 DEF Newer, Ended
  <2>4. Ended(u) = Ended(b)
    BY <2>2, <2>3
  <2>5. QED
    BY <2>2, <2>4
<1>3. found = {b}
  BY <1>1, <1>2
<1>4. PreviousBypass(journal, End) = IF found = {} THEN None ELSE CHOOSE s \in found : TRUE
  BY DEF PreviousBypass
<1> HIDE DEF found
<1>5. QED
  BY <1>3, <1>4

\* No bypass on record is buried by sessions that are not worth a report.
THEOREM NoBypassIsBuried ==
    ASSUME NEW r, Repos = {r}
    PROVE  Spec => []NothingBuried
<1>1. ASSUME TypeOK, NEW s \in Judged, Judge(s) = "bypass", EndsAfterOpening(s),
             WorthReporting(journal, End, s), s \notin Reported(journal),
             ~ (Cardinality(EndedLater(s)) >= MAX_CANDIDATES)
      PROVE  \/ HookWouldReport(RepoOf(s)) = s
             \/ \E t \in EndedLater(s) : Transitions(t) \/ HookWouldReport(RepoOf(s)) = t
  <2>1. s \in Sessions /\ s \in Finished(journal, End) /\ RepoOf(s) = r
    BY <1>1, FinishedOnRecord DEF Judged, EndsAfterOpening
  <2>2. EndedLater(s) = Newer(journal, End, s) /\ HookWouldReport(r) = PreviousBypass(journal, End)
    BY <1>1, <2>1, NewerOnRecord, WholeHistory DEF HookWouldReport
  <2>3. Cardinality(Newer(journal, End, s)) < MAX_CANDIDATES
    <3>1. Cardinality(Newer(journal, End, s)) \in Nat
      BY <1>1, <2>1, FiniteNewer
    <3>2. QED
      BY <1>1, <2>2, <3>1, SessionsAssumption
  <2>4. ~ Transitions(s)
    <3>1. Opened(s) > 0 /\ Ended(s) > 0 /\ Opened(s) # 0 /\ Ended(s) # 0
      BY <1>1, <2>1, FinishedOnRecord
    <3>2. QED
      BY <1>1, <3>1 DEF Judge
  <2>5. ~ Used(journal, End, s)
    BY <1>1, <2>1, <2>4, UsedIsTransitions
  <2>6. Reportable(journal, End, s)
    BY <1>1, <2>1, <2>3, <2>5 DEF Reportable, Candidates
  <2> DEFINE S == {t \in Finished(journal, End) :
                     /\ t = s \/ t \in Newer(journal, End, s)
                     /\ Used(journal, End, t) \/ Reportable(journal, End, t)}
  <2>7. S \in SUBSET Finished(journal, End) /\ S # {}
    BY <2>1, <2>6
  <2>8. PICK t \in S : \A u \in S : Ended(u) <= Ended(t)
    <3> HIDE DEF S
    <3> QED BY <1>1, <2>7, LastToEnd
  <2>9. t = s \/ t \in EndedLater(s)
    BY <2>2
  <2>10. CASE Used(journal, End, t)
    BY <1>1, <2>5, <2>9, <2>10, UsedIsTransitions
  <2>11. CASE ~ Used(journal, End, t)
    <3>1. Reportable(journal, End, t) /\ t \in Sessions /\ t \in Finished(journal, End)
      BY <2>11 DEF Finished
    <3>2. ASSUME NEW u \in Newer(journal, End, t)
          PROVE  ~ Used(journal, End, u) /\ ~ Reportable(journal, End, u)
      <4>1. u \in Finished(journal, End) /\ u \in Sessions /\ Ended(u) > Ended(t)
        BY DEF Newer, Finished, Ended
      <4>2. Ended(u) \in Nat /\ Ended(t) \in Nat /\ Ended(s) \in Nat
        BY <1>1, <2>1, <3>1, <4>1, FinishedOnRecord
      <4>3. t = s \/ Ended(t) > Ended(s)
        BY DEF Newer, Ended
      <4>4. u \in Newer(journal, End, s)
        BY <4>1, <4>2, <4>3 DEF Newer, Ended
      <4>5. u \notin S
        BY <2>8, <4>1, <4>2
      <4>6. QED
        BY <4>1, <4>4, <4>5
    <3>3. PreviousBypass(journal, End) = t
      BY <1>1, <3>1, <3>2, NewestIsReported
    <3>4. QED
      BY <2>1, <2>2, <2>9, <3>3
  <2>12. QED
    BY <2>10, <2>11
<1>2. TypeOK => NothingBuried
  BY <1>1 DEF NothingBuried
<1>3. QED
  BY <1>2, InitTyped, StepTyped, PTL DEF Spec

=============================================================================

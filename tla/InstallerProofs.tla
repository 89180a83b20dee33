--------------------------- MODULE InstallerProofs ---------------------------
(***************************************************************************)
(* Theorems about the installer, for any number of runtimes, versions,     *)
(* interrupted runs and steps of other people, on both platforms.          *)
(***************************************************************************)
EXTENDS Installer, TLAPS

-----------------------------------------------------------------------------
(* Where each step is *)

PayloadAt == [skills |-> 2, codex_agent |-> 3, claude_agent |-> 4]
BlockAt   == [codex_md |-> 6, claude_md |-> 7]
HooksAt   == [claude_hooks |-> 8, codex_hooks |-> 9]
PlaceAt   == [skills |-> 10, codex_agent |-> 11, claude_agent |-> 12, commands |-> 13]
RemoveAt  == [skills |-> 1, codex_agent |-> 2, claude_agent |-> 3, commands |-> 4]
StripAt   == [codex_md |-> 5, claude_md |-> 6]
UnhookAt  == [claude_hooks |-> 7, codex_hooks |-> 8]

\* A command is at one of its steps.
Located ==
    \/ command = "none" /\ at = 0
    \/ command = "install" /\ at \in 1..14 /\ runtime \in Runtimes
    \/ command = "uninstall" /\ at \in 1..8

LEMMA InstallStepAt ==
    ASSUME Located, Installing, NEW k, NEW x, Doing(k, x)
    PROVE  <<at, k, x>> \in
             {<<1, "plan", "documents">>, <<2, "payload", "skills">>,
              <<3, "payload", "codex_agent">>, <<4, "payload", "claude_agent">>,
              <<5, "compare", "documents">>, <<6, "instructions", "codex_md">>,
              <<7, "instructions", "claude_md">>, <<8, "hooks", "claude_hooks">>,
              <<9, "hooks", "codex_hooks">>, <<10, "place", "skills">>,
              <<11, "place", "codex_agent">>, <<12, "place", "claude_agent">>,
              <<13, "place", "commands">>, <<14, "receipt", "manifest">>}
<1>1. command = "install" /\ at \in 1..14
  BY DEF Located, Installing
<1>2. INSTALL[at] = <<k, x>>
  BY <1>1 DEF Doing, STEPS
<1>3. QED
  BY <1>1, <1>2 DEF INSTALL

LEMMA UninstallStepAt ==
    ASSUME Located, command = "uninstall", NEW k, NEW x, Doing(k, x)
    PROVE  <<at, k, x>> \in
             {<<1, "remove", "skills">>, <<2, "remove", "codex_agent">>,
              <<3, "remove", "claude_agent">>, <<4, "remove", "commands">>,
              <<5, "strip", "codex_md">>, <<6, "strip", "claude_md">>,
              <<7, "unhook", "claude_hooks">>, <<8, "unhook", "codex_hooks">>}
<1>1. at \in 1..8 /\ UNINSTALL[at] = <<k, x>>
  BY DEF Located, Doing, STEPS
<1>2. QED
  BY <1>1 DEF UNINSTALL

LEMMA Where ==
    ASSUME Located
    PROVE  /\ Doing("plan", "documents") => Installing /\ at = 1
           /\ \A a \in ASSETS : Doing("payload", a) => Installing /\ at = PayloadAt[a]
           /\ Doing("compare", "documents") => Installing /\ at = 5
           /\ \A f \in INSTRUCTION_FILES :
                Doing("instructions", f) => Installing /\ at = BlockAt[f]
           /\ \A f \in HOOK_FILES : Doing("hooks", f) => Installing /\ at = HooksAt[f]
           /\ \A t \in TARGETS : Doing("place", t) => Installing /\ at = PlaceAt[t]
           /\ Doing("receipt", "manifest") => Installing /\ at = 14
           /\ \A t \in TARGETS : Doing("remove", t) => command = "uninstall" /\ at = RemoveAt[t]
           /\ \A f \in INSTRUCTION_FILES :
                Doing("strip", f) => command = "uninstall" /\ at = StripAt[f]
           /\ \A f \in HOOK_FILES : Doing("unhook", f) => command = "uninstall" /\ at = UnhookAt[f]
<1> USE DEF PayloadAt, BlockAt, HooksAt, PlaceAt, RemoveAt, StripAt, UnhookAt
<1> USE DEF ASSETS, COPIES, TARGETS, INSTRUCTION_FILES, HOOK_FILES
<1>1. CASE command = "none"
  BY <1>1 DEF Doing, Idle
<1>2. CASE command = "install"
  <2>1. Installing /\ command # "uninstall"
    BY <1>2 DEF Installing
  <2>2. ASSUME NEW k, NEW x, Doing(k, x)
        PROVE  <<at, k, x>> \in
             {<<1, "plan", "documents">>, <<2, "payload", "skills">>,
              <<3, "payload", "codex_agent">>, <<4, "payload", "claude_agent">>,
              <<5, "compare", "documents">>, <<6, "instructions", "codex_md">>,
              <<7, "instructions", "claude_md">>, <<8, "hooks", "claude_hooks">>,
              <<9, "hooks", "codex_hooks">>, <<10, "place", "skills">>,
              <<11, "place", "codex_agent">>, <<12, "place", "claude_agent">>,
              <<13, "place", "commands">>, <<14, "receipt", "manifest">>}
    BY <2>1, <2>2, InstallStepAt
  <2>3. Doing("plan", "documents") => at = 1
    BY <2>2
  <2>4. \A a \in ASSETS : Doing("payload", a) => at = PayloadAt[a]
    BY <2>2
  <2>5. Doing("compare", "documents") => at = 5
    BY <2>2
  <2>6. \A f \in INSTRUCTION_FILES : Doing("instructions", f) => at = BlockAt[f]
    BY <2>2
  <2>7. \A f \in HOOK_FILES : Doing("hooks", f) => at = HooksAt[f]
    BY <2>2
  <2>8. \A t \in TARGETS : Doing("place", t) => at = PlaceAt[t]
    BY <2>2
  <2>9. Doing("receipt", "manifest") => at = 14
    BY <2>2
  <2>10. \A x : ~Doing("remove", x) /\ ~Doing("strip", x) /\ ~Doing("unhook", x)
    BY <2>2
  <2>11. QED
    BY <2>1, <2>3, <2>4, <2>5, <2>6, <2>7, <2>8, <2>9, <2>10
<1>3. CASE command = "uninstall"
  <2>1. ASSUME NEW k, NEW x, Doing(k, x)
        PROVE  <<at, k, x>> \in
             {<<1, "remove", "skills">>, <<2, "remove", "codex_agent">>,
              <<3, "remove", "claude_agent">>, <<4, "remove", "commands">>,
              <<5, "strip", "codex_md">>, <<6, "strip", "claude_md">>,
              <<7, "unhook", "claude_hooks">>, <<8, "unhook", "codex_hooks">>}
    BY <1>3, <2>1, UninstallStepAt
  <2>2. \A t \in TARGETS : Doing("remove", t) => at = RemoveAt[t]
    BY <2>1
  <2>3. \A f \in INSTRUCTION_FILES : Doing("strip", f) => at = StripAt[f]
    BY <2>1
  <2>4. \A f \in HOOK_FILES : Doing("unhook", f) => at = UnhookAt[f]
    BY <2>1
  <2>5. \A x : /\ ~Doing("plan", x) /\ ~Doing("payload", x) /\ ~Doing("compare", x)
               /\ ~Doing("instructions", x) /\ ~Doing("hooks", x) /\ ~Doing("place", x)
               /\ ~Doing("receipt", x)
    BY <2>1
  <2>6. QED
    BY <1>3, <2>2, <2>3, <2>4, <2>5
<1>4. QED
  BY <1>1, <1>2, <1>3 DEF Located

\* A step of a run either goes on to the next or is the last.
LEMMA Advances ==
    ASSUME Located, ~Idle, Advance
    PROVE  \/ /\ at' = at + 1
              /\ UNCHANGED <<windows, checkout, command, runtime, wanted, changed, touched>>
              /\ (command = "install" /\ at < 14) \/ (command = "uninstall" /\ at < 8)
           \/ Stop /\ ((command = "install" /\ at = 14) \/ (command = "uninstall" /\ at = 8))
<1>1. CASE command = "install"
  <2>1. Len(STEPS[command]) = 14
    BY <1>1 DEF STEPS, INSTALL
  <2>2. at \in 1..14
    BY <1>1 DEF Located
  <2>3. CASE at < 14
    BY <1>1, <2>1, <2>2, <2>3 DEF Advance
  <2>4. CASE at = 14
    BY <1>1, <2>1, <2>2, <2>4 DEF Advance
  <2>5. QED
    BY <2>2, <2>3, <2>4
<1>2. CASE command = "uninstall"
  <2>1. Len(STEPS[command]) = 8
    BY <1>2 DEF STEPS, UNINSTALL
  <2>2. at \in 1..8
    BY <1>2 DEF Located
  <2>3. CASE at < 8
    BY <1>2, <2>1, <2>3 DEF Advance
  <2>4. CASE at = 8
    BY <1>2, <2>1, <2>4 DEF Advance
  <2>5. QED
    BY <2>2, <2>3, <2>4
<1>3. QED
  BY <1>1, <1>2 DEF Located, Idle

-----------------------------------------------------------------------------
(* Types *)

OneEach(document) == \A d, e \in document : d.owner = e.owner /\ d.owner # Other => d = e

TypeInv == TypeOK /\ \A f \in HOOK_FILES : OneEach(wanted[f])

LEMMA SourceTyped ==
    ASSUME TypeOK, NEW t \in TARGETS, NEW r \in {None} \cup Runtimes
    PROVE  Source(t, r) \in Contents \ {Foreign}
<1>1. CASE t = "commands"
  <2>1. build \in Nat
    BY InstallerAssumption DEF TypeOK
  <2>2. Foreign \notin Nat /\ r # Foreign
    BY InstallerAssumption
  <2>3. Source(t, r) = build \/ Source(t, r) = r
    BY <1>1 DEF Source, COPIES
  <2>4. QED
    BY <2>1, <2>2, <2>3 DEF Contents
<1>2. CASE t # "commands"
  <2>1. t \in ASSETS /\ payload[t] \in {None} \cup 1..VERSIONS
    BY <1>2 DEF TARGETS, TypeOK
  <2>2. payload[t] \in Contents \ {Foreign} /\ Payload \in Contents \ {Foreign}
    BY <2>1, InstallerAssumption DEF Contents
  <2>3. Source(t, r) = payload[t] \/ Source(t, r) = Payload
    BY <1>2, <2>1 DEF Source, ASSETS, COPIES, TypeOK
  <2>4. QED
    BY <2>2, <2>3
<1>3. QED
  BY <1>1, <1>2

\* A document as it is planned.
LEMMA WithTyped ==
    ASSUME NEW m \in {None} \cup Runtimes, manifest = m, NEW r \in Runtimes,
           NEW d \in SUBSET [owner : {Other} \cup Runtimes, edited : BOOLEAN], OneEach(d)
    PROVE  /\ With(d, r) \in SUBSET [owner : {Other} \cup Runtimes, edited : BOOLEAN]
           /\ OneEach(With(d, r))
           /\ {e \in With(d, r) : e.owner = r} = {Entry(r, FALSE)}
           /\ {e \in d : e.owner = Other} \subseteq With(d, r)
           /\ \A e \in With(d, r) : e.owner = r \/ (e \in d /\ e.owner # m)
<1>1. Other # r /\ Other # m
  BY InstallerAssumption
<1>2. Entry(r, FALSE) \in [owner : {Other} \cup Runtimes, edited : BOOLEAN] /\ Entry(r, FALSE).owner = r
  BY DEF Entry
<1>3. With(d, r) = {e \in d : e.owner # m /\ e.owner # r} \cup {Entry(r, FALSE)}
  BY DEF With, Without, Managed
<1> HIDE DEF Entry
<1>4. With(d, r) \in SUBSET [owner : {Other} \cup Runtimes, edited : BOOLEAN]
  BY <1>2, <1>3
<1>5. OneEach(With(d, r))
  BY <1>2, <1>3 DEF OneEach
<1>6. {e \in With(d, r) : e.owner = r} = {Entry(r, FALSE)}
  BY <1>2, <1>3
<1>7. {e \in d : e.owner = Other} \subseteq With(d, r)
  BY <1>1, <1>3
<1>8. \A e \in With(d, r) : e.owner = r \/ (e \in d /\ e.owner # m)
  BY <1>2, <1>3
<1>9. QED
  BY <1>4, <1>5, <1>6, <1>7, <1>8

LEMMA StopTyped ==
    ASSUME TypeInv, Stop
    PROVE  /\ windows' \in BOOLEAN /\ checkout' \in 1..VERSIONS
           /\ runtime' \in {None} \cup Runtimes /\ wanted' \in Documents
           /\ Located' /\ changed' \subseteq HOOK_FILES /\ touched' \subseteq TARGETS \cup HOOK_FILES
           /\ \A f \in HOOK_FILES : OneEach(wanted'[f])
BY DEF TypeInv, TypeOK, Stop, Located, Documents, NoDocuments, OneEach

LEMMA AdvanceTyped ==
    ASSUME TypeInv, ~Idle, Advance
    PROVE  /\ windows' \in BOOLEAN /\ checkout' \in 1..VERSIONS
           /\ runtime' \in {None} \cup Runtimes /\ wanted' \in Documents
           /\ Located' /\ changed' \subseteq HOOK_FILES /\ touched' \subseteq TARGETS \cup HOOK_FILES
           /\ \A f \in HOOK_FILES : OneEach(wanted'[f])
<1>1. CASE Stop
  BY <1>1, StopTyped
<1>2. CASE /\ at' = at + 1
           /\ UNCHANGED <<windows, checkout, command, runtime, wanted, changed, touched>>
           /\ (command = "install" /\ at < 14) \/ (command = "uninstall" /\ at < 8)
  <2>1. Located'
    BY <1>2 DEF TypeInv, TypeOK, Located
  <2>2. QED
    BY <1>2, <2>1 DEF TypeInv, TypeOK, OneEach
<1>3. Located
  BY DEF TypeInv, TypeOK, Located
<1>4. QED
  BY <1>1, <1>2, <1>3, Advances

\* What a person does to the entries of a hook file.
LEMMA TouchedDocument ==
    ASSUME NEW d \in SUBSET [owner : {Other} \cup Runtimes, edited : BOOLEAN], OneEach(d), NEW c,
           \/ c = d \cup {Entry(Other, FALSE)}
           \/ \E e \in d : c = (d \ {e}) \cup {Entry(e.owner, TRUE)}
    PROVE  /\ c \in SUBSET [owner : {Other} \cup Runtimes, edited : BOOLEAN]
           /\ OneEach(c)
           /\ \A e \in c : e.owner = Other \/ \E b \in d : b.owner = e.owner
<1>1. CASE c = d \cup {Entry(Other, FALSE)}
  <2>1. /\ Entry(Other, FALSE) \in [owner : {Other} \cup Runtimes, edited : BOOLEAN]
        /\ Entry(Other, FALSE).owner = Other
    BY DEF Entry
  <2>2. QED
    BY <1>1, <2>1 DEF OneEach
<1>2. ASSUME NEW e \in d, c = (d \ {e}) \cup {Entry(e.owner, TRUE)}
      PROVE  /\ c \in SUBSET [owner : {Other} \cup Runtimes, edited : BOOLEAN]
             /\ OneEach(c)
             /\ \A g \in c : g.owner = Other \/ \E b \in d : b.owner = g.owner
  <2>1. /\ Entry(e.owner, TRUE) \in [owner : {Other} \cup Runtimes, edited : BOOLEAN]
        /\ Entry(e.owner, TRUE).owner = e.owner
    BY DEF Entry
  <2> DEFINE n == Entry(e.owner, TRUE)
  <2> HIDE DEF n
  <2>2. c = (d \ {e}) \cup {n} /\ n \in [owner : {Other} \cup Runtimes, edited : BOOLEAN] /\ n.owner = e.owner
    BY <1>2, <2>1 DEF n
  <2>3. OneEach(c)
    BY <2>2 DEF OneEach
  <2>4. QED
    BY <2>2, <2>3
<1>3. QED
  BY <1>1, <1>2

LEMMA TouchedEntries ==
    ASSUME TypeInv, NEW f \in HOOK_FILES, TouchHooks(f), NEW g \in HOOK_FILES, NEW e \in hooks'[g]
    PROVE  e.owner = Other \/ \E b \in hooks[g] : b.owner = e.owner
<1>0. hooks \in Documents
  BY DEF TypeInv, TypeOK
<1>1. CASE g # f
  <2>1. hooks'[g] = hooks[g]
    BY <1>0, <1>1 DEF TouchHooks, Documents
  <2>2. QED
    BY <2>1
<1>2. CASE g = f
  <2> DEFINE d == hooks[f]
             c == hooks'[f]
  <2>1. \/ c = d \cup {Entry(Other, FALSE)}
        \/ \E b \in d : c = (d \ {b}) \cup {Entry(b.owner, TRUE)}
    BY <1>0 DEF TouchHooks, Documents
  <2>2. d \in SUBSET [owner : {Other} \cup Runtimes, edited : BOOLEAN] /\ OneEach(d)
    BY <1>0 DEF Documents, TypeInv, TypeOK, OneEach
  <2> HIDE DEF c, d
  <2>3. \A x \in c : x.owner = Other \/ \E b \in d : b.owner = x.owner
    BY <2>1, <2>2, TouchedDocument
  <2>4. QED
    BY <1>2, <2>3 DEF c, d
<1>3. QED
  BY <1>1, <1>2

LEMMA InitTyped == Init => TypeInv
BY InstallerAssumption DEF Init, TypeInv, TypeOK, Documents, NoDocuments, OneEach, Contents

\* Only an install that begins may write executables.
LEMMA BuildStays ==
    ASSUME [Next]_vars
    PROVE  UNCHANGED build \/ \E r \in Runtimes : BeginInstall(r)
<1>1. (Plan \/ Refuse \/ Compare \/ WriteReceipt \/ BeginUninstall) => UNCHANGED build
  BY DEF Plan, Refuse, Compare, WriteReceipt, BeginUninstall
<1>2. (Crash \/ UpdateCheckout) => UNCHANGED build
  BY DEF Crash, UpdateCheckout
<1>3. \A a \in ASSETS : UpdatePayload(a) => UNCHANGED build
  BY DEF UpdatePayload
<1>4. \A f \in INSTRUCTION_FILES : WriteInstructions(f) \/ Strip(f) => UNCHANGED build
  BY DEF WriteInstructions, Strip
<1>5. \A f \in HOOK_FILES : WriteHooks(f) \/ Unhook(f) \/ TouchHooks(f) => UNCHANGED build
  BY DEF WriteHooks, Unhook, TouchHooks, Touch
<1>6. \A t \in TARGETS : Place(t) \/ Remove(t) \/ TouchTarget(t) => UNCHANGED build
  BY DEF Place, Remove, TouchTarget, Touch
<1>7. UNCHANGED vars => UNCHANGED build
  BY DEF vars
<1>8. QED
  BY <1>1, <1>2, <1>3, <1>4, <1>5, <1>6, <1>7 DEF Next

LEMMA StepTyped == TypeInv /\ [Next]_vars => TypeInv'
<1> SUFFICES ASSUME TypeInv, [Next]_vars PROVE TypeInv'
  OBVIOUS
<1> USE InstallerAssumption
<1>0. TypeOK /\ Located /\ \A f \in HOOK_FILES : OneEach(hooks[f]) /\ OneEach(wanted[f])
  BY DEF TypeInv, TypeOK, Located, OneEach
<1> DEFINE RunTyped ==
      /\ windows \in BOOLEAN /\ checkout \in 1..VERSIONS
      /\ runtime \in {None} \cup Runtimes /\ wanted \in Documents
      /\ Located /\ changed \subseteq HOOK_FILES /\ touched \subseteq TARGETS \cup HOOK_FILES
      /\ \A f \in HOOK_FILES : OneEach(wanted[f])
    FilesTyped ==
      /\ payload \in [ASSETS -> {None} \cup 1..VERSIONS]
      /\ target \in [TARGETS -> Contents]
      /\ block \in [INSTRUCTION_FILES -> {None} \cup (Runtimes \X (1..VERSIONS))]
      /\ hooks \in Documents /\ \A f \in HOOK_FILES : OneEach(hooks[f])
      /\ manifest \in {None} \cup Runtimes
    CountedTyped == interrupted \subseteq Runtimes /\ crashes \in 0..CRASHES /\ edits \in 0..EDITS
<1>a. RunTyped /\ FilesTyped /\ CountedTyped
  BY <1>0 DEF TypeInv, TypeOK
<1>h. build' \in 0..BUILDS
  <2>1. build \in 0..BUILDS
    BY <1>0 DEF TypeOK
  <2>2. ASSUME NEW r \in Runtimes, BeginInstall(r) PROVE build' \in 0..BUILDS
    BY <2>1, <2>2 DEF BeginInstall, CreateRuntime
  <2>3. QED
    BY <2>1, <2>2, BuildStays
<1>b. RunTyped' /\ FilesTyped' /\ CountedTyped' => TypeInv'
  BY <1>h DEF TypeInv, TypeOK, Located, OneEach
<1>c. Stop => RunTyped'
  BY StopTyped
<1>d. ~Idle /\ Advance => RunTyped'
  BY AdvanceTyped
<1>e. UNCHANGED installed => FilesTyped'
  BY <1>a DEF installed, OneEach
<1>f. UNCHANGED counted => CountedTyped'
  BY <1>a DEF counted
<1>g. \A k, x : Doing(k, x) => ~Idle
  BY DEF Doing
<1>1. ASSUME NEW r \in Runtimes, BeginInstall(r) PROVE TypeInv'
  <2>1. RunTyped'
    BY <1>1, <1>a DEF BeginInstall, Begin, Located, OneEach
  <2>2. QED
    BY <1>1, <1>b, <1>e, <1>f, <2>1 DEF BeginInstall, Begin
<1>2. CASE BeginUninstall
  <2>1. RunTyped'
    BY <1>2, <1>a DEF BeginUninstall, Begin, Located, OneEach
  <2>2. QED
    BY <1>2, <1>b, <1>e, <1>f, <2>1 DEF BeginUninstall, Begin
<1>3. CASE Plan
  <2>1. at = 1 /\ command = "install" /\ runtime \in Runtimes
    BY <1>3, <1>0, Where DEF Plan, Installing, Located
  <2>2. ASSUME NEW f \in HOOK_FILES
        PROVE  /\ With(hooks[f], runtime) \in SUBSET [owner : {Other} \cup Runtimes, edited : BOOLEAN]
               /\ OneEach(With(hooks[f], runtime))
    <3>1. hooks[f] \in SUBSET [owner : {Other} \cup Runtimes, edited : BOOLEAN] /\ OneEach(hooks[f])
      BY <1>a DEF Documents
    <3>2. QED
      BY <1>a, <2>1, <3>1, WithTyped
  <2>3. wanted' \in Documents /\ \A f \in HOOK_FILES : wanted'[f] = With(hooks[f], runtime)
    BY <1>3, <2>2 DEF Plan, Documents
  <2>4. Located'
    BY <1>3, <2>1 DEF Plan, Located
  <2>5. RunTyped'
    BY <1>3, <1>a, <2>2, <2>3, <2>4 DEF Plan, OneEach
  <2>6. QED
    BY <1>3, <1>b, <1>e, <1>f, <2>5 DEF Plan
<1>4. CASE Refuse
  BY <1>4, <1>b, <1>c, <1>e, <1>f DEF Refuse
<1>5. ASSUME NEW a \in ASSETS, UpdatePayload(a) PROVE TypeInv'
  <2>1. payload' \in [ASSETS -> {None} \cup 1..VERSIONS]
    BY <1>5, <1>a DEF UpdatePayload
  <2>2. FilesTyped'
    BY <1>5, <1>a, <2>1 DEF UpdatePayload, OneEach
  <2>3. QED
    BY <1>5, <1>b, <1>d, <1>f, <1>g, <2>2 DEF UpdatePayload
<1>6. CASE Compare
  <2>1. Located'
    BY <1>6, <1>0, Where DEF Compare, Located, Installing
  <2>2. RunTyped'
    BY <1>6, <1>a, <2>1 DEF Compare, OneEach
  <2>3. QED
    BY <1>6, <1>b, <1>e, <1>f, <2>2 DEF Compare
<1>7. ASSUME NEW f \in INSTRUCTION_FILES, WriteInstructions(f) PROVE TypeInv'
  <2>1. runtime \in Runtimes /\ checkout \in 1..VERSIONS
    BY <1>7, <1>0, <1>a, Where DEF WriteInstructions, Located, Installing
  <2>2. block' \in [INSTRUCTION_FILES -> {None} \cup (Runtimes \X (1..VERSIONS))]
    BY <1>7, <1>a, <2>1 DEF WriteInstructions
  <2>3. FilesTyped'
    BY <1>7, <1>a, <2>2 DEF WriteInstructions, OneEach
  <2>4. QED
    BY <1>7, <1>b, <1>d, <1>f, <1>g, <2>3 DEF WriteInstructions
<1>8. ASSUME NEW f \in HOOK_FILES, WriteHooks(f) PROVE TypeInv'
  <2>1. hooks' \in Documents /\ \A g \in HOOK_FILES : hooks'[g] = hooks[g] \/ hooks'[g] = wanted[g]
    BY <1>8, <1>a DEF WriteHooks, Documents
  <2>2. FilesTyped'
    BY <1>8, <1>a, <2>1 DEF WriteHooks, OneEach
  <2>3. QED
    BY <1>8, <1>b, <1>d, <1>f, <1>g, <2>2 DEF WriteHooks
<1>9. ASSUME NEW t \in TARGETS, Place(t) PROVE TypeInv'
  <2>1. Source(t, runtime) \in Contents
    BY <1>0, <1>a, SourceTyped
  <2>2. target' \in [TARGETS -> Contents]
    BY <1>9, <1>a, <2>1 DEF Place
  <2>3. FilesTyped'
    BY <1>9, <1>a, <2>2 DEF Place, OneEach
  <2>4. QED
    BY <1>9, <1>b, <1>d, <1>f, <1>g, <2>3 DEF Place
<1>10. CASE WriteReceipt
  <2>1. FilesTyped' /\ CountedTyped'
    BY <1>10, <1>a DEF WriteReceipt, OneEach
  <2>2. QED
    BY <1>10, <1>b, <1>d, <1>g, <2>1 DEF WriteReceipt
<1>11. ASSUME NEW t \in TARGETS, Remove(t) PROVE TypeInv'
  <2>1. target' \in [TARGETS -> Contents]
    BY <1>11, <1>a DEF Remove, Contents
  <2>2. FilesTyped'
    BY <1>11, <1>a, <2>1 DEF Remove, OneEach
  <2>3. QED
    BY <1>11, <1>b, <1>d, <1>f, <1>g, <2>2 DEF Remove
<1>12. ASSUME NEW f \in INSTRUCTION_FILES, Strip(f) PROVE TypeInv'
  <2>1. block' \in [INSTRUCTION_FILES -> {None} \cup (Runtimes \X (1..VERSIONS))]
    BY <1>12, <1>a DEF Strip
  <2>2. FilesTyped'
    BY <1>12, <1>a, <2>1 DEF Strip, OneEach
  <2>3. QED
    BY <1>12, <1>b, <1>d, <1>f, <1>g, <2>2 DEF Strip
<1>13. ASSUME NEW f \in HOOK_FILES, Unhook(f) PROVE TypeInv'
  <2>1. hooks' \in Documents /\ \A g \in HOOK_FILES : hooks'[g] \subseteq hooks[g]
    BY <1>13, <1>a DEF Unhook, Documents, Without
  <2>2. \A g \in HOOK_FILES : OneEach(hooks'[g])
    BY <1>a, <2>1 DEF OneEach
  <2>3. FilesTyped'
    BY <1>13, <1>a, <2>1, <2>2 DEF Unhook, OneEach
  <2>4. QED
    BY <1>13, <1>b, <1>d, <1>f, <1>g, <2>3 DEF Unhook
<1>14. CASE Crash
  <2>1. target' \in [TARGETS -> Contents]
    BY <1>14, <1>a DEF Crash, Contents
  <2>2. FilesTyped'
    BY <1>14, <1>a, <2>1 DEF Crash, OneEach
  <2>3. Installing => runtime \in Runtimes
    BY <1>0 DEF Installing, Located
  <2>4. CountedTyped'
    BY <1>14, <1>a, <2>3 DEF Crash
  <2>5. QED
    BY <1>14, <1>b, <1>c, <2>2, <2>4 DEF Crash
<1>15. CASE UpdateCheckout
  <2>1. RunTyped'
    BY <1>15, <1>a DEF UpdateCheckout, run, Located, OneEach
  <2>2. QED
    BY <1>15, <1>b, <1>e, <1>f, <2>1 DEF UpdateCheckout
<1>16. ASSUME NEW t \in TARGETS, TouchTarget(t) PROVE TypeInv'
  <2>1. target' \in [TARGETS -> Contents]
    BY <1>16, <1>a DEF TouchTarget, Contents
  <2>2. FilesTyped' /\ CountedTyped'
    BY <1>16, <1>a, <2>1 DEF TouchTarget, Touch, OneEach
  <2>3. RunTyped'
    BY <1>16, <1>a DEF TouchTarget, Touch, Located, OneEach
  <2>4. QED
    BY <1>b, <2>2, <2>3
<1>17. ASSUME NEW f \in HOOK_FILES, TouchHooks(f) PROVE TypeInv'
  <2>1. \/ hooks' = [hooks EXCEPT ![f] = hooks[f] \cup {Entry(Other, FALSE)}]
        \/ \E e \in hooks[f] : hooks' = [hooks EXCEPT ![f] = (hooks[f] \ {e}) \cup {Entry(e.owner, TRUE)}]
    BY <1>17 DEF TouchHooks
  <2>2. PICK c : /\ hooks' = [hooks EXCEPT ![f] = c]
                 /\ \/ c = hooks[f] \cup {Entry(Other, FALSE)}
                    \/ \E e \in hooks[f] : c = (hooks[f] \ {e}) \cup {Entry(e.owner, TRUE)}
    BY <2>1
  <2>3. hooks[f] \in SUBSET [owner : {Other} \cup Runtimes, edited : BOOLEAN] /\ OneEach(hooks[f])
    BY <1>a DEF Documents
  <2>4. c \in SUBSET [owner : {Other} \cup Runtimes, edited : BOOLEAN] /\ OneEach(c)
    BY <2>2, <2>3, TouchedDocument
  <2>5. hooks' \in Documents /\ \A g \in HOOK_FILES : hooks'[g] = hooks[g] \/ hooks'[g] = c
    BY <1>a, <2>2, <2>4 DEF Documents
  <2>6. FilesTyped' /\ CountedTyped'
    BY <1>17, <1>a, <2>4, <2>5 DEF TouchHooks, Touch, OneEach
  <2>7. RunTyped'
    BY <1>17, <1>a DEF TouchHooks, Touch, Located, OneEach
  <2>8. QED
    BY <1>b, <2>6, <2>7
<1>18. CASE UNCHANGED vars
  <2>1. RunTyped'
    BY <1>18, <1>a DEF vars, run, Located, OneEach
  <2>2. QED
    BY <1>18, <1>b, <1>e, <1>f, <2>1 DEF vars
<1>19. QED
  BY <1>1, <1>2, <1>3, <1>4, <1>5, <1>6, <1>7, <1>8, <1>9, <1>10, <1>11, <1>12, <1>13,
     <1>14, <1>15, <1>16, <1>17, <1>18 DEF Next

LEMMA Typed == Spec => []TypeInv
BY InitTyped, StepTyped, PTL DEF Spec

(* TypeOK: every state is well formed, and no hook file ever has two        *)
(* entries of one runtime.                                                  *)
THEOREM InstallerTypeCorrect == Spec => []TypeOK
<1>1. TypeInv => TypeOK
  BY DEF TypeInv
<1>2. QED
  BY <1>1, Typed, PTL

-----------------------------------------------------------------------------
(* Whose entries are in the hook files *)

Fresh(document) == \A e \in document : e.owner \in {Other, runtime} \cup interrupted

Accounted ==
    \A f \in HOOK_FILES : \A e \in hooks[f] :
        \/ e.owner \in {Other, manifest} \cup interrupted
        \/ Installing /\ at > 1 /\ e.owner = runtime

\* No entry of the runtime before this one is planned, and a file that was
\* written, or needs no write, has none.
OwnersInv ==
    /\ Accounted
    /\ Installing /\ at > 1 => \A f \in HOOK_FILES : Fresh(wanted[f])
    /\ Installing /\ at > 5 =>
         \A f \in HOOK_FILES : f \notin changed \/ at > HooksAt[f] => Fresh(hooks[f])

\* Steps that are about other things.
LEMMA OwnersFrame ==
    ASSUME TypeInv, OwnersInv, ~Idle, Advance, ~(Installing /\ at \in {1, 5, 8, 9, 14}),
           UNCHANGED <<hooks, manifest, interrupted>>
    PROVE  OwnersInv'
<1>0. Located
  BY DEF TypeInv, TypeOK, Located
<1>1. CASE Installing
  <2>1. /\ at \in 2..13 /\ at \notin {5, 8, 9} /\ at' = at + 1
        /\ UNCHANGED <<command, runtime, wanted, changed>>
    BY <1>0, <1>1, Advances DEF Installing, Located
  <2>2. Installing' /\ at' > 1 /\ at > 1 /\ (at' > 5 => at > 5)
    BY <1>1, <2>1 DEF Installing
  <2>3. \A f \in HOOK_FILES : at' > HooksAt[f] => at > HooksAt[f]
    BY <2>1 DEF HooksAt, HOOK_FILES
  <2>4. \A d : Fresh(d) => Fresh(d)'
    BY <2>1 DEF Fresh
  <2>5. Accounted'
    BY <1>1, <2>1, <2>2 DEF OwnersInv, Accounted
  <2>6. \A f \in HOOK_FILES : Fresh(wanted[f])'
    BY <1>1, <2>1, <2>2, <2>4 DEF OwnersInv, Fresh
  <2>7. at' > 5 => \A f \in HOOK_FILES : (f \notin changed \/ at > HooksAt[f])' => Fresh(hooks[f])'
    BY <1>1, <2>1, <2>2, <2>3 DEF OwnersInv, Fresh
  <2>8. QED
    BY <2>5, <2>6, <2>7 DEF OwnersInv
<1>2. CASE ~Installing
  <2>1. ~Installing'
    BY <1>0, <1>2, Advances DEF Installing, Stop
  <2>2. QED
    BY <1>2, <2>1 DEF OwnersInv, Accounted
<1>3. QED
  BY <1>1, <1>2

LEMMA InitOwners == Init => OwnersInv
BY DEF Init, OwnersInv, Accounted, Installing, NoDocuments

LEMMA StepOwners == TypeInv /\ OwnersInv /\ [Next]_vars => OwnersInv'
<1> SUFFICES ASSUME TypeInv, OwnersInv, [Next]_vars PROVE OwnersInv'
  OBVIOUS
<1>0. TypeOK /\ Located /\ hooks \in Documents /\ wanted \in Documents
  BY DEF TypeInv, TypeOK, Located
<1>w. \A k, x : Doing(k, x) => ~Idle
  BY DEF Doing
<1>1. ASSUME NEW r \in Runtimes, BeginInstall(r) PROVE OwnersInv'
  BY <1>1 DEF BeginInstall, Begin, Idle, Installing, OwnersInv, Accounted, installed, counted
<1>2. CASE BeginUninstall
  BY <1>2 DEF BeginUninstall, Begin, Idle, Installing, OwnersInv, Accounted, installed, counted
<1>3. CASE Plan
  <2>1. at = 1 /\ Installing /\ runtime \in Runtimes
    BY <1>3, <1>0, Where DEF Plan, Installing, Located
  <2>2. /\ at' = 2 /\ Installing'
        /\ UNCHANGED <<runtime, hooks, manifest, interrupted>>
        /\ \A f \in HOOK_FILES : wanted'[f] = With(hooks[f], runtime)
    BY <1>3, <2>1 DEF Plan, Installing, installed, counted
  <2>3. \A f \in HOOK_FILES : \A e \in hooks[f] : e.owner \in {Other, manifest} \cup interrupted
    BY <2>1 DEF OwnersInv, Accounted
  <2>4. ASSUME NEW f \in HOOK_FILES PROVE Fresh(With(hooks[f], runtime))
    <3>1. hooks[f] \in SUBSET [owner : {Other} \cup Runtimes, edited : BOOLEAN] /\ OneEach(hooks[f])
      BY <1>0 DEF Documents, TypeOK, OneEach
    <3>2. \A e \in With(hooks[f], runtime) : e.owner = runtime \/ (e \in hooks[f] /\ e.owner # manifest)
      BY <1>0, <2>1, <3>1, WithTyped DEF TypeOK
    <3>3. QED
      BY <2>3, <3>2 DEF Fresh
  <2>5. \A f \in HOOK_FILES : Fresh(wanted[f])'
    BY <2>2, <2>4 DEF Fresh
  <2>6. Accounted'
    BY <2>2, <2>3 DEF Accounted
  <2>7. QED
    BY <2>2, <2>5, <2>6 DEF OwnersInv
<1>4. CASE Refuse
  <2>1. at = 1 /\ ~Installing' /\ UNCHANGED <<hooks, manifest, interrupted>>
    BY <1>4, <1>0, Where DEF Refuse, Stop, Installing, installed, counted
  <2>2. QED
    BY <2>1 DEF OwnersInv, Accounted
<1>5. ASSUME NEW a \in ASSETS, UpdatePayload(a) PROVE OwnersInv'
  <2>1. at \in 2..4
    BY <1>5, <1>0, Where DEF UpdatePayload, PayloadAt, ASSETS, COPIES
  <2>2. QED
    BY <1>5, <1>w, <2>1, OwnersFrame DEF UpdatePayload, counted
<1>6. CASE Compare
  <2>1. at = 5 /\ Installing /\ at' = 6 /\ Installing' /\ UNCHANGED <<runtime, wanted, hooks, manifest, interrupted>>
    BY <1>6, <1>0, Where DEF Compare, Installing, installed, counted
  <2>2. \A f \in HOOK_FILES : f \notin changed' => hooks[f] = wanted[f]
    BY <1>6 DEF Compare
  <2>3. \A f \in HOOK_FILES : ~(6 > HooksAt[f])
    BY DEF HooksAt, HOOK_FILES
  <2>4. \A f \in HOOK_FILES : Fresh(wanted[f])
    BY <2>1 DEF OwnersInv
  <2>5. Accounted'
    BY <2>1 DEF OwnersInv, Accounted
  <2>6. QED
    BY <2>1, <2>2, <2>3, <2>4, <2>5 DEF OwnersInv, Fresh
<1>7. ASSUME NEW f \in INSTRUCTION_FILES, WriteInstructions(f) PROVE OwnersInv'
  <2>1. at \in 6..7
    BY <1>7, <1>0, Where DEF WriteInstructions, BlockAt, INSTRUCTION_FILES
  <2>2. QED
    BY <1>7, <1>w, <2>1, OwnersFrame DEF WriteInstructions, counted
<1>8. ASSUME NEW f \in HOOK_FILES, WriteHooks(f) PROVE OwnersInv'
  <2>1. Installing /\ at = HooksAt[f] /\ at \in 8..9
    BY <1>8, <1>0, Where DEF WriteHooks, HooksAt, HOOK_FILES
  <2>2. /\ at' = at + 1 /\ Installing'
        /\ UNCHANGED <<runtime, wanted, changed, manifest, interrupted>>
    BY <1>8, <1>0, <1>w, <2>1, Advances DEF WriteHooks, Installing, counted
  <2>3. /\ \A g \in HOOK_FILES : hooks'[g] = IF g = f /\ f \in changed THEN wanted[g] ELSE hooks[g]
    BY <1>8, <1>0 DEF WriteHooks, Documents
  <2>4. \A g \in HOOK_FILES : g # f /\ at' > HooksAt[g] => at > HooksAt[g]
    BY <2>1, <2>2 DEF HooksAt, HOOK_FILES
  <2>5. \A g \in HOOK_FILES : Fresh(wanted[g])
    BY <2>1 DEF OwnersInv
  <2>6. \A g \in HOOK_FILES : g \notin changed \/ at > HooksAt[g] => Fresh(hooks[g])
    BY <2>1 DEF OwnersInv
  <2>7. \A g \in HOOK_FILES : g \notin changed \/ at' > HooksAt[g] => Fresh(hooks'[g])
    BY <2>3, <2>4, <2>5, <2>6
  <2>8. ASSUME NEW g \in HOOK_FILES, NEW e \in hooks'[g]
        PROVE  \/ e.owner \in {Other, manifest} \cup interrupted
               \/ e.owner = runtime
    <3>1. e \in hooks[g] \/ e \in wanted[g]
      BY <2>3
    <3>2. QED
      BY <2>5, <3>1 DEF OwnersInv, Accounted, Fresh
  <2>9. Accounted'
    BY <2>1, <2>2, <2>8 DEF Accounted
  <2>10. QED
    BY <2>2, <2>5, <2>7, <2>9 DEF OwnersInv, Fresh
<1>9. ASSUME NEW t \in TARGETS, Place(t) PROVE OwnersInv'
  <2>1. at \in 10..13
    BY <1>9, <1>0, Where DEF Place, PlaceAt, TARGETS, ASSETS, COPIES
  <2>2. QED
    BY <1>9, <1>w, <2>1, OwnersFrame DEF Place, counted
<1>10. CASE WriteReceipt
  <2>1. at = 14 /\ Installing
    BY <1>10, <1>0, Where DEF WriteReceipt
  <2>2. ~Installing' /\ hooks' = hooks /\ manifest' = runtime /\ interrupted' = interrupted \ {runtime}
    BY <1>10, <1>0, <1>w, <2>1, Advances DEF WriteReceipt, Stop, Installing
  <2>3. \A f \in HOOK_FILES : Fresh(hooks[f])
    BY <2>1 DEF OwnersInv, HooksAt, HOOK_FILES
  <2>4. QED
    BY <2>2, <2>3 DEF OwnersInv, Accounted, Fresh
<1>11. ASSUME NEW t \in TARGETS, Remove(t) PROVE OwnersInv'
  <2>1. ~Installing
    BY <1>11, <1>0, Where DEF Remove, Installing
  <2>2. QED
    BY <1>11, <1>w, <2>1, OwnersFrame DEF Remove, counted
<1>12. ASSUME NEW f \in INSTRUCTION_FILES, Strip(f) PROVE OwnersInv'
  <2>1. ~Installing
    BY <1>12, <1>0, Where DEF Strip, Installing
  <2>2. QED
    BY <1>12, <1>w, <2>1, OwnersFrame DEF Strip, counted
<1>13. ASSUME NEW f \in HOOK_FILES, Unhook(f) PROVE OwnersInv'
  <2>1. ~Installing
    BY <1>13, <1>0, Where DEF Unhook, Installing
  <2>2. ~Installing' /\ UNCHANGED <<manifest, interrupted>>
    BY <1>13, <1>0, <1>w, <2>1, Advances DEF Unhook, Stop, Installing, counted
  <2>3. \A g \in HOOK_FILES : hooks'[g] \subseteq hooks[g]
    BY <1>13, <1>0 DEF Unhook, Documents, Without
  <2>4. QED
    BY <2>1, <2>2, <2>3 DEF OwnersInv, Accounted
<1>14. CASE Crash
  <2>1. /\ UNCHANGED <<hooks, manifest>> /\ ~Installing'
        /\ interrupted' = IF Installing THEN interrupted \cup {runtime} ELSE interrupted
    BY <1>14 DEF Crash, Stop, Installing
  <2>2. QED
    BY <2>1 DEF OwnersInv, Accounted
<1>15. ASSUME UNCHANGED <<hooks, manifest, interrupted, command, at, runtime, wanted, changed>>
       PROVE  OwnersInv'
  BY <1>15 DEF OwnersInv, Accounted, Fresh, Installing
<1>16. CASE UpdateCheckout
  BY <1>15, <1>16 DEF UpdateCheckout, installed, run, counted
<1>17. ASSUME NEW t \in TARGETS, TouchTarget(t) PROVE OwnersInv'
  BY <1>15, <1>17 DEF TouchTarget, Touch
<1>18. ASSUME NEW f \in HOOK_FILES, TouchHooks(f) PROVE OwnersInv'
  <2>1. UNCHANGED <<manifest, interrupted, command, at, runtime, wanted, changed>>
    BY <1>18 DEF TouchHooks, Touch
  <2>2. ASSUME NEW g \in HOOK_FILES, NEW e \in hooks'[g]
        PROVE  e.owner = Other \/ \E b \in hooks[g] : b.owner = e.owner
    BY <1>18, <2>2, TouchedEntries
  <2>3. \A g \in HOOK_FILES : Fresh(hooks[g]) => Fresh(hooks'[g])
    BY <2>2 DEF Fresh
  <2>4. Accounted'
    BY <2>1, <2>2 DEF OwnersInv, Accounted, Installing
  <2>5. QED
    BY <2>1, <2>3, <2>4 DEF OwnersInv, Installing, Fresh
<1>19. CASE UNCHANGED vars
  BY <1>15, <1>19 DEF vars, installed, run, counted
<1>20. QED
  BY <1>1, <1>2, <1>3, <1>4, <1>5, <1>6, <1>7, <1>8, <1>9, <1>10, <1>11, <1>12, <1>13,
     <1>14, <1>16, <1>17, <1>18, <1>19 DEF Next

LEMMA Owners == Spec => []OwnersInv
BY Typed, InitOwners, StepOwners, PTL DEF Spec

(* HooksAccountedFor: every entry of ours is of the runtime on record, of   *)
(* the install that runs, or of one that was interrupted.                   *)
THEOREM EntriesAccountedFor == Spec => []HooksAccountedFor
<1>1. OwnersInv => HooksAccountedFor
  BY DEF OwnersInv, Accounted, HooksAccountedFor
<1>2. QED
  BY <1>1, Owners, PTL

-----------------------------------------------------------------------------
(* What a run has done so far *)

OwnEntries(document) == {e \in document : e.owner = runtime}
OtherEntries(document) == {e \in document : e.owner = Other}

Planned ==
    \A f \in HOOK_FILES : /\ OwnEntries(wanted[f]) = {Entry(runtime, FALSE)}
                          /\ f \notin touched => OtherEntries(hooks[f]) \subseteq wanted[f]
Updated == \A a \in ASSETS : at > PayloadAt[a] => payload[a] = checkout
Instructed == \A f \in INSTRUCTION_FILES : at > BlockAt[f] => block[f] = <<runtime, checkout>>
Hooked ==
    \A f \in HOOK_FILES \ touched :
        at > HooksAt[f] \/ (at > 5 /\ f \notin changed) => hooks[f] = wanted[f]
Placed == \A t \in TARGETS \ touched : at > PlaceAt[t] => Matches(t, runtime)
NothingForeign == \A t \in TARGETS \ touched : target[t] # Foreign

ProgressInv ==
    Installing /\ at > 1 =>
        Planned /\ Updated /\ Instructed /\ Hooked /\ Placed /\ NothingForeign

LEMMA StepProgress == TypeInv /\ ProgressInv /\ [Next]_vars => ProgressInv'
<1> SUFFICES ASSUME TypeInv, ProgressInv, [Next]_vars PROVE ProgressInv'
  OBVIOUS
<1>0. TypeOK /\ Located /\ hooks \in Documents /\ wanted \in Documents
  BY DEF TypeInv, TypeOK, Located
<1>w. \A k, x : Doing(k, x) => ~Idle
  BY DEF Doing
<1> DEFINE Run == UNCHANGED <<windows, checkout, command, runtime, wanted, changed, touched>>
<1>n. ASSUME ~Installing' PROVE ProgressInv'
  BY <1>n DEF ProgressInv
<1>s. Stop => ~Installing'
  BY DEF Stop, Installing
<1>i. ASSUME Installing, at \in 2..13, Advance
      PROVE  /\ at' = at + 1 /\ Run /\ Installing'
             /\ Planned /\ Updated /\ Instructed /\ Hooked /\ Placed /\ NothingForeign
  <2>1. ~Idle /\ at > 1
    BY <1>i DEF Installing, Idle
  <2>2. at' = at + 1 /\ Run
    BY <1>0, <1>i, <2>1, Advances DEF Installing
  <2>3. QED
    BY <1>i, <2>1, <2>2 DEF ProgressInv, Installing
<1>u. ASSUME command = "uninstall", Advance PROVE ProgressInv'
  <2>1. ~Idle /\ ~Installing
    BY <1>u DEF Idle, Installing
  <2>2. ~Installing'
    BY <1>0, <1>u, <1>s, <2>1, Advances DEF Installing
  <2>3. QED
    BY <1>n, <2>2
<1>1. ASSUME NEW r \in Runtimes, BeginInstall(r) PROVE ProgressInv'
  BY <1>1 DEF BeginInstall, Begin, ProgressInv
<1>2. CASE BeginUninstall
  BY <1>2, <1>n DEF BeginUninstall, Begin, Installing
<1>3. CASE Plan
  <2>1. at = 1 /\ Installing /\ runtime \in Runtimes
    BY <1>3, <1>0, Where DEF Plan, Installing, Located
  <2>2. /\ at' = 2 /\ touched' = {} /\ NoConflict(runtime)
        /\ UNCHANGED <<runtime, hooks, target, manifest>>
        /\ \A f \in HOOK_FILES : wanted'[f] = With(hooks[f], runtime)
    BY <1>3, <2>1 DEF Plan, installed
  <2>3. ASSUME NEW f \in HOOK_FILES
        PROVE  /\ OwnEntries(With(hooks[f], runtime)) = {Entry(runtime, FALSE)}
               /\ OtherEntries(hooks[f]) \subseteq With(hooks[f], runtime)
    <3>1. hooks[f] \in SUBSET [owner : {Other} \cup Runtimes, edited : BOOLEAN] /\ OneEach(hooks[f])
      BY <1>0 DEF Documents, TypeOK, OneEach
    <3>2. QED
      BY <1>0, <2>1, <3>1, WithTyped DEF TypeOK, OwnEntries, OtherEntries
  <2>4. Planned'
    BY <2>2, <2>3 DEF Planned, OwnEntries, OtherEntries
  <2>5. Updated' /\ Instructed' /\ Hooked' /\ Placed'
    BY <2>2 DEF Updated, Instructed, Hooked, Placed, PayloadAt, BlockAt, HooksAt, PlaceAt,
                ASSETS, COPIES, INSTRUCTION_FILES, HOOK_FILES, TARGETS
  <2>6. ASSUME NEW t \in TARGETS PROVE target[t] # Foreign
    <3>1. target[t] = None \/ target[t] = Source(t, runtime)
      BY <2>2 DEF NoConflict, Matches
    <3>2. None # Foreign /\ Source(t, runtime) # Foreign
      BY <1>0, <2>1, SourceTyped, InstallerAssumption
    <3>3. QED
      BY <3>1, <3>2
  <2>7. NothingForeign'
    BY <2>2, <2>6 DEF NothingForeign
  <2>8. QED
    BY <2>4, <2>5, <2>7 DEF ProgressInv
<1>4. CASE Refuse
  BY <1>4, <1>n, <1>s DEF Refuse
<1>5. ASSUME NEW a \in ASSETS, UpdatePayload(a) PROVE ProgressInv'
  <2>1. Installing /\ at = PayloadAt[a] /\ at \in 2..4
    BY <1>5, <1>0, Where DEF UpdatePayload, PayloadAt, ASSETS, COPIES
  <2>2. /\ at' = at + 1 /\ Run
        /\ Planned /\ Updated /\ NothingForeign
        /\ UNCHANGED <<target, block, hooks>>
    BY <1>5, <1>i, <2>1 DEF UpdatePayload
  <2>3. \A b \in ASSETS : b # a /\ at' > PayloadAt[b] => at > PayloadAt[b]
    BY <2>1, <2>2 DEF PayloadAt, ASSETS, COPIES
  <2>4. Updated'
    <3>1. \A b \in ASSETS : payload'[b] = IF b = a THEN checkout ELSE payload[b]
      BY <1>5, <1>0 DEF UpdatePayload, TypeOK
    <3>2. QED
      BY <2>2, <2>3, <3>1 DEF Updated
  <2>5. Instructed' /\ Hooked' /\ Placed'
    BY <2>1, <2>2 DEF Instructed, Hooked, Placed, BlockAt, HooksAt, PlaceAt,
                ASSETS, COPIES, INSTRUCTION_FILES, HOOK_FILES, TARGETS
  <2>6. Planned' /\ NothingForeign'
    BY <2>2 DEF Planned, OwnEntries, OtherEntries, NothingForeign
  <2>7. QED
    BY <2>4, <2>5, <2>6 DEF ProgressInv
<1>6. CASE Compare
  <2>1. at = 5 /\ Installing /\ at' = 6
    BY <1>6, <1>0, Where DEF Compare
  <2>2. /\ UNCHANGED <<windows, checkout, runtime, wanted, touched, payload, target, block, hooks>>
        /\ \A f \in HOOK_FILES : f \notin changed' => hooks[f] = wanted[f]
    BY <1>6 DEF Compare, installed
  <2>3. Planned /\ Updated /\ NothingForeign
    BY <2>1 DEF ProgressInv
  <2>4. \A a \in ASSETS : 5 > PayloadAt[a]
    BY DEF PayloadAt, ASSETS, COPIES
  <2>5. Updated'
    BY <2>1, <2>2, <2>3, <2>4 DEF Updated
  <2>6. Hooked'
    BY <2>1, <2>2 DEF Hooked, HooksAt, HOOK_FILES
  <2>7. Instructed' /\ Placed'
    BY <2>1 DEF Instructed, Placed, BlockAt, PlaceAt, ASSETS, COPIES, INSTRUCTION_FILES, TARGETS
  <2>8. Planned' /\ NothingForeign'
    BY <2>2, <2>3 DEF Planned, OwnEntries, OtherEntries, NothingForeign
  <2>9. QED
    BY <2>5, <2>6, <2>7, <2>8 DEF ProgressInv
<1>7. ASSUME NEW f \in INSTRUCTION_FILES, WriteInstructions(f) PROVE ProgressInv'
  <2>1. Installing /\ at = BlockAt[f] /\ at \in 6..7
    BY <1>7, <1>0, Where DEF WriteInstructions, BlockAt, INSTRUCTION_FILES
  <2>2. /\ at' = at + 1 /\ Run
        /\ Planned /\ Updated /\ Instructed /\ Hooked /\ NothingForeign
        /\ UNCHANGED <<payload, target, hooks>>
    BY <1>7, <1>i, <2>1 DEF WriteInstructions
  <2>3. Updated'
    BY <2>1, <2>2 DEF Updated, PayloadAt, ASSETS, COPIES
  <2>4. Instructed'
    <3>1. \A g \in INSTRUCTION_FILES : block'[g] = IF g = f THEN <<runtime, checkout>> ELSE block[g]
      BY <1>7, <1>0 DEF WriteInstructions, TypeOK
    <3>2. \A g \in INSTRUCTION_FILES : g # f /\ at' > BlockAt[g] => at > BlockAt[g]
      BY <2>1, <2>2 DEF BlockAt, INSTRUCTION_FILES
    <3>3. QED
      BY <2>2, <3>1, <3>2 DEF Instructed
  <2>5. Hooked'
    BY <2>1, <2>2 DEF Hooked, HooksAt, HOOK_FILES
  <2>6. Placed'
    BY <2>1, <2>2 DEF Placed, PlaceAt, ASSETS, COPIES, TARGETS
  <2>7. Planned' /\ NothingForeign'
    BY <2>2 DEF Planned, OwnEntries, OtherEntries, NothingForeign
  <2>8. QED
    BY <2>3, <2>4, <2>5, <2>6, <2>7 DEF ProgressInv
<1>8. ASSUME NEW f \in HOOK_FILES, WriteHooks(f) PROVE ProgressInv'
  <2>1. Installing /\ at = HooksAt[f] /\ at \in 8..9
    BY <1>8, <1>0, Where DEF WriteHooks, HooksAt, HOOK_FILES
  <2>2. /\ at' = at + 1 /\ Run
        /\ Planned /\ Updated /\ Instructed /\ Hooked /\ NothingForeign
        /\ UNCHANGED <<payload, target, block>>
    BY <1>8, <1>i, <2>1 DEF WriteHooks
  <2>3. \A g \in HOOK_FILES : hooks'[g] = IF g = f /\ f \in changed THEN wanted[g] ELSE hooks[g]
    BY <1>8, <1>0 DEF WriteHooks, Documents
  <2>4. Updated' /\ Instructed'
    BY <2>1, <2>2 DEF Updated, Instructed, PayloadAt, BlockAt, ASSETS, COPIES, INSTRUCTION_FILES
  <2>5. \A g \in HOOK_FILES : g # f /\ at' > HooksAt[g] => at > HooksAt[g]
    BY <2>1, <2>2 DEF HooksAt, HOOK_FILES
  <2>6. at > 5 /\ at' > 5
    BY <2>1, <2>2
  <2>7. Hooked'
    BY <2>2, <2>3, <2>5, <2>6 DEF Hooked
  <2>8. Planned'
    BY <2>2, <2>3 DEF Planned, OwnEntries, OtherEntries
  <2>9. Placed' /\ NothingForeign'
    BY <2>1, <2>2 DEF Placed, NothingForeign, PlaceAt, ASSETS, COPIES, TARGETS
  <2>10. QED
    BY <2>4, <2>7, <2>8, <2>9 DEF ProgressInv
<1>9. ASSUME NEW t \in TARGETS, Place(t) PROVE ProgressInv'
  <2>1. Installing /\ at = PlaceAt[t] /\ at \in 10..13
    BY <1>9, <1>0, Where DEF Place, PlaceAt, TARGETS, ASSETS, COPIES
  <2>2. /\ at' = at + 1 /\ Run
        /\ Planned /\ Updated /\ Instructed /\ Hooked /\ Placed /\ NothingForeign
        /\ UNCHANGED <<payload, block, hooks>>
    BY <1>9, <1>i, <2>1 DEF Place
  <2>0. UNCHANGED build
    BY <1>9 DEF Place
  <2>3. \A u \in TARGETS \ touched : target'[u] = IF u = t THEN Source(t, runtime) ELSE target[u]
    BY <1>9, <1>0, <2>2 DEF Place, TypeOK, NothingForeign
  <2>4. Updated' /\ Instructed'
    BY <2>1, <2>2 DEF Updated, Instructed, PayloadAt, BlockAt, ASSETS, COPIES, INSTRUCTION_FILES
  <2>5. Hooked'
    <3>1. \A g \in HOOK_FILES : at > HooksAt[g]
      BY <2>1 DEF HooksAt, HOOK_FILES
    <3>2. QED
      BY <2>2, <3>1 DEF Hooked
  <2>6. \A u \in TARGETS : u # t /\ at' > PlaceAt[u] => at > PlaceAt[u]
    BY <2>1, <2>2 DEF PlaceAt, TARGETS, ASSETS, COPIES
  <2>7. \A u \in TARGETS : Source(u, runtime)' = Source(u, runtime)
    BY <2>0, <2>2 DEF Source
  <2>8. Placed'
    BY <2>2, <2>3, <2>6, <2>7 DEF Placed, Matches
  <2>9. Source(t, runtime) # Foreign
    BY <1>0, SourceTyped DEF TypeOK
  <2>10. NothingForeign'
    BY <2>2, <2>3, <2>9 DEF NothingForeign
  <2>11. Planned'
    BY <2>2 DEF Planned, OwnEntries, OtherEntries
  <2>12. QED
    BY <2>4, <2>5, <2>8, <2>10, <2>11 DEF ProgressInv
<1>10. CASE WriteReceipt
  <2>1. at = 14 /\ Installing
    BY <1>10, <1>0, Where DEF WriteReceipt
  <2>2. Stop
    BY <1>10, <1>0, <1>w, <2>1, Advances DEF WriteReceipt, Installing
  <2>3. QED
    BY <1>n, <1>s, <2>2
<1>11. ASSUME NEW t \in TARGETS, Remove(t) PROVE ProgressInv'
  BY <1>11, <1>0, <1>u, Where DEF Remove
<1>12. ASSUME NEW f \in INSTRUCTION_FILES, Strip(f) PROVE ProgressInv'
  BY <1>12, <1>0, <1>u, Where DEF Strip
<1>13. ASSUME NEW f \in HOOK_FILES, Unhook(f) PROVE ProgressInv'
  BY <1>13, <1>0, <1>u, Where DEF Unhook
<1>14. CASE Crash
  BY <1>14, <1>n, <1>s DEF Crash
<1>15. CASE UpdateCheckout
  <2>1. ~Installing'
    BY <1>15 DEF UpdateCheckout, Idle, Installing, run
  <2>2. QED
    BY <1>n, <2>1
<1>16. ASSUME NEW t \in TARGETS, TouchTarget(t) PROVE ProgressInv'
  <2>1. CASE ~Installing
    BY <1>16, <1>n, <2>1 DEF TouchTarget, Touch, Installing
  <2>2. CASE Installing
    <3>1. /\ touched' = touched \cup {t}
          /\ UNCHANGED <<windows, checkout, build, payload, block, hooks, command, at, runtime, wanted, changed>>
          /\ \A u \in TARGETS : u # t => target'[u] = target[u]
      BY <1>16, <1>0, <2>2 DEF TouchTarget, Touch, Installing, Idle, TypeOK
    <3>2. \A u \in TARGETS : Source(u, runtime)' = Source(u, runtime)
      BY <3>1 DEF Source
    <3>3. QED
      BY <2>2, <3>1, <3>2 DEF ProgressInv, Installing, Planned, OwnEntries, OtherEntries,
           Updated, Instructed, Hooked, Placed, NothingForeign, Matches
  <2>3. QED
    BY <2>1, <2>2
<1>17. ASSUME NEW f \in HOOK_FILES, TouchHooks(f) PROVE ProgressInv'
  <2>1. CASE ~Installing
    BY <1>17, <1>n, <2>1 DEF TouchHooks, Touch, Installing
  <2>2. CASE Installing
    <3>1. /\ touched' = touched \cup {f}
          /\ UNCHANGED <<windows, checkout, build, payload, block, target, command, at, runtime, wanted, changed>>
          /\ \A g \in HOOK_FILES : g # f => hooks'[g] = hooks[g]
      BY <1>17, <1>0, <2>2 DEF TouchHooks, Touch, Installing, Idle, Documents
    <3>2. \A u \in TARGETS : Source(u, runtime)' = Source(u, runtime)
      BY <3>1 DEF Source
    <3>3. QED
      BY <2>2, <3>1, <3>2 DEF ProgressInv, Installing, Planned, OwnEntries, OtherEntries,
           Updated, Instructed, Hooked, Placed, NothingForeign, Matches
  <2>3. QED
    BY <2>1, <2>2
<1>18. CASE UNCHANGED vars
  BY <1>18 DEF vars, installed, run, ProgressInv, Installing, Planned, OwnEntries, OtherEntries,
       Updated, Instructed, Hooked, Placed, NothingForeign, Matches, Source
<1>19. QED
  BY <1>1, <1>2, <1>3, <1>4, <1>5, <1>6, <1>7, <1>8, <1>9, <1>10, <1>11, <1>12, <1>13,
     <1>14, <1>15, <1>16, <1>17, <1>18 DEF Next

LEMMA Progress == Spec => []ProgressInv
<1>1. Init => ProgressInv
  BY DEF Init, ProgressInv, Installing
<1>2. QED
  BY <1>1, Typed, StepProgress, PTL DEF Spec

\* The step that completes a command.
LEMMA LastStep ==
    ASSUME TypeInv, [Next]_vars, Completes
    PROVE  \/ Installing /\ WriteReceipt
           \/ command = "uninstall" /\ Unhook("codex_hooks")
<1>0. Located /\ crashes \in Nat /\ crashes' = crashes /\ ~Idle /\ command' # command
  BY InstallerAssumption DEF TypeInv, TypeOK, Located, Completes, Idle
<1>1. (Installing /\ at = 14) \/ (command = "uninstall" /\ at = 8)
  <2>1. command = "install" => Len(STEPS[command]) = 14
    BY DEF STEPS, INSTALL
  <2>2. command = "uninstall" => Len(STEPS[command]) = 8
    BY DEF STEPS, UNINSTALL
  <2>3. QED
    BY <1>0, <2>1, <2>2 DEF Completes, Located, Idle, Installing
<1>2. ~Crash
  BY <1>0 DEF Crash
<1>3. ~UNCHANGED vars /\ ~Plan /\ ~Compare /\ ~UpdateCheckout
  BY <1>0 DEF vars, run, Plan, Compare, UpdateCheckout
<1>4. /\ \A r : ~BeginInstall(r) /\ ~BeginUninstall
      /\ \A t : ~TouchTarget(t) /\ \A f : ~TouchHooks(f)
  BY <1>0 DEF BeginInstall, BeginUninstall, Begin, TouchTarget, TouchHooks, Touch
<1>5. CASE Installing /\ at = 14
  <2>1. command # "uninstall"
    BY <1>5 DEF Installing
  <2>2. ~Refuse
    BY <1>0, <1>5, Where DEF Refuse
  <2>3. \A a \in ASSETS : ~UpdatePayload(a)
    BY <1>0, <1>5, Where DEF UpdatePayload, PayloadAt, ASSETS, COPIES
  <2>4. \A f \in INSTRUCTION_FILES : ~WriteInstructions(f) /\ ~Strip(f)
    BY <1>0, <1>5, <2>1, Where DEF WriteInstructions, Strip, BlockAt, INSTRUCTION_FILES
  <2>5. \A f \in HOOK_FILES : ~WriteHooks(f) /\ ~Unhook(f)
    BY <1>0, <1>5, <2>1, Where DEF WriteHooks, Unhook, HooksAt, HOOK_FILES
  <2>6. \A t \in TARGETS : ~Place(t) /\ ~Remove(t)
    BY <1>0, <1>5, <2>1, Where DEF Place, Remove, PlaceAt, TARGETS, ASSETS, COPIES
  <2>7. WriteReceipt
    BY <1>2, <1>3, <1>4, <2>2, <2>3, <2>4, <2>5, <2>6 DEF Next
  <2>8. QED
    BY <1>5, <2>7
<1>6. CASE command = "uninstall" /\ at = 8
  <2>1. ~Installing
    BY <1>6 DEF Installing
  <2>2. ~Refuse /\ ~WriteReceipt
    BY <1>0, <2>1, Where DEF Refuse, WriteReceipt
  <2>3. \A a \in ASSETS : ~UpdatePayload(a)
    BY <1>0, <2>1, Where DEF UpdatePayload
  <2>4. \A f \in INSTRUCTION_FILES : ~WriteInstructions(f) /\ ~Strip(f)
    BY <1>0, <1>6, <2>1, Where DEF WriteInstructions, Strip, StripAt, INSTRUCTION_FILES
  <2>5. \A f \in HOOK_FILES : ~WriteHooks(f) /\ (Unhook(f) => f = "codex_hooks")
    BY <1>0, <1>6, <2>1, Where DEF WriteHooks, Unhook, UnhookAt, HOOK_FILES
  <2>6. \A t \in TARGETS : ~Place(t) /\ ~Remove(t)
    BY <1>0, <1>6, <2>1, Where DEF Place, Remove, RemoveAt, TARGETS, ASSETS, COPIES
  <2>7. \E f \in HOOK_FILES : Unhook(f)
    BY <1>2, <1>3, <1>4, <2>2, <2>3, <2>4, <2>5, <2>6 DEF Next
  <2>8. QED
    BY <1>6, <2>5, <2>7
<1>7. QED
  BY <1>1, <1>5, <1>6

LEMMA ReceiptInSync ==
    ASSUME TypeInv, ProgressInv, Installing, WriteReceipt, touched = {}
    PROVE  \A r \in Runtimes : runtime = r => InSync(r)'
<1>0. Located /\ ~Idle
  BY DEF TypeInv, TypeOK, Located, Installing, Idle
<1>1. at = 14
  BY <1>0, Where DEF WriteReceipt
<1>2. /\ manifest' = runtime /\ Stop
      /\ UNCHANGED <<windows, checkout, build, payload, target, block, hooks>>
  BY <1>0, <1>1, Advances DEF WriteReceipt, Stop
<1>3. Planned /\ Updated /\ Instructed /\ Hooked /\ Placed
  BY <1>1 DEF ProgressInv
<1>4. SUFFICES ASSUME NEW r \in Runtimes, runtime = r PROVE InSync(r)'
  OBVIOUS
<1>5. manifest' # None
  BY <1>2, <1>4, InstallerAssumption
<1>6. \A a \in ASSETS : payload[a] = checkout
  BY <1>1, <1>3 DEF Updated, PayloadAt, ASSETS, COPIES
<1>7. \A t \in TARGETS : target[t] = Source(t, r)
  BY <1>1, <1>3, <1>4 DEF Placed, Matches, PlaceAt, TARGETS, ASSETS, COPIES
<1>8. \A t \in TARGETS : Source(t, r)' = Source(t, r)
  BY <1>2 DEF Source
<1>9. \A f \in INSTRUCTION_FILES : block[f] = <<r, checkout>>
  BY <1>1, <1>3, <1>4 DEF Instructed, BlockAt, INSTRUCTION_FILES
<1>10. ASSUME NEW f \in HOOK_FILES
       PROVE  {e \in hooks[f] : Managed(e, {r})} = {Entry(r, FALSE)}
  <2>1. hooks[f] = wanted[f]
    BY <1>1, <1>3 DEF Hooked, HooksAt, HOOK_FILES
  <2>2. {e \in wanted[f] : e.owner = r} = {Entry(r, FALSE)}
    BY <1>3, <1>4 DEF Planned, OwnEntries
  <2>3. QED
    BY <2>1, <2>2 DEF Managed
<1>11. \A t \in TARGETS : Matches(t, r)'
  BY <1>2, <1>7, <1>8 DEF Matches
<1>12. \A f \in HOOK_FILES : {e \in hooks'[f] : Managed(e, {r})} = {Entry(r, FALSE)}
  BY <1>2, <1>10
<1>13. QED
  BY <1>2, <1>5, <1>6, <1>9, <1>11, <1>12 DEF InSync, Managed, Entry

(* CompletedIsInSync: whatever earlier runs left half done, an install that *)
(* completes undisturbed leaves what --check calls in sync.                 *)
THEOREM CompletedInstall == Spec => CompletedIsInSync
<1>1. TypeInv /\ ProgressInv /\ [Next]_vars =>
        [\A r \in Runtimes :
           Completes /\ Installing /\ runtime = r /\ touched = {} => InSync(r)']_vars
  <2>1. SUFFICES ASSUME TypeInv, ProgressInv, [Next]_vars, NEW r \in Runtimes,
                        Completes, Installing, runtime = r, touched = {}
                 PROVE  InSync(r)'
    OBVIOUS
  <2>2. WriteReceipt
    BY <2>1, LastStep DEF Installing
  <2>3. QED
    BY <2>1, <2>2, ReceiptInSync
<1>2. QED
  BY <1>1, Typed, Progress, PTL DEF Spec, CompletedIsInSync

-----------------------------------------------------------------------------
(* What a person left *)

LEMMA KeepsTargets ==
    ASSUME TypeInv, ProgressInv, [Next]_vars, edits' = edits,
           NEW t \in TARGETS \ touched, target[t] = Foreign
    PROVE  target'[t] = Foreign
<1>0. TypeOK /\ Located /\ edits \in Nat /\ runtime \in {None} \cup Runtimes
  BY InstallerAssumption DEF TypeInv, TypeOK, Located
<1>1. ~(Installing /\ at > 1)
  BY DEF ProgressInv, NothingForeign
<1>2. \A u \in TARGETS : Matches(u, runtime) => target[u] # Foreign
  BY <1>0, SourceTyped DEF Matches
<1>3. \/ UNCHANGED target
      \/ \E u \in TARGETS : Place(u) \/ Remove(u)
      \/ Crash
  <2>1. \A u \in TARGETS : ~TouchTarget(u)
    BY <1>0 DEF TouchTarget, Touch
  <2>2. \A r \in Runtimes : BeginInstall(r) => UNCHANGED target
    BY DEF BeginInstall, Begin, installed
  <2>3. (Plan \/ Refuse \/ Compare \/ WriteReceipt \/ BeginUninstall \/ UpdateCheckout) => UNCHANGED target
    BY DEF Plan, Refuse, Compare, WriteReceipt, BeginUninstall, Begin, UpdateCheckout, installed
  <2>4. \A a \in ASSETS : UpdatePayload(a) => UNCHANGED target
    BY DEF UpdatePayload
  <2>5. \A f \in INSTRUCTION_FILES : WriteInstructions(f) \/ Strip(f) => UNCHANGED target
    BY DEF WriteInstructions, Strip
  <2>6. \A f \in HOOK_FILES : WriteHooks(f) \/ Unhook(f) \/ TouchHooks(f) => UNCHANGED target
    BY DEF WriteHooks, Unhook, TouchHooks
  <2>7. UNCHANGED vars => UNCHANGED target
    BY DEF vars, installed
  <2>8. QED
    BY <2>1, <2>2, <2>3, <2>4, <2>5, <2>6, <2>7 DEF Next
<1>4. ASSUME NEW u \in TARGETS, Place(u) PROVE FALSE
  BY <1>0, <1>1, <1>4, Where DEF Place, PlaceAt, TARGETS, ASSETS, COPIES
<1>5. ASSUME NEW u \in TARGETS, Remove(u) PROVE target'[t] = Foreign
  <2>1. target' = target \/ (t # u /\ target' = [target EXCEPT ![u] = None])
    BY <1>2, <1>5 DEF Remove
  <2>2. QED
    BY <2>1, <1>0 DEF TypeOK
<1>6. CASE Crash
  <2>1. Copying => target["skills"] # Foreign
    <3>1. "skills" \in TARGETS
      BY DEF TARGETS, ASSETS
    <3>2. ~Doing("place", "skills")
      BY <1>0, <1>1, <3>1, Where DEF PlaceAt
    <3>3. QED
      BY <1>2, <3>1, <3>2 DEF Copying
  <2>2. target' = target \/ (t # "skills" /\ \E c : target' = [target EXCEPT !["skills"] = c])
    BY <1>6, <2>1 DEF Crash
  <2>3. QED
    BY <2>2, <1>0 DEF TypeOK
<1>7. QED
  BY <1>3, <1>4, <1>5, <1>6

LEMMA KeepsEntries ==
    ASSUME TypeInv, ProgressInv, [Next]_vars, edits' = edits, NEW f \in HOOK_FILES \ touched
    PROVE  OtherEntries(hooks[f]) \subseteq hooks'[f]
<1>0. Located /\ edits \in Nat /\ hooks \in Documents /\ runtime # Other
  BY InstallerAssumption DEF TypeInv, TypeOK, Located
<1>1. UNCHANGED hooks \/ \E g \in HOOK_FILES : WriteHooks(g) \/ Unhook(g)
  <2>1. \A g \in HOOK_FILES : ~TouchHooks(g)
    <3>1. \A g : ~Touch(g)
      BY <1>0 DEF Touch
    <3>2. QED
      BY <3>1, Zenon DEF TouchHooks
  <2>2. \A r \in Runtimes : BeginInstall(r) => UNCHANGED hooks
    BY DEF BeginInstall, Begin, installed
  <2>3. (Plan \/ Refuse \/ Compare \/ WriteReceipt \/ BeginUninstall \/ Crash \/ UpdateCheckout) => UNCHANGED hooks
    BY DEF Plan, Refuse, Compare, WriteReceipt, BeginUninstall, Begin, Crash, UpdateCheckout, installed
  <2>4. \A a \in ASSETS : UpdatePayload(a) => UNCHANGED hooks
    BY DEF UpdatePayload
  <2>5. \A g \in INSTRUCTION_FILES : WriteInstructions(g) \/ Strip(g) => UNCHANGED hooks
    BY DEF WriteInstructions, Strip
  <2>6. \A t \in TARGETS : Place(t) \/ Remove(t) \/ TouchTarget(t) => UNCHANGED hooks
    BY DEF Place, Remove, TouchTarget
  <2>7. UNCHANGED vars => UNCHANGED hooks
    BY DEF vars, installed
  <2>8. QED
    BY <2>1, <2>2, <2>3, <2>4, <2>5, <2>6, <2>7 DEF Next
<1>2. ASSUME NEW g \in HOOK_FILES, WriteHooks(g) PROVE OtherEntries(hooks[f]) \subseteq hooks'[f]
  <2>1. Installing /\ at > 1
    BY <1>0, <1>2, Where DEF WriteHooks, HooksAt, HOOK_FILES
  <2>2. OtherEntries(hooks[f]) \subseteq wanted[f]
    BY <2>1 DEF ProgressInv, Planned
  <2>3. hooks'[f] = hooks[f] \/ hooks'[f] = wanted[f]
    BY <1>0, <1>2 DEF WriteHooks, Documents
  <2>4. QED
    BY <2>2, <2>3 DEF OtherEntries
<1>3. ASSUME NEW g \in HOOK_FILES, Unhook(g) PROVE OtherEntries(hooks[f]) \subseteq hooks'[f]
  <2>1. hooks'[f] = hooks[f] \/ hooks'[f] = {e \in hooks[f] : e.owner # runtime}
    BY <1>0, <1>3 DEF Unhook, Documents, Without, Managed
  <2>2. QED
    BY <1>0, <2>1 DEF OtherEntries
<1>4. QED
  BY <1>1, <1>2, <1>3 DEF OtherEntries

(* ForeignStays: no install, uninstall or crash replaces or removes what a  *)
(* person or another tool left before the preflight.                        *)
THEOREM ForeignKept == Spec => ForeignStays
<1>1. TypeInv /\ ProgressInv /\ [Next]_vars =>
        [edits' = edits =>
           /\ \A t \in TARGETS \ touched : target[t] = Foreign => target'[t] = Foreign
           /\ \A f \in HOOK_FILES \ touched :
                {e \in hooks[f] : e.owner = Other} \subseteq hooks'[f]]_vars
  BY KeepsTargets, KeepsEntries DEF OtherEntries
<1>2. QED
  BY <1>1, Typed, Progress, PTL DEF Spec, ForeignStays

-----------------------------------------------------------------------------
(* What an uninstall can remove *)

Left(t) == {None, Foreign} \cup Leftover(t)
Ours(t, r) == Left(t) \cup {Source(t, r)}

\* Where no install has begun to write, what is there is ours by the runtime
\* on record; and so it is, by the one it installs, where an install wrote.
OwnInv ==
    /\ Installing => \A t \in TARGETS : at > PlaceAt[t] => target[t] \in Ours(t, runtime)
    /\ interrupted = {} /\ (Installing => at = 1) =>
         \A t \in TARGETS : target[t] \in Ours(t, manifest)
    /\ command = "uninstall" =>
         /\ runtime = manifest
         /\ \A f \in INSTRUCTION_FILES : at > StripAt[f] => block[f] = None
         /\ interrupted = {} =>
              /\ \A t \in TARGETS : at > RemoveAt[t] => target[t] \in Left(t)
              /\ \A f \in HOOK_FILES : at > UnhookAt[f] => \A e \in hooks[f] : e.owner = Other

LEMMA InitOwn == Init => OwnInv
BY DEF Init, OwnInv, Installing, Ours, Left, TARGETS

LEMMA StepOwn == TypeInv /\ OwnersInv /\ OwnInv /\ [Next]_vars => OwnInv'
<1> SUFFICES ASSUME TypeInv, OwnersInv, OwnInv, [Next]_vars PROVE OwnInv'
  OBVIOUS
<1> DEFINE
    Written == Installing => \A t \in TARGETS : at > PlaceAt[t] => target[t] \in Ours(t, runtime)
    Settled == interrupted = {} /\ (Installing => at = 1) =>
                 \A t \in TARGETS : target[t] \in Ours(t, manifest)
    Cleared == command = "uninstall" =>
         /\ runtime = manifest
         /\ \A f \in INSTRUCTION_FILES : at > StripAt[f] => block[f] = None
         /\ interrupted = {} =>
              /\ \A t \in TARGETS : at > RemoveAt[t] => target[t] \in Left(t)
              /\ \A f \in HOOK_FILES : at > UnhookAt[f] => \A e \in hooks[f] : e.owner = Other
<1>a. Written /\ Settled /\ Cleared
  BY DEF OwnInv
<1>b. Written' /\ Settled' /\ Cleared' => OwnInv'
  BY DEF OwnInv
<1>0. TypeOK /\ Located /\ hooks \in Documents
  BY DEF TypeInv, TypeOK, Located
<1>w. \A k, x : Doing(k, x) => ~Idle
  BY DEF Doing
\* What is ours depends on the payload, the executables and the platform only.
<1>o. UNCHANGED <<windows, build, payload>> =>
        \A t, r : Left(t)' = Left(t) /\ Source(t, r)' = Source(t, r) /\ Ours(t, r)' = Ours(t, r)
  BY DEF Ours, Left, Leftover, Source
<1>s. Stop => Written' /\ Cleared' /\ ~Installing' /\ UNCHANGED windows
  BY DEF Stop, Installing
\* A step of an install that does not place.
<1>i. ASSUME Installing, at \in 2..9, Advance PROVE OwnInv'
  <2>1. ~Idle /\ command = "install"
    BY <1>i DEF Installing, Idle
  <2>2. command' = "install" /\ at' \in 3..10
    BY <1>0, <1>i, <2>1, Advances
  <2>3. \A t \in TARGETS : ~(at' > PlaceAt[t])
    BY <2>2 DEF PlaceAt, TARGETS, ASSETS, COPIES
  <2>4. QED
    BY <1>b, <2>2, <2>3 DEF Installing
<1>1. ASSUME NEW r \in Runtimes, BeginInstall(r) PROVE OwnInv'
  <2>1. /\ command' = "install" /\ at' = 1 /\ ~Installing
        /\ UNCHANGED <<windows, payload, target, manifest, interrupted>>
    BY <1>1 DEF BeginInstall, Begin, Idle, Installing, installed, counted
  <2>2. \A t \in TARGETS : ~(at' > PlaceAt[t])
    BY <2>1 DEF PlaceAt, TARGETS, ASSETS, COPIES
  <2>3. build \in Nat /\ (build' = build \/ build' = build + 1)
    BY <1>1, <1>0 DEF BeginInstall, CreateRuntime, TypeOK
  <2>4. \A t \in TARGETS : Left(t) \subseteq Left(t)'
    BY <2>1, <2>3 DEF Left, Leftover
  <2>5. ASSUME NEW t \in TARGETS PROVE Ours(t, manifest) \subseteq Ours(t, manifest)'
    <3>1. Source(t, manifest)' = Source(t, manifest) \/ Source(t, manifest) \in Left(t)'
      <4>1. CASE t = "commands" /\ windows /\ manifest = Venv
        <5>1. Source(t, manifest) = build /\ Source(t, manifest)' = build'
          BY <2>1, <4>1 DEF Source, COPIES
        <5>2. ASSUME build' = build + 1 PROVE build \in Left(t)'
          <6>1. build \in 0..(build' - 1)
            BY <2>3, <5>2
          <6>2. windows' /\ t # "skills"
            BY <2>1, <4>1
          <6>3. QED
            BY <4>1, <6>1, <6>2 DEF Left, Leftover
        <5>3. QED
          BY <2>3, <5>1, <5>2
      <4>2. CASE ~(t = "commands" /\ windows /\ manifest = Venv)
        <5>1. CASE t = "commands"
          BY <2>1, <4>2, <5>1 DEF Source, COPIES
        <5>2. CASE t # "commands"
          BY <2>1, <5>2 DEF Source, COPIES, TARGETS, ASSETS
        <5>3. QED
          BY <5>1, <5>2
      <4>3. QED
        BY <4>1, <4>2
    <3>2. QED
      BY <2>4, <3>1 DEF Ours
  <2>6. Settled'
    BY <1>a, <2>1, <2>5
  <2>7. QED
    BY <1>b, <2>1, <2>2, <2>6
<1>2. CASE BeginUninstall
  <2>1. /\ command' = "uninstall" /\ at' = 1 /\ runtime' = manifest /\ ~Installing /\ ~Installing'
        /\ UNCHANGED <<windows, build, payload, target, manifest, interrupted>>
    BY <1>2 DEF BeginUninstall, Begin, Idle, Installing, installed, counted
  <2>2. Settled'
    BY <1>a, <1>o, <2>1
  <2>3. /\ \A f \in INSTRUCTION_FILES : ~(at' > StripAt[f])
        /\ \A f \in HOOK_FILES : ~(at' > UnhookAt[f])
        /\ \A t \in TARGETS : ~(at' > RemoveAt[t])
    BY <2>1 DEF StripAt, UnhookAt, RemoveAt, TARGETS, ASSETS, COPIES, INSTRUCTION_FILES, HOOK_FILES
  <2>4. Written' /\ Cleared'
    BY <2>1, <2>3
  <2>5. QED
    BY <1>b, <2>2, <2>4
<1>3. CASE Plan
  <2>1. command = "install" /\ command' = "install" /\ at' = 2
    BY <1>3, <1>0, Where DEF Plan, Installing
  <2>2. \A t \in TARGETS : ~(at' > PlaceAt[t])
    BY <2>1 DEF PlaceAt, TARGETS, ASSETS, COPIES
  <2>3. QED
    BY <1>b, <2>1, <2>2 DEF Installing
<1>4. CASE Refuse
  <2>1. at = 1 /\ UNCHANGED <<windows, build, payload, target, manifest, interrupted>>
    BY <1>4, <1>0, <1>s, Where DEF Refuse, installed, counted
  <2>2. Settled'
    BY <1>a, <1>o, <2>1
  <2>3. QED
    BY <1>4, <1>b, <1>s, <2>2 DEF Refuse
<1>5. ASSUME NEW a \in ASSETS, UpdatePayload(a) PROVE OwnInv'
  BY <1>5, <1>0, <1>i, Where DEF UpdatePayload, PayloadAt, ASSETS, COPIES
<1>6. CASE Compare
  <2>1. command = "install" /\ command' = "install" /\ at' = 6
    BY <1>6, <1>0, Where DEF Compare, Installing
  <2>2. \A t \in TARGETS : ~(at' > PlaceAt[t])
    BY <2>1 DEF PlaceAt, TARGETS, ASSETS, COPIES
  <2>3. QED
    BY <1>b, <2>1, <2>2 DEF Installing
<1>7. ASSUME NEW f \in INSTRUCTION_FILES, WriteInstructions(f) PROVE OwnInv'
  BY <1>7, <1>0, <1>i, Where DEF WriteInstructions, BlockAt, INSTRUCTION_FILES
<1>8. ASSUME NEW f \in HOOK_FILES, WriteHooks(f) PROVE OwnInv'
  BY <1>8, <1>0, <1>i, Where DEF WriteHooks, HooksAt, HOOK_FILES
<1>9. ASSUME NEW t \in TARGETS, Place(t) PROVE OwnInv'
  <2>1. command = "install" /\ Installing /\ at = PlaceAt[t] /\ at \in 10..13
    BY <1>9, <1>0, Where DEF Place, Installing, PlaceAt, TARGETS, ASSETS, COPIES
  <2>2. command' = "install" /\ at' = at + 1 /\ UNCHANGED <<windows, build, payload, runtime>>
    BY <1>9, <1>0, <1>w, <2>1, Advances DEF Place
  <2>3. \A u \in TARGETS :
          target'[u] = (IF u = t THEN Source(t, runtime) ELSE target[u]) \/ target'[u] = Foreign
    BY <1>9, <1>0 DEF Place, TypeOK
  <2>4. \A u \in TARGETS : u # t /\ at' > PlaceAt[u] => at > PlaceAt[u]
    BY <2>1, <2>2 DEF PlaceAt, TARGETS, ASSETS, COPIES
  <2>5. ASSUME NEW u \in TARGETS, at' > PlaceAt[u] PROVE target'[u] \in Ours(u, runtime)
    <3>1. CASE u = t
      BY <2>3, <3>1 DEF Ours, Left
    <3>2. CASE u # t
      BY <1>a, <2>1, <2>3, <2>4, <2>5, <3>2 DEF Ours, Left
    <3>3. QED
      BY <3>1, <3>2
  <2>6. Written'
    BY <1>o, <2>2, <2>5
  <2>7. QED
    BY <1>b, <2>1, <2>2, <2>6 DEF Installing
<1>10. CASE WriteReceipt
  <2>1. Installing /\ at = 14 /\ command = "install"
    BY <1>10, <1>0, Where DEF WriteReceipt, Installing
  <2>2. Stop /\ manifest' = runtime /\ UNCHANGED <<windows, build, payload, target>>
    BY <1>10, <1>0, <1>s, <1>w, <2>1, Advances DEF WriteReceipt
  <2>3. \A t \in TARGETS : at > PlaceAt[t]
    BY <2>1 DEF PlaceAt, TARGETS, ASSETS, COPIES
  <2>4. Settled'
    BY <1>a, <1>o, <2>1, <2>2, <2>3
  <2>5. QED
    BY <1>b, <1>s, <2>2, <2>4
<1>11. ASSUME NEW t \in TARGETS, Remove(t) PROVE OwnInv'
  <2>1. /\ command = "uninstall" /\ at = RemoveAt[t] /\ at \in 1..4
        /\ ~Installing /\ runtime = manifest
    BY <1>11, <1>0, <1>a, Where DEF Remove, Installing, RemoveAt, TARGETS, ASSETS, COPIES
  <2>2. command' = "uninstall" /\ at' = at + 1 /\ ~Installing'
    BY <1>11, <1>0, <1>w, <2>1, Advances DEF Remove, Installing
  <2>3. UNCHANGED <<windows, build, payload, runtime, block, hooks, manifest, interrupted>>
    BY <1>11, <1>0, <1>w, <2>1, Advances DEF Remove, counted
  <2>4. \A u \in TARGETS : target'[u] = IF u = t /\ Matches(t, runtime) THEN None ELSE target[u]
    BY <1>11, <1>0 DEF Remove, TypeOK
  <2>5. \A u \in TARGETS : u # t /\ at' > RemoveAt[u] => at > RemoveAt[u]
    BY <2>1, <2>2 DEF RemoveAt, TARGETS, ASSETS, COPIES
  <2>6. \A f \in INSTRUCTION_FILES : ~(at' > StripAt[f])
    BY <2>1, <2>2 DEF StripAt, INSTRUCTION_FILES
  <2>7. \A f \in HOOK_FILES : ~(at' > UnhookAt[f])
    BY <2>1, <2>2 DEF UnhookAt, HOOK_FILES
  <2>8. None \in Left(t)
    BY DEF Left
  <2>9. ASSUME interrupted = {}, NEW u \in TARGETS
        PROVE  /\ target'[u] \in Ours(u, manifest)
               /\ at' > RemoveAt[u] => target'[u] \in Left(u)
    <3>1. target[u] \in Ours(u, manifest) /\ (at > RemoveAt[u] => target[u] \in Left(u))
      BY <1>a, <2>1, <2>9
    <3>2. CASE u = t /\ Matches(t, runtime)
      BY <2>4, <2>8, <3>2 DEF Ours
    <3>3. CASE u = t /\ ~Matches(t, runtime)
      BY <2>1, <2>4, <3>1, <3>3 DEF Matches, Ours
    <3>4. CASE u # t
      BY <2>4, <2>5, <3>1, <3>4
    <3>5. QED
      BY <3>2, <3>3, <3>4
  <2>10. Settled'
    BY <1>o, <2>3, <2>9
  <2>11. Cleared'
    BY <1>o, <2>1, <2>3, <2>6, <2>7, <2>9
  <2>12. QED
    BY <1>b, <2>2, <2>10, <2>11
<1>12. ASSUME NEW f \in INSTRUCTION_FILES, Strip(f) PROVE OwnInv'
  <2>1. command = "uninstall" /\ at = StripAt[f] /\ at \in 5..6 /\ ~Installing /\ runtime = manifest
    BY <1>12, <1>0, <1>a, Where DEF Strip, Installing, StripAt, INSTRUCTION_FILES
  <2>2. command' = "uninstall" /\ at' = at + 1 /\ ~Installing'
    BY <1>12, <1>0, <1>w, <2>1, Advances DEF Strip, Installing
  <2>3. UNCHANGED <<windows, build, payload, target, runtime, hooks, manifest, interrupted>>
    BY <1>12, <1>0, <1>w, <2>1, Advances DEF Strip, counted
  <2>4. \A g \in INSTRUCTION_FILES : block'[g] = IF g = f THEN None ELSE block[g]
    BY <1>12, <1>0 DEF Strip, TypeOK
  <2>5. \A g \in INSTRUCTION_FILES : g # f /\ at' > StripAt[g] => at > StripAt[g]
    BY <2>1, <2>2 DEF StripAt, INSTRUCTION_FILES
  <2>6. /\ \A t \in TARGETS : at > RemoveAt[t]
        /\ \A g \in HOOK_FILES : ~(at' > UnhookAt[g])
    BY <2>1, <2>2 DEF RemoveAt, UnhookAt, TARGETS, ASSETS, COPIES, HOOK_FILES
  <2>7. Settled'
    BY <1>a, <1>o, <2>1, <2>3
  <2>8. \A g \in INSTRUCTION_FILES : at' > StripAt[g] => block'[g] = None
    BY <1>a, <2>1, <2>4, <2>5
  <2>9. Cleared'
    BY <1>a, <1>o, <2>1, <2>3, <2>6, <2>8
  <2>10. QED
    BY <1>b, <2>2, <2>7, <2>9
<1>13. ASSUME NEW f \in HOOK_FILES, Unhook(f) PROVE OwnInv'
  <2>1. command = "uninstall" /\ at = UnhookAt[f] /\ at \in 7..8 /\ ~Installing /\ runtime = manifest
    BY <1>13, <1>0, <1>a, Where DEF Unhook, Installing, UnhookAt, HOOK_FILES
  <2>2. UNCHANGED <<windows, build, payload, target, block, manifest, interrupted>> /\ ~Installing'
    BY <1>13, <1>0, <1>s, <1>w, <2>1, Advances DEF Unhook, counted, Installing
  <2>3. Settled'
    BY <1>a, <1>o, <2>1, <2>2
  <2>4. CASE Stop
    BY <1>b, <1>s, <2>3, <2>4
  <2>5. CASE at' = at + 1 /\ UNCHANGED <<command, runtime>>
    <3>1. \A g \in HOOK_FILES : hooks'[g] = IF g = f THEN {e \in hooks[f] : e.owner # runtime} ELSE hooks[g]
      BY <1>13, <1>0 DEF Unhook, Documents, Without, Managed
    <3>2. \A g \in HOOK_FILES : g # f /\ at' > UnhookAt[g] => at > UnhookAt[g]
      BY <2>1, <2>5 DEF UnhookAt, HOOK_FILES
    <3>3. /\ \A t \in TARGETS : at > RemoveAt[t]
          /\ \A g \in INSTRUCTION_FILES : at > StripAt[g]
      BY <2>1 DEF RemoveAt, StripAt, TARGETS, ASSETS, COPIES, INSTRUCTION_FILES
    <3>4. ASSUME interrupted = {}, NEW g \in HOOK_FILES, at' > UnhookAt[g], NEW e \in hooks'[g]
          PROVE  e.owner = Other
      <4>1. CASE g = f
        BY <2>1, <3>1, <3>4, <4>1 DEF OwnersInv, Accounted
      <4>2. CASE g # f
        BY <1>a, <2>1, <3>1, <3>2, <3>4, <4>2
      <4>3. QED
        BY <4>1, <4>2
    <3>5. Cleared'
      BY <1>a, <1>o, <2>1, <2>2, <2>5, <3>3, <3>4
    <3>6. QED
      BY <1>b, <2>2, <2>3, <3>5
  <2>6. QED
    BY <1>13, <1>0, <1>w, <2>1, <2>4, <2>5, Advances DEF Unhook
<1>14. CASE Crash
  <2>1. Stop /\ UNCHANGED <<windows, build, payload, manifest>>
    BY <1>14 DEF Crash, Stop
  <2>2. CASE Installing
    <3>1. interrupted' # {}
      BY <1>14, <2>2 DEF Crash
    <3>2. QED
      BY <1>b, <1>s, <2>1, <3>1
  <2>3. CASE ~Installing
    <3>1. interrupted' = interrupted
      BY <1>14, <2>3 DEF Crash
    <3>2. \A t \in TARGETS :
            target'[t] \in {target[t], None} \/ (windows /\ t = "skills" /\ target'[t] = Partial)
      BY <1>14, <1>0 DEF Crash, Copying, TypeOK
    <3>3. (\A t : None \in Left(t)) /\ (windows => Partial \in Left("skills"))
      BY DEF Left, Leftover
    <3>4. Settled'
      BY <1>a, <1>o, <2>1, <2>3, <3>1, <3>2, <3>3 DEF Ours
    <3>5. QED
      BY <1>b, <1>s, <2>1, <3>4
  <2>4. QED
    BY <2>2, <2>3
<1>15. CASE UpdateCheckout
  BY <1>15, <1>a, <1>b, <1>o DEF UpdateCheckout, installed, run, counted, Installing
<1>16. ASSUME NEW t \in TARGETS, TouchTarget(t) PROVE OwnInv'
  <2>1. UNCHANGED <<windows, build, payload, block, hooks, manifest, command, at, runtime, interrupted>>
    BY <1>16 DEF TouchTarget, Touch
  <2>2. \A u \in TARGETS : target'[u] = target[u] \/ target'[u] \in {Foreign, None}
    BY <1>16, <1>0 DEF TouchTarget, TypeOK
  <2>3. \A u : {Foreign, None} \subseteq Left(u)
    BY DEF Left
  <2>4. Written' /\ Settled'
    BY <1>a, <1>o, <2>1, <2>2, <2>3 DEF Installing, Ours
  <2>5. Cleared'
    BY <1>a, <1>o, <2>1, <2>2, <2>3
  <2>6. QED
    BY <1>b, <2>4, <2>5
<1>17. ASSUME NEW f \in HOOK_FILES, TouchHooks(f) PROVE OwnInv'
  <2>1. UNCHANGED <<windows, build, payload, target, block, manifest, command, at, runtime, interrupted>>
    BY <1>17 DEF TouchHooks, Touch
  <2>2. ASSUME NEW g \in HOOK_FILES, NEW e \in hooks'[g]
        PROVE  e.owner = Other \/ \E b \in hooks[g] : b.owner = e.owner
    BY <1>17, <2>2, TouchedEntries
  <2>3. Written' /\ Settled'
    BY <1>a, <1>o, <2>1 DEF Installing
  <2>4. Cleared'
    BY <1>a, <1>o, <2>1, <2>2
  <2>5. QED
    BY <1>b, <2>3, <2>4
<1>18. CASE UNCHANGED vars
  BY <1>18, <1>a, <1>b, <1>o DEF vars, installed, run, counted, Installing
<1>19. QED
  BY <1>1, <1>2, <1>3, <1>4, <1>5, <1>6, <1>7, <1>8, <1>9, <1>10, <1>11, <1>12, <1>13,
     <1>14, <1>15, <1>16, <1>17, <1>18 DEF Next

LEMMA Own == Spec => []OwnInv
BY Typed, Owners, InitOwn, StepOwn, PTL DEF Spec

(* UninstallLeavesNothing: an uninstall that completes, with no install     *)
(* left interrupted, has removed whatever was the harness's.                *)
THEOREM UninstallComplete == Spec => UninstallLeavesNothing
<1>1. TypeInv /\ OwnersInv /\ OwnInv /\ [Next]_vars =>
        [Completes /\ command = "uninstall" /\ interrupted = {} =>
           /\ \A t \in TARGETS : target'[t] \in {None, Foreign} \cup Leftover(t)
           /\ \A f \in INSTRUCTION_FILES : block'[f] = None
           /\ \A f \in HOOK_FILES : \A e \in hooks'[f] : e.owner = Other]_vars
  <2>1. SUFFICES ASSUME TypeInv, OwnersInv, OwnInv, [Next]_vars,
                        Completes, command = "uninstall", interrupted = {}
                 PROVE  /\ \A t \in TARGETS : target'[t] \in Left(t)
                        /\ \A f \in INSTRUCTION_FILES : block'[f] = None
                        /\ \A f \in HOOK_FILES : \A e \in hooks'[f] : e.owner = Other
    BY DEF Left
  <2>2. Unhook("codex_hooks") /\ ~Installing
    BY <2>1, LastStep DEF Installing
  <2>3. Located /\ hooks \in Documents
    BY <2>1 DEF TypeInv, TypeOK, Located
  <2>4. at = 8 /\ UNCHANGED <<target, block>>
    BY <2>2, <2>3, Where DEF Unhook, UnhookAt, HOOK_FILES
  <2>5. /\ \A t \in TARGETS : target[t] \in Left(t)
        /\ \A f \in INSTRUCTION_FILES : block[f] = None
        /\ \A e \in hooks["claude_hooks"] : e.owner = Other
    BY <2>1, <2>4 DEF OwnInv, RemoveAt, StripAt, UnhookAt, TARGETS, ASSETS, COPIES,
         INSTRUCTION_FILES, HOOK_FILES
  <2>6. /\ hooks'["claude_hooks"] = hooks["claude_hooks"]
        /\ hooks'["codex_hooks"] = {e \in hooks["codex_hooks"] : e.owner # runtime}
    BY <2>2, <2>3 DEF Unhook, Documents, Without, Managed, HOOK_FILES
  <2>7. \A e \in hooks["codex_hooks"] : e.owner = Other \/ e.owner = runtime
    BY <2>1, <2>2 DEF OwnersInv, Accounted, OwnInv, HOOK_FILES
  <2>8. QED
    BY <2>4, <2>5, <2>6, <2>7 DEF HOOK_FILES
<1>2. QED
  BY <1>1, Typed, Owners, Own, PTL DEF Spec, UninstallLeavesNothing
=============================================================================

------------------------------ MODULE Installer ------------------------------
(***************************************************************************)
(* scripts/install_pc.py: install and uninstall as the sequence of file    *)
(* steps they are, with a crash between any two, people who touch the      *)
(* installed files at any time, checkouts that move on and runtimes that   *)
(* move.  There is one installer at a time.                                *)
(*                                                                         *)
(* The eight links to skills are one target here, and so are the links to  *)
(* the commands of the runtime; the two reviewer definitions are regular   *)
(* files with the text of their payload.  On Windows all of them are       *)
(* copies, and a directory is copied and removed file by file.  A hook     *)
(* file has one managed entry per event, all written together: one entry   *)
(* stands for them.                                                        *)
(***************************************************************************)
EXTENDS Integers, Sequences

CONSTANTS Runtimes,   \* directories of executables
          Venv,       \* the one below install_root, which install builds itself
          None,
          Foreign,    \* what a person made of a file: not ours, or no longer
          Payload,    \* a link into the payload
          Partial,    \* a directory of which a part was copied or removed
          Other,      \* the owner of other people's hook entries
          VERSIONS,   \* bound: how far the checkout moves
          BUILDS,     \* bound: how often pip writes other executables
          CRASHES,    \* bound: runs that are interrupted
          EDITS       \* bound: steps of the person

ASSUME InstallerAssumption ==
    /\ Venv \in Runtimes
    /\ Foreign \notin {None, Payload, Partial} \cup Runtimes \cup Nat
    /\ None \notin {Payload, Partial, Other} \cup Runtimes \cup Nat
    /\ Partial \notin {Payload} \cup Runtimes \cup Nat
    /\ Other \notin Runtimes
    /\ VERSIONS \in Nat \ {0} /\ BUILDS \in Nat \ {0} /\ CRASHES \in Nat /\ EDITS \in Nat

VARIABLES windows,     \* os.name == "nt"
          checkout,    \* the version of ROOT's skills, reviewers and template
          build,       \* the bytes of the executables in Venv, by number; 0 before any
          payload,     \* asset -> the version under install_root, or None
          target,      \* where clients look -> what is there, or None
          block,       \* instruction file -> runtime and version of its block
          hooks,       \* hook file -> its entries
          manifest,    \* runtime_bin of manifest.json, or None
          command,     \* the run: "install", "uninstall" or "none"
          at,          \* which of its steps comes next
          runtime,     \* its runtime_bin
          wanted,      \* hook file -> the document _expected_state built
          changed,     \* settings_changed, codex_changed
          touched,     \* what the person changed since the run's preflight
          interrupted, \* runtimes with an install begun and never completed
          crashes, edits

installed == <<payload, target, block, hooks, manifest>>
run == <<command, at, runtime, wanted, changed, touched>>
counted == <<interrupted, crashes, edits>>
vars == <<windows, checkout, build, installed, run, counted>>

-----------------------------------------------------------------------------
(* Files *)

\* _requires_copy
COPIES == {"codex_agent", "claude_agent"}
ASSETS == {"skills"} \cup COPIES
TARGETS == ASSETS \cup {"commands"}
INSTRUCTION_FILES == {"codex_md", "claude_md"}
HOOK_FILES == {"claude_hooks", "codex_hooks"}

Entry(owner, edited) == [owner |-> owner, edited |-> edited]

\* _targets: what a target is a link to, or a copy of.  Copies are compared by
\* what they contain, and nobody but the installer writes executables.
Source(t, r) == CASE t = "commands" -> IF windows /\ r = Venv THEN build ELSE r
                  [] t \in COPIES \/ (t = "skills" /\ windows) -> payload[t]
                  [] t = "skills" /\ ~windows -> Payload

(* Mutant: a reviewer definition that is there is taken for ours. *)
MatchesCopies(t, r) == target[t] = Source(t, r) \/ t \in COPIES

\* _target_matches
Matches(t, r) == target[t] = Source(t, r)

\* _preflight_targets
NoConflict(r) == \A t \in TARGETS : target[t] # None => Matches(t, r)

(* Mutant: an entry counts as managed only as it was written. *)
ManagedUnedited(e, runtimes) == e.owner \in runtimes /\ ~e.edited

\* _is_managed_hook: by the command it runs, whatever else was edited.
Managed(e, runtimes) == e.owner \in runtimes

\* _without_managed_hooks
Without(document, runtimes) == {e \in document : ~Managed(e, runtimes)}

(* Mutant: entries of the runtime before this one are left. *)
WithoutOwn(document, r) == Without(document, {r}) \cup {Entry(r, FALSE)}

\* _with_managed_hooks
With(document, r) == Without(document, {manifest, r}) \cup {Entry(r, FALSE)}

\* check finds no drift.
InSync(r) ==
    /\ manifest # None
    /\ \A a \in ASSETS : payload[a] = checkout
    /\ \A t \in TARGETS : Matches(t, r)
    /\ \A f \in INSTRUCTION_FILES : block[f] = <<r, checkout>>
    /\ \A f \in HOOK_FILES : {e \in hooks[f] : Managed(e, {r})} = {Entry(r, FALSE)}

-----------------------------------------------------------------------------
(* The steps of a run, in their order *)

INSTALL == <<
    <<"plan", "documents">>,
    <<"payload", "skills">>, <<"payload", "codex_agent">>, <<"payload", "claude_agent">>,
    <<"compare", "documents">>,
    <<"instructions", "codex_md">>, <<"instructions", "claude_md">>,
    <<"hooks", "claude_hooks">>, <<"hooks", "codex_hooks">>,
    <<"place", "skills">>, <<"place", "codex_agent">>, <<"place", "claude_agent">>,
    <<"place", "commands">>,
    <<"receipt", "manifest">> >>

UNINSTALL == <<
    <<"remove", "skills">>, <<"remove", "codex_agent">>, <<"remove", "claude_agent">>,
    <<"remove", "commands">>,
    <<"strip", "codex_md">>, <<"strip", "claude_md">>,
    <<"unhook", "claude_hooks">>, <<"unhook", "codex_hooks">> >>

Idle       == command = "none"
Installing == command = "install"
STEPS == [install |-> INSTALL, uninstall |-> UNINSTALL]
Doing(kind, item) == ~Idle /\ STEPS[command][at] = <<kind, item>>

NoDocuments == [f \in HOOK_FILES |-> {}]

Init ==
    /\ windows \in BOOLEAN
    /\ checkout = 1 /\ build = 0
    /\ payload = [a \in ASSETS |-> None]
    /\ target = [t \in TARGETS |-> None]
    /\ block = [f \in INSTRUCTION_FILES |-> None]
    /\ hooks = NoDocuments
    /\ manifest = None
    /\ command = "none" /\ at = 0 /\ runtime = None
    /\ wanted = NoDocuments /\ changed = {}
    /\ touched = {} /\ interrupted = {}
    /\ crashes = 0 /\ edits = 0

Begin(c, r) ==
    /\ Idle
    /\ command' = c /\ at' = 1 /\ runtime' = r
    /\ UNCHANGED <<windows, checkout, installed, wanted, changed, touched, counted>>

\* The process is gone, and what it knew.
Stop ==
    /\ command' = "none" /\ at' = 0 /\ runtime' = None
    /\ wanted' = NoDocuments /\ changed' = {} /\ touched' = {}
    /\ UNCHANGED <<windows, checkout>>

\* The run takes its next step, or ends after the last.
Advance ==
    IF at < Len(STEPS[command])
    THEN at' = at + 1 /\ UNCHANGED <<windows, checkout, command, runtime, wanted, changed, touched>>
    ELSE Stop

\* _create_runtime: pip writes the executables of Venv anew, and on Windows
\* their launchers hold the time of it; or it fails before it does.
CreateRuntime(r) ==
    \/ UNCHANGED build
    \/ r = Venv /\ build < BUILDS /\ build' = build + 1

\* main: the preflight before the runtime is created, and its creation.
BeginInstall(r) == NoConflict(r) /\ Begin("install", r) /\ CreateRuntime(r)

\* uninstall reads the runtime of the manifest; without one the commands are
\* no targets.
BeginUninstall == Begin("uninstall", manifest) /\ UNCHANGED build

\* _expected_state: the executables are there.
Executable(r) == r = Venv => build # 0

\* install: the hook documents are built, and the preflight is repeated.
Plan ==
    /\ Doing("plan", "documents") /\ Executable(runtime) /\ NoConflict(runtime)
    /\ wanted' = [f \in HOOK_FILES |-> With(hooks[f], runtime)]
    /\ touched' = {}
    /\ at' = at + 1
    /\ UNCHANGED <<windows, checkout, build, installed, command, runtime, changed, counted>>

\* No executables, or a conflict since the first preflight: a person's, or the
\* executables that have just been written are not those that were copied.
Refuse ==
    /\ Doing("plan", "documents") /\ ~(Executable(runtime) /\ NoConflict(runtime))
    /\ Stop
    /\ UNCHANGED <<build, installed, counted>>

UpdatePayload(a) ==
    /\ Doing("payload", a)
    /\ payload' = [payload EXCEPT ![a] = checkout]
    /\ Advance
    /\ UNCHANGED <<build, target, block, hooks, manifest, counted>>

\* What is to be written is settled before the first write: a hook file that
\* is as planned now is passed over, whatever becomes of it.
Compare ==
    /\ Doing("compare", "documents")
    /\ changed' = {f \in HOOK_FILES : hooks[f] # wanted[f]}
    /\ at' = at + 1
    /\ UNCHANGED <<windows, checkout, build, installed, command, runtime, wanted, touched, counted>>

\* _managed_instructions
WriteInstructions(f) ==
    /\ Doing("instructions", f)
    /\ block' = [block EXCEPT ![f] = <<runtime, checkout>>]
    /\ Advance
    /\ UNCHANGED <<build, payload, target, hooks, manifest, counted>>

\* The document as it was planned, whatever the file has become since.
WriteHooks(f) ==
    /\ Doing("hooks", f)
    /\ hooks' = IF f \in changed THEN [hooks EXCEPT ![f] = wanted[f]] ELSE hooks
    /\ Advance
    /\ UNCHANGED <<build, payload, target, block, manifest, counted>>

(* Mutant: a copy that is there is left as it is. *)
PlaceMissing(t) ==
    /\ Doing("place", t)
    /\ target' = IF target[t] # None THEN target ELSE [target EXCEPT ![t] = Source(t, runtime)]
    /\ Advance
    /\ UNCHANGED <<build, payload, block, hooks, manifest, counted>>

\* _install_link; on Windows, a directory to which a person since the preflight
\* only added files is left as it is.
Place(t) ==
    /\ Doing("place", t)
    /\ \/ target' = [target EXCEPT ![t] = Source(t, runtime)]
       \/ windows /\ t = "skills" /\ target[t] = Foreign /\ UNCHANGED target
    /\ Advance
    /\ UNCHANGED <<build, payload, block, hooks, manifest, counted>>

WriteReceipt ==
    /\ Doing("receipt", "manifest")
    /\ manifest' = runtime
    /\ interrupted' = interrupted \ {runtime}
    /\ Advance
    /\ UNCHANGED <<build, payload, target, block, hooks, crashes, edits>>

Remove(t) ==
    /\ Doing("remove", t)
    /\ target' = IF Matches(t, runtime) THEN [target EXCEPT ![t] = None] ELSE target
    /\ Advance
    /\ UNCHANGED <<build, payload, block, hooks, manifest, counted>>

\* _without_managed_instructions
Strip(f) ==
    /\ Doing("strip", f)
    /\ block' = [block EXCEPT ![f] = None]
    /\ Advance
    /\ UNCHANGED <<build, payload, target, hooks, manifest, counted>>

(* Mutant: one hook file is forgotten. *)
UnhookClaude(f) ==
    /\ Doing("unhook", f)
    /\ hooks' = IF f = "claude_hooks" THEN [hooks EXCEPT ![f] = Without(@, {runtime})] ELSE hooks
    /\ Advance
    /\ UNCHANGED <<build, payload, target, block, manifest, counted>>

Unhook(f) ==
    /\ Doing("unhook", f)
    /\ hooks' = [hooks EXCEPT ![f] = Without(@, {runtime})]
    /\ Advance
    /\ UNCHANGED <<build, payload, target, block, manifest, counted>>

\* Whether the next step is shutil.rmtree or shutil.copytree of a skill.
Copying == windows /\ \/ Doing("place", "skills") /\ ~Matches("skills", runtime)
                      \/ Doing("remove", "skills") /\ Matches("skills", runtime)

\* A run is killed, or a call of the operating system fails, which only a
\* directory of Windows shows.
Crash ==
    /\ ~Idle /\ crashes < CRASHES
    /\ crashes' = crashes + 1
    /\ interrupted' = IF Installing THEN interrupted \cup {runtime} ELSE interrupted
    /\ \/ target' = target
       \/ Copying /\ target' = [target EXCEPT !["skills"] = Partial]
       \/ Copying /\ target' = [target EXCEPT !["skills"] = None]
    /\ Stop
    /\ UNCHANGED <<build, payload, block, hooks, manifest, edits>>

\* git pull in the checkout.
UpdateCheckout ==
    /\ Idle /\ checkout < VERSIONS
    /\ checkout' = checkout + 1
    /\ UNCHANGED <<windows, build, installed, run, counted>>

\* A step of the person, which matters to a run only while there is one.
Touch(x) ==
    /\ edits < EDITS
    /\ edits' = edits + 1
    /\ touched' = IF Idle THEN touched ELSE touched \cup {x}
    /\ UNCHANGED <<windows, checkout, build, payload, block, manifest, command, at, runtime, wanted,
                   changed, interrupted, crashes>>

\* A person replaces or edits what is at a target, or removes it.
TouchTarget(t) ==
    /\ \E c \in {Foreign, None} \ {target[t]} : target' = [target EXCEPT ![t] = c]
    /\ UNCHANGED hooks
    /\ Touch(t)

\* A person, or another tool, adds an entry or edits one of ours.
TouchHooks(f) ==
    /\ \/ hooks' = [hooks EXCEPT ![f] = @ \cup {Entry(Other, FALSE)}]
       \/ \E e \in hooks[f] :
             hooks' = [hooks EXCEPT ![f] = (@ \ {e}) \cup {Entry(e.owner, TRUE)}]
    /\ hooks' # hooks
    /\ UNCHANGED target
    /\ Touch(f)

Next ==
    \/ \E r \in Runtimes : BeginInstall(r)
    \/ Plan \/ Refuse \/ Compare \/ WriteReceipt \/ BeginUninstall \/ Crash \/ UpdateCheckout
    \/ \E a \in ASSETS : UpdatePayload(a)
    \/ \E f \in INSTRUCTION_FILES : WriteInstructions(f) \/ Strip(f)
    \/ \E f \in HOOK_FILES : WriteHooks(f) \/ Unhook(f) \/ TouchHooks(f)
    \/ \E t \in TARGETS : Place(t) \/ Remove(t) \/ TouchTarget(t)

Spec == Init /\ [][Next]_vars

-----------------------------------------------------------------------------
(* Properties *)

Contents == ({None, Foreign, Payload, Partial} \cup Runtimes) \cup Nat
Documents == [HOOK_FILES -> SUBSET [owner : {Other} \cup Runtimes, edited : BOOLEAN]]

(* Types; and a hook file never has two entries of one runtime, so that no  *)
(* hook runs twice, even after one was edited (_is_managed_hook).           *)
TypeOK ==
    /\ windows \in BOOLEAN /\ checkout \in 1..VERSIONS /\ build \in 0..BUILDS
    /\ payload \in [ASSETS -> {None} \cup 1..VERSIONS]
    /\ target \in [TARGETS -> Contents]
    /\ block \in [INSTRUCTION_FILES -> {None} \cup (Runtimes \X (1..VERSIONS))]
    /\ hooks \in Documents /\ wanted \in Documents
    /\ \A f \in HOOK_FILES : \A d, e \in hooks[f] : d.owner = e.owner /\ d.owner # Other => d = e
    /\ manifest \in {None} \cup Runtimes /\ runtime \in {None} \cup Runtimes
    /\ \/ command = "none" /\ at = 0
       \/ command = "install" /\ at \in 1..14 /\ runtime \in Runtimes
       \/ command = "uninstall" /\ at \in 1..8
    /\ changed \subseteq HOOK_FILES /\ touched \subseteq TARGETS \cup HOOK_FILES
    /\ interrupted \subseteq Runtimes
    /\ crashes \in 0..CRASHES /\ edits \in 0..EDITS

Completes == ~Idle /\ command' = "none" /\ at = Len(STEPS[command]) /\ crashes' = crashes

(* Whatever earlier runs left half done, whichever runtime and version they *)
(* were of: an install that completes leaves nothing --check would call     *)
(* drift, unless somebody interfered after its preflight.                   *)
CompletedIsInSync ==
    [][\A r \in Runtimes :
         Completes /\ Installing /\ runtime = r /\ touched = {} => InSync(r)']_vars

(* "It never replaces an unmanaged same-name skill or reviewer", nor does   *)
(* --uninstall remove a reviewer somebody edited, nor another tool's hooks: *)
(* what a person left somewhere stays, unless it appeared between the       *)
(* preflight and the write.                                                 *)
ForeignStays ==
    [][edits' = edits =>
         /\ \A t \in TARGETS \ touched : target[t] = Foreign => target'[t] = Foreign
         /\ \A f \in HOOK_FILES \ touched :
              {e \in hooks[f] : e.owner = Other} \subseteq hooks'[f]]_vars

(* A repeated install "retires an entry left by a runtime that has since    *)
(* moved": every entry of ours is of the runtime on record, of the install  *)
(* that runs, or of one that was interrupted and never completed.           *)
HooksAccountedFor ==
    \A f \in HOOK_FILES : \A e \in hooks[f] :
        \/ e.owner \in {Other, manifest} \cup interrupted
        \/ Installing /\ e.owner = runtime

(* --uninstall, once it completes, leaves no link, reviewer, block or hook  *)
(* of the harness, after any history of installs, moves and removals in     *)
(* which every interrupted install was completed later on; except, on       *)
(* Windows, for what is left of a directory whose removal was interrupted,  *)
(* and for copies of executables that were written anew since.              *)
Leftover(t) ==
    CASE windows /\ t = "skills"   -> {Partial}
      [] windows /\ t = "commands" -> 0..(build - 1)
      [] OTHER                     -> {}

UninstallLeavesNothing ==
    [][Completes /\ command = "uninstall" /\ interrupted = {} =>
         /\ \A t \in TARGETS : target'[t] \in {None, Foreign} \cup Leftover(t)
         /\ \A f \in INSTRUCTION_FILES : block'[f] = None
         /\ \A f \in HOOK_FILES : \A e \in hooks'[f] : e.owner = Other]_vars

-----------------------------------------------------------------------------
(* What the documentation says and the code does not do *)

(* "Re-run the install command after updating this checkout": the files the *)
(* installer wrote itself are no conflict for its next run, where only the  *)
(* reviewers are copies.                                                    *)
OwnFilesNoConflict ==
    \A r \in Runtimes : Idle /\ ~windows /\ (\A t \in TARGETS : target[t] # Foreign) => NoConflict(r)
=============================================================================

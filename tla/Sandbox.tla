------------------------------ MODULE Sandbox ------------------------------
(***************************************************************************)
(* The sandbox of evolva/agent/sandbox.py: a command or a piece of Python  *)
(* runs between a snapshot of the files under the snapshot roots and, when *)
(* it fails, the restoration of that snapshot. The file tools write        *)
(* between commands.                                                       *)
(*                                                                         *)
(* A file is Absent or has one of a few contents; its size is fixed. What  *)
(* a command does is any sequence of writes and deletions its backend      *)
(* allows. A timeout kills the process that was started and nothing else:  *)
(* a process it started, or a container, may go on writing.                *)
(***************************************************************************)
EXTENDS Integers, FiniteSets, FiniteSetsExt

CONSTANTS
  SbPaths,       \* files under the sandbox root
  SbWritable,    \* those under the writable roots
  SbRooted,      \* those under the snapshot roots
  SbIgnored,     \* those with a part in SNAPSHOT_IGNORE_DIRS
  SbSize,        \* [SbPaths -> Nat]
  SbMaxBytes,    \* max_snapshot_bytes
  SbContents,    \* what a file may hold
  SbAbsent,      \* no file
  SbBackends,    \* the backends a run of the model may have
  SbMaxCommands  \* bound: commands

ASSUME SbAssumption ==
  /\ SbWritable \subseteq SbPaths /\ SbRooted \subseteq SbPaths
  /\ SbIgnored \subseteq SbPaths
  /\ SbSize \in [SbPaths -> Nat] /\ SbMaxBytes \in Nat
  /\ SbAbsent \notin SbContents
  /\ SbBackends \subseteq {"local", "docker"}
  /\ SbMaxCommands \in Nat

VARIABLES
  sbFiles,    \* [SbPaths -> contents or SbAbsent]
  sbBackend,  \* chosen by build_backend, never changed
  sbPc,       \* "idle", "running", "failed" or "removed" (half restored)
  sbSaved,    \* paths the snapshot holds
  sbBefore,   \* all files when the command started, what is in it for sbSaved
  sbRolled,   \* the last thing that happened was a complete rollback
  sbLeft,     \* a process outlived its command
  sbTouched,  \* paths processes wrote since the last command started
  sbCommands  \* commands started

sbVars == <<sbFiles, sbBackend, sbPc, sbSaved, sbBefore, sbRolled, sbLeft, sbTouched, sbCommands>>

SbState == [SbPaths -> SbContents \cup {SbAbsent}]

SbTypeOK ==
  /\ sbFiles \in SbState /\ sbBefore \in SbState
  /\ sbBackend \in SbBackends
  /\ sbPc \in {"idle", "running", "failed", "removed"}
  /\ sbSaved \subseteq SbRooted \ SbIgnored
  /\ sbRolled \in BOOLEAN /\ sbLeft \in BOOLEAN /\ sbTouched \subseteq SbPaths
  /\ sbCommands \in 0 .. SbMaxCommands

SbInit ==
  /\ \E c \in SbContents : sbFiles \in [SbPaths -> {c, SbAbsent}]
  /\ sbBackend \in SbBackends
  /\ sbPc = "idle" /\ sbSaved = {} /\ sbBefore = sbFiles
  /\ sbRolled = FALSE /\ sbLeft = FALSE /\ sbTouched = {} /\ sbCommands = 0

SbExisting(files) == {p \in SbPaths : files[p] # SbAbsent}
SbBytes(paths) == MapThenSumSet(LAMBDA p : SbSize[p], paths)

\* The sets snapshot() may end up with: rglob yields the files in any order
\* and a file is skipped when it no longer fits.
SbSnapshots(files) ==
  LET seen == (SbExisting(files) \cap SbRooted) \ SbIgnored
  IN  {S \in SUBSET seen :
         /\ SbBytes(S) <= SbMaxBytes
         /\ \A p \in seen \ S : SbBytes(S) + SbSize[p] > SbMaxBytes}

\* What a process may write: a container sees the root read-only but for the
\* writable roots, a local process is not confined.
SbMayWrite == IF sbBackend = "docker" THEN SbWritable ELSE SbPaths

SbPut(p, c) == sbFiles' = [sbFiles EXCEPT ![p] = c]

-----------------------------------------------------------------------------

\* write_file asks for a writable path, apply_patch only for one under the root.
SbFileTool(tool, p, c) ==
  /\ sbPc = "idle"
  /\ tool = "write_file" => p \in SbWritable
  /\ tool = "apply_patch" => sbFiles[p] # SbAbsent
  /\ SbPut(p, c)
  /\ sbRolled' = FALSE
  /\ UNCHANGED <<sbBackend, sbPc, sbSaved, sbBefore, sbLeft, sbTouched, sbCommands>>

\* Requests a shell command may be: only a plain one reaches the backend.
SbRequests == {"python", "plain", "dangerous", "control", "outside"}
SbAccepted(request) == request \in {"python", "plain"}

SbStart(request) ==
  /\ sbPc = "idle"
  /\ sbCommands < SbMaxCommands
  /\ SbAccepted(request)
  /\ sbSaved' \in SbSnapshots(sbFiles)
  /\ sbBefore' = sbFiles
  /\ sbPc' = "running"
  /\ sbRolled' = FALSE
  /\ sbTouched' = {}
  /\ sbCommands' = sbCommands + 1
  /\ UNCHANGED <<sbFiles, sbBackend, sbLeft>>

\* The command, or a process that outlived an earlier one, writes or deletes.
SbProcessWrites(p, c) ==
  /\ sbPc = "running" \/ sbLeft
  /\ p \in SbMayWrite
  /\ SbPut(p, c)
  /\ sbTouched' = sbTouched \cup {p}
  /\ UNCHANGED <<sbBackend, sbPc, sbSaved, sbBefore, sbRolled, sbLeft, sbCommands>>

SbSucceed ==
  /\ sbPc = "running"
  /\ sbPc' = "idle"
  /\ UNCHANGED <<sbFiles, sbBackend, sbSaved, sbBefore, sbRolled, sbLeft, sbTouched, sbCommands>>

\* A nonzero exit, or the timeout, which may leave a process behind.
SbFail(left) ==
  /\ sbPc = "running"
  /\ sbPc' = "failed"
  /\ sbLeft' = (sbLeft \/ left)
  /\ UNCHANGED <<sbFiles, sbBackend, sbSaved, sbBefore, sbRolled, sbTouched, sbCommands>>

\* Mutant: only the files snapshot() skipped for their size are deleted.
SbRemoveSkipped ==
  /\ sbPc = "failed"
  /\ sbFiles' = [p \in SbPaths |-> IF p \in SbExisting(sbBefore) \ sbSaved THEN SbAbsent ELSE sbFiles[p]]
  /\ sbPc' = "removed"
  /\ UNCHANGED <<sbBackend, sbSaved, sbBefore, sbRolled, sbLeft, sbTouched, sbCommands>>

\* restore: first every file under the roots that the snapshot does not hold
\* is deleted, whatever the reason it does not hold it, ...
SbRemoveUnknown ==
  /\ sbPc = "failed"
  /\ sbFiles' = [p \in SbPaths |-> IF p \in SbRooted \ sbSaved THEN SbAbsent ELSE sbFiles[p]]
  /\ sbPc' = "removed"
  /\ UNCHANGED <<sbBackend, sbSaved, sbBefore, sbRolled, sbLeft, sbTouched, sbCommands>>

\* ... then what it holds is written back.
SbWriteBack ==
  /\ sbPc = "removed"
  /\ sbFiles' = [p \in SbPaths |-> IF p \in sbSaved THEN sbBefore[p] ELSE sbFiles[p]]
  /\ sbPc' = "idle"
  /\ sbRolled' = TRUE
  /\ UNCHANGED <<sbBackend, sbSaved, sbBefore, sbLeft, sbTouched, sbCommands>>

SbNext ==
  \/ \E p \in SbPaths, c \in SbContents :
       \E tool \in {"write_file", "apply_patch"} : SbFileTool(tool, p, c)
  \/ \E request \in SbRequests : SbStart(request)
  \/ \E p \in SbPaths, c \in SbContents \cup {SbAbsent} : SbProcessWrites(p, c)
  \/ SbSucceed
  \/ \E left \in BOOLEAN : SbFail(left)
  \/ SbRemoveUnknown
  \/ SbWriteBack

SbSpec == SbInit /\ [][SbNext]_sbVars

-----------------------------------------------------------------------------

\* A complete rollback undoes what the command did to every file the snapshot
\* holds and removes every file under the roots that the command made, unless
\* a process that outlived its command is still writing.
RollbackUndoes ==
  sbRolled /\ ~sbLeft =>
    \A p \in SbRooted : p \in sbSaved \/ sbBefore[p] = SbAbsent => sbFiles[p] = sbBefore[p]

\* Failed shell and Python executions restore the files under the snapshot
\* roots, a skipped file is at worst left alone: after the rollback a file the
\* command never touched is as it was.
RollbackKeepsFiles ==
  sbRolled /\ ~sbLeft => \A p \in SbRooted \ sbTouched : sbFiles[p] = sbBefore[p]
=============================================================================

------------------------------ MODULE Stores ------------------------------
(***************************************************************************)
(* The state files (evolva/storage.py) under several threads and programs: *)
(* JSON files read, changed and replaced under a lock (sessions, context,  *)
(* todo list), and JSON lines appended under the lock but rewritten from   *)
(* what was read before it was taken (memory, metrics, artifacts); the     *)
(* policy audit is only appended to.                                       *)
(*                                                                         *)
(* One file is modelled; Init chooses which. A record is the number of its *)
(* addition and whether it was closed: a todo done, a memory rolled back.  *)
(* A replacement is atomic, a crash in the middle of an append may leave   *)
(* part of a line, and of a character: the file cannot be decoded then and *)
(* the next reader puts it aside as corrupt.                               *)
(***************************************************************************)
EXTENDS Integers, Sequences, SequencesExt

CONSTANTS
  StProcs,     \* threads, of one or of several programs
  StNobody,    \* holds no lock
  StMaxKept,   \* max_items of the context, retention of metrics and artifacts
  StPruneEvery, \* metrics a program records between two prunes
  StMaxAdds    \* bound: records added

ASSUME StAssumption ==
  /\ StNobody \notin StProcs
  /\ StMaxKept \in Nat \ {0} /\ StPruneEvery \in Nat \ {0} /\ StMaxAdds \in Nat

StUpdated  == {"session", "context", "todo"}             \* JSON
StAppended == {"memory", "metrics", "artifacts", "audit"} \* JSON lines

VARIABLES
  stKind,    \* which file this is, never changed
  stFile,    \* its records
  stTorn,    \* its last line is incomplete
  stGarbled, \* it holds a part of a character
  stLock,    \* holder of the lock next to it
  stProc,    \* [StProcs -> the operation in progress]
  stAdded,   \* records added so far, numbered from 1
  stClosed,  \* numbers of records whose closing was reported
  stRemoved, \* numbers of records trimmed, pruned, cleared or put aside
  stExposed  \* numbers of records changed while somebody was about to rewrite
             \* what it had read before, or swallowed by an incomplete line

stContent == <<stFile, stTorn, stGarbled>>
stVars == <<stKind, stContent, stLock, stProc, stAdded, stClosed, stRemoved, stExposed>>

StNumbers == 1 .. StMaxAdds
StRecord == [number : StNumbers, closed : BOOLEAN]
StOps == {"add", "close", "clear", "prune"}
StOperation == [pc : {"idle", "update", "read", "rewrite"}, op : StOps,
                target : Nat, read : Seq(StRecord), writes : 0 .. StPruneEvery]

StTypeOK ==
  /\ stKind \in StUpdated \cup StAppended
  /\ stFile \in Seq(StRecord) /\ stTorn \in BOOLEAN /\ stGarbled \in BOOLEAN
  /\ stLock \in StProcs \cup {StNobody}
  /\ stProc \in [StProcs -> StOperation]
  /\ stAdded \in 0 .. StMaxAdds
  /\ stClosed \subseteq StNumbers /\ stRemoved \subseteq StNumbers /\ stExposed \subseteq StNumbers

StIdle(writes) == [pc |-> "idle", op |-> "add", target |-> 0, read |-> << >>, writes |-> writes]

StInit ==
  /\ stKind \in StUpdated \cup StAppended
  /\ stFile = << >> /\ stTorn = FALSE /\ stGarbled = FALSE /\ stLock = StNobody
  /\ stProc = [p \in StProcs |-> StIdle(0)]
  /\ stAdded = 0 /\ stClosed = {} /\ stRemoved = {} /\ stExposed = {}

-----------------------------------------------------------------------------
(* What an operation makes of the records it read *)

Numbers(records) == {r.number : r \in ToSet(records)}
NewRecord == [number |-> stAdded + 1, closed |-> FALSE]
LastKept(records) == SubSeq(records, Len(records) - StMaxKept + 1, Len(records))
Trimmed(records) == IF Len(records) > StMaxKept THEN LastKept(records) ELSE records

SessionAppended(records) == Append(records, NewRecord)
ContextAdded(records) == Trimmed(Append(records, NewRecord))
TodoAdded(records) == Append(records, NewRecord)
TodoCleared(records) ==
  FoldLeft(LAMBDA open, r : IF r.closed THEN open ELSE Append(open, r), << >>, records)
Pruned(records) == Trimmed(records)
ItemClosed(records, n) ==
  [i \in DOMAIN records |-> IF records[i].number = n THEN [records[i] EXCEPT !.closed = TRUE]
                                                     ELSE records[i]]

StResult(operation) ==
  CASE operation.op = "add" /\ stKind = "session" -> SessionAppended(operation.read)
    [] operation.op = "add" /\ stKind = "context" -> ContextAdded(operation.read)
    [] operation.op = "add" /\ stKind = "todo"    -> TodoAdded(operation.read)
    [] operation.op = "close" -> ItemClosed(operation.read, operation.target)
    [] operation.op = "clear" -> TodoCleared(operation.read)
    [] operation.op = "prune" -> Pruned(operation.read)

\* Some other thread has read the records and is about to write them back.
Overlapped(p) == \E q \in StProcs \ {p} : stProc[q].pc = "rewrite"

\* file_lock: one thread of one program at a time.
LockFree == stLock = StNobody

StSet(p, operation) == stProc' = [stProc EXCEPT ![p] = operation]

-----------------------------------------------------------------------------
(* JSON files: atomic_update_json *)

StOffers(op) ==
  \/ op = "add" /\ stKind \in StUpdated /\ stAdded < StMaxAdds
  \/ op \in {"close", "clear"} /\ stKind = "todo"

\* Mutant: the file is read whoever holds the lock.
UpdateUnlocked(p, op, n) ==
  /\ stProc[p].pc = "idle"
  /\ StOffers(op)
  /\ IF op = "close" THEN n \in Numbers(stFile) ELSE n = 0
  /\ StSet(p, [StIdle(0) EXCEPT !.pc = "update", !.op = op, !.target = n, !.read = stFile])
  /\ stLock' = p
  /\ UNCHANGED <<stKind, stContent, stAdded, stClosed, stRemoved, stExposed>>

\* The lock is taken, then the file is read. An unknown todo is refused.
UpdateBegins(p, op, n) ==
  /\ stProc[p].pc = "idle"
  /\ LockFree
  /\ StOffers(op)
  /\ IF op = "close" THEN n \in Numbers(stFile) ELSE n = 0
  /\ StSet(p, [StIdle(0) EXCEPT !.pc = "update", !.op = op, !.target = n, !.read = stFile])
  /\ stLock' = p
  /\ UNCHANGED <<stKind, stContent, stAdded, stClosed, stRemoved, stExposed>>

\* The file is replaced, the lock released and the caller told.
UpdateEnds(p) ==
  LET operation == stProc[p]
      result    == StResult(operation)
  IN
  /\ operation.pc = "update"
  /\ stFile' = result
  /\ stAdded' = IF operation.op = "add" THEN stAdded + 1 ELSE stAdded
  /\ stClosed' = IF operation.op = "close" THEN stClosed \cup {operation.target} ELSE stClosed
  /\ stRemoved' = stRemoved \cup (Numbers(operation.read) \ Numbers(result))
  /\ stLock' = StNobody
  /\ StSet(p, StIdle(0))
  /\ UNCHANGED <<stKind, stTorn, stGarbled, stExposed>>

-----------------------------------------------------------------------------
(* JSON lines *)

\* Whether the program prunes after the record it adds, and when next.
PrunesNow(writes) == \/ stKind = "artifacts"
                     \/ stKind = "metrics" /\ writes + 1 = StPruneEvery

AfterAppend(writes) ==
  IF PrunesNow(writes) THEN [StIdle(0) EXCEPT !.pc = "read", !.op = "prune"]
  ELSE StIdle(IF stKind = "metrics" THEN writes + 1 ELSE 0)

\* append_jsonl: a line, under the lock. On an incomplete line the two become
\* one that read_jsonl skips.
StAppend(p) ==
  /\ stProc[p].pc = "idle"
  /\ stKind \in StAppended
  /\ LockFree
  /\ stAdded < StMaxAdds
  /\ stAdded' = stAdded + 1
  /\ stFile' = IF stTorn THEN stFile ELSE Append(stFile, NewRecord)
  /\ stTorn' = FALSE
  /\ stExposed' = IF stTorn \/ Overlapped(p) THEN stExposed \cup {stAdded + 1} ELSE stExposed
  /\ StSet(p, AfterAppend(stProc[p].writes))
  /\ UNCHANGED <<stKind, stGarbled, stLock, stClosed, stRemoved>>

\* The program dies, or the disk is full, before the line is complete.
StTear(p, character) ==
  /\ stProc[p].pc = "idle"
  /\ stKind \in StAppended
  /\ LockFree
  /\ stTorn' = TRUE
  /\ stGarbled' = (stGarbled \/ character)
  /\ UNCHANGED <<stKind, stFile, stLock, stProc, stAdded, stClosed, stRemoved, stExposed>>

\* read_jsonl, without the lock: what cannot be decoded counts as nothing.
Decoded == IF stGarbled THEN << >> ELSE stFile
PutAside ==
  IF stGarbled
  THEN /\ stFile' = << >> /\ stTorn' = FALSE /\ stGarbled' = FALSE
       /\ stRemoved' = stRemoved \cup Numbers(stFile)
  ELSE UNCHANGED <<stContent, stRemoved>>

\* update_status, verify, promote: all items are read; an unknown one ends it.
CloseReads(p, n) ==
  /\ stProc[p].pc = "idle"
  /\ stKind = "memory"
  /\ n \in Numbers(stFile)
  /\ PutAside
  /\ StSet(p, IF n \in Numbers(Decoded)
              THEN [StIdle(0) EXCEPT !.pc = "rewrite", !.op = "close", !.target = n, !.read = Decoded]
              ELSE StIdle(0))
  /\ UNCHANGED <<stKind, stLock, stAdded, stClosed, stExposed>>

\* prune writes only when it drops something.
PruneReads(p) ==
  /\ stProc[p].pc = "read"
  /\ PutAside
  /\ StSet(p, IF Len(Decoded) > StMaxKept
              THEN [StIdle(0) EXCEPT !.pc = "rewrite", !.op = "prune", !.read = Decoded]
              ELSE StIdle(0))
  /\ UNCHANGED <<stKind, stLock, stAdded, stClosed, stExposed>>

\* Mutant: what is written back is only what all() returns by default.
RewritesRecent(p) ==
  LET operation == stProc[p]
      result    == Trimmed(StResult(operation))
  IN
  /\ operation.pc = "rewrite"
  /\ LockFree
  /\ stFile' = result
  /\ stTorn' = FALSE /\ stGarbled' = FALSE
  /\ stClosed' = IF operation.op = "close" THEN stClosed \cup {operation.target} ELSE stClosed
  /\ stRemoved' = IF operation.op = "prune"
                  THEN stRemoved \cup (Numbers(operation.read) \ Numbers(result)) ELSE stRemoved
  /\ stExposed' = IF operation.op = "close" /\ Overlapped(p)
                  THEN stExposed \cup {operation.target} ELSE stExposed
  /\ StSet(p, StIdle(0))
  /\ UNCHANGED <<stKind, stLock, stAdded>>

\* atomic_write_jsonl takes the lock only now.
Rewrites(p) ==
  LET operation == stProc[p]
      result    == StResult(operation)
  IN
  /\ operation.pc = "rewrite"
  /\ LockFree
  /\ stFile' = result
  /\ stTorn' = FALSE /\ stGarbled' = FALSE
  /\ stClosed' = IF operation.op = "close" THEN stClosed \cup {operation.target} ELSE stClosed
  /\ stRemoved' = stRemoved \cup (Numbers(operation.read) \ Numbers(result))
  /\ stExposed' = IF operation.op = "close" /\ Overlapped(p)
                  THEN stExposed \cup {operation.target} ELSE stExposed
  /\ StSet(p, StIdle(0))
  /\ UNCHANGED <<stKind, stLock, stAdded>>

-----------------------------------------------------------------------------

\* The program dies: nothing half done remains, the system drops the lock.
StDies(p) ==
  /\ stProc[p].pc # "idle"
  /\ StSet(p, StIdle(0))
  /\ stLock' = IF stLock = p THEN StNobody ELSE stLock
  /\ UNCHANGED <<stKind, stContent, stAdded, stClosed, stRemoved, stExposed>>

StNext ==
  \E p \in StProcs :
    \/ \E op \in StOps, n \in {0} \cup StNumbers : UpdateBegins(p, op, n)
    \/ UpdateEnds(p)
    \/ StAppend(p)
    \/ \E character \in BOOLEAN : StTear(p, character)
    \/ \E n \in StNumbers : CloseReads(p, n)
    \/ PruneReads(p)
    \/ Rewrites(p)
    \/ StDies(p)

StSpec == StInit /\ [][StNext]_stVars

-----------------------------------------------------------------------------

\* What was added stays, and what was closed stays closed, unless it is removed
\* on purpose or put aside with a file that cannot be decoded, an incomplete
\* line swallows it, or it comes between the unlocked read and the write of
\* somebody's rewriting: for sessions, context and todo list, which are updated
\* under the lock, never (storage.py).
AddedIsKept ==
  \A n \in 1 .. stAdded \ (stRemoved \cup stExposed) :
    \E i \in DOMAIN stFile :
      stFile[i].number = n /\ (n \in stClosed => stFile[i].closed)
=============================================================================

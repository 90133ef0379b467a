----------------------------- MODULE RepoIndex -----------------------------
(***************************************************************************)
(* The repository index (evolva/agent/repo_index.py): threads build it and *)
(* search it while files are edited, created and deleted. Files are looked *)
(* at one by one, first their size and time, then, unless an earlier index *)
(* has a file of the same size and time, their text. The index is written  *)
(* to a temporary file of one name for all, which then replaces it.        *)
(*                                                                         *)
(* Each change gives a file another version, and the model assumes that    *)
(* size and time tell versions apart; a text is the version it was read    *)
(* from. What two writers of one file leave is not taken for an index.     *)
(***************************************************************************)
EXTENDS Integers, FiniteSets

CONSTANTS
  RiFiles,      \* number of files in the order they are looked at, all indexable
  RiThreads,    \* threads that use the index
  RiMaxEdits,   \* bound: changes of files
  RiMaxUses     \* bound: builds and searches

ASSUME RiAssumption == RiFiles \in Nat \ {0} /\ RiMaxEdits \in Nat /\ RiMaxUses \in Nat

RiPaths == 1 .. RiFiles
RiVersions == 0 .. RiMaxEdits
RiUnknown == -1  \* not in the index

VARIABLES
  riFile,    \* [RiPaths -> version and whether the file exists]
  riEdits,   \* changes so far
  riIndex,   \* index.json
  riTemp,    \* index.json.tmp
  riThread,  \* [RiThreads -> the use in progress]
  riUses     \* uses begun

riVars == <<riFile, riEdits, riIndex, riTemp, riThread, riUses>>

\* Of each file the version that was looked at and the one that was read.
RiSnapshot == [stamp : [RiPaths -> RiVersions \cup {RiUnknown}], text : [RiPaths -> RiVersions \cup {RiUnknown}]]
NoFiles == [k \in RiPaths |-> RiUnknown]
EmptySnapshot == [stamp |-> NoFiles, text |-> NoFiles]
\* A file that holds no index, or no file.
RiContent == [valid : BOOLEAN, there : BOOLEAN, snapshot : RiSnapshot]
NoContent == [valid |-> FALSE, there |-> FALSE, snapshot |-> EmptySnapshot]
Garbled == [NoContent EXCEPT !.there = TRUE]
Written(snapshot) == [valid |-> TRUE, there |-> TRUE, snapshot |-> snapshot]

RiSteps == {"idle", "check", "stat", "read", "built", "writing", "written", "served"}
RiUse == [pc : RiSteps, search : BOOLEAN, at : Nat, listed : SUBSET RiPaths,
          old : RiSnapshot, new : RiSnapshot, since : [RiPaths -> RiVersions],
          lost : SUBSET RiPaths, target : {"temporary", "index", "gone"}, spoiled : BOOLEAN]

RiTypeOK ==
  /\ riFile \in [RiPaths -> [version : RiVersions, there : BOOLEAN]]
  /\ riEdits \in RiVersions /\ riIndex \in RiContent /\ riTemp \in RiContent
  /\ riThread \in [RiThreads -> RiUse] /\ riUses \in 0 .. RiMaxUses

RiIdle == [pc |-> "idle", search |-> FALSE, at |-> 1, listed |-> {},
           old |-> EmptySnapshot, new |-> EmptySnapshot, since |-> [k \in RiPaths |-> 0],
           lost |-> {}, target |-> "gone", spoiled |-> FALSE]

RiInit ==
  /\ riFile = [k \in RiPaths |-> [version |-> 0, there |-> TRUE]]
  /\ riEdits = 0 /\ riUses = 0
  /\ riIndex = NoContent /\ riTemp = NoContent
  /\ riThread = [t \in RiThreads |-> RiIdle]

Using(t, use) == riThread' = [riThread EXCEPT ![t] = use]

-----------------------------------------------------------------------------

\* Somebody writes a file or deletes it; lost is only for the property.
RiEdit(k, there) ==
  /\ riEdits < RiMaxEdits
  /\ riFile[k].there \/ there
  /\ riEdits' = riEdits + 1
  /\ riFile' = [riFile EXCEPT ![k] = [version |-> riEdits + 1, there |-> there]]
  /\ riThread' = [t \in RiThreads |->
       IF there THEN riThread[t] ELSE [riThread[t] EXCEPT !.lost = @ \cup {k}]]
  /\ UNCHANGED <<riIndex, riTemp, riUses>>

\* load: what is no index counts as none.
Loaded == IF riIndex.valid THEN riIndex.snapshot ELSE EmptySnapshot

Existing == {k \in RiPaths : riFile[k].there}

Begun(search, pc, old) ==
  [RiIdle EXCEPT !.pc = pc, !.search = search, !.old = old, !.listed = Existing,
     !.since = [k \in RiPaths |-> riFile[k].version], !.lost = RiPaths \ Existing]

\* build: an earlier index is of use only if the build is incremental.
RiBuild(t, incremental) ==
  /\ riThread[t].pc = "idle"
  /\ riUses < RiMaxUses
  /\ riUses' = riUses + 1
  /\ Using(t, Begun(FALSE, "stat", IF incremental THEN Loaded ELSE EmptySnapshot))
  /\ UNCHANGED <<riFile, riEdits, riIndex, riTemp>>

\* search: an index that is there and not too old is checked, else one is built.
RiSearch(t, young) ==
  /\ riThread[t].pc = "idle"
  /\ riUses < RiMaxUses
  /\ riUses' = riUses + 1
  /\ Using(t, Begun(TRUE, IF young /\ riIndex.valid THEN "check" ELSE "stat", Loaded))
  /\ UNCHANGED <<riFile, riEdits, riIndex, riTemp>>

Stamp(k) == IF riFile[k].there THEN riFile[k].version ELSE RiUnknown
\* A scan lists the files first: one that is created meanwhile is missed.
Seen(use) == IF use.at \in use.listed THEN Stamp(use.at) ELSE RiUnknown

\* is_stale: the first file that is not as recorded makes the search build.
RiCheck(t) ==
  LET use == riThread[t] IN
  /\ use.pc = "check"
  /\ Using(t, IF Seen(use) # use.old.stamp[use.at]
              THEN [use EXCEPT !.pc = "stat", !.at = 1, !.listed = Existing, !.old = Loaded]
              ELSE IF use.at < RiFiles THEN [use EXCEPT !.at = @ + 1]
              ELSE [use EXCEPT !.pc = "served", !.new = use.old])
  /\ UNCHANGED <<riFile, riEdits, riIndex, riTemp, riUses>>

\* The files after k, or the end.
Onward(use) ==
  IF use.at < RiFiles THEN [use EXCEPT !.pc = "stat", !.at = @ + 1] ELSE [use EXCEPT !.pc = "built"]

Recorded(use, stamp, text) ==
  [use EXCEPT !.new = [stamp |-> [use.new.stamp EXCEPT ![use.at] = stamp],
                       text  |-> [use.new.text EXCEPT ![use.at] = text]]]

\* The text of an earlier index is taken over from a file that looks the same.
RiStat(t) ==
  LET use   == riThread[t]
      stamp == Seen(use)
  IN
  /\ use.pc = "stat"
  /\ Using(t, IF stamp = RiUnknown THEN Onward(use)
              ELSE IF use.old.stamp[use.at] = stamp
              THEN Onward(Recorded(use, stamp, use.old.text[use.at]))
              ELSE [Recorded(use, stamp, RiUnknown) EXCEPT !.pc = "read"])
  /\ UNCHANGED <<riFile, riEdits, riIndex, riTemp, riUses>>

\* Mutant: the size and time recorded are those after the text was read, and
\* the text that of the version looked at before.
ReadThenLook(t) ==
  LET use == riThread[t] IN
  /\ use.pc = "read"
  /\ Using(t, IF Stamp(use.at) = RiUnknown THEN Onward(Recorded(use, RiUnknown, RiUnknown))
              ELSE Onward(Recorded(use, Stamp(use.at), use.new.stamp[use.at])))
  /\ UNCHANGED <<riFile, riEdits, riIndex, riTemp, riUses>>

\* A file that is gone by now is left out.
RiRead(t) ==
  LET use == riThread[t] IN
  /\ use.pc = "read"
  /\ Using(t, IF Stamp(use.at) = RiUnknown THEN Onward(Recorded(use, RiUnknown, RiUnknown))
              ELSE Onward(Recorded(use, use.new.stamp[use.at], Stamp(use.at))))
  /\ UNCHANGED <<riFile, riEdits, riIndex, riTemp, riUses>>

-----------------------------------------------------------------------------
(* _write *)

WritesTemporary(u) == riThread[u].pc = "writing" /\ riThread[u].target = "temporary"

\* Opening the temporary file empties it, under the hands of another writer too.
WriteBegins(t) ==
  /\ riThread[t].pc = "built"
  /\ riTemp' = Garbled
  /\ riThread' = [u \in RiThreads |->
       IF u = t THEN [riThread[t] EXCEPT !.pc = "writing", !.target = "temporary",
                        !.spoiled = \E v \in RiThreads \ {t} : WritesTemporary(v)]
       ELSE IF WritesTemporary(u) THEN [riThread[u] EXCEPT !.spoiled = TRUE]
       ELSE riThread[u]]
  /\ UNCHANGED <<riFile, riEdits, riIndex, riUses>>

\* The file that was opened may have become the index since.
WriteEnds(t) ==
  LET use     == riThread[t]
      content == IF use.spoiled THEN Garbled ELSE Written(use.new)
  IN
  /\ use.pc = "writing"
  /\ riTemp' = IF use.target = "temporary" THEN content ELSE riTemp
  /\ riIndex' = IF use.target = "index" THEN content ELSE riIndex
  /\ Using(t, [use EXCEPT !.pc = "written"])
  /\ UNCHANGED <<riFile, riEdits, riUses>>

MovedOn(use) ==
  [use EXCEPT !.target = IF use.pc # "writing" THEN @
                         ELSE IF @ = "temporary" THEN "index" ELSE "gone"]

\* Whatever is in the temporary file becomes the index. If another thread has
\* done that already, there is none and the use fails.
RiReplace(t) ==
  LET use == riThread[t] IN
  /\ use.pc = "written"
  /\ IF riTemp.there
     THEN /\ riIndex' = riTemp
          /\ riTemp' = NoContent
          /\ riThread' = [u \in RiThreads |->
               IF u # t THEN MovedOn(riThread[u])
               ELSE IF use.search THEN [use EXCEPT !.pc = "served"] ELSE RiIdle]
     ELSE Using(t, RiIdle) /\ UNCHANGED <<riIndex, riTemp>>
  /\ UNCHANGED <<riFile, riEdits, riUses>>

RiReturn(t) ==
  /\ riThread[t].pc = "served"
  /\ Using(t, RiIdle)
  /\ UNCHANGED <<riFile, riEdits, riIndex, riTemp, riUses>>

RiNext ==
  \/ \E k \in RiPaths, there \in BOOLEAN : RiEdit(k, there)
  \/ \E t \in RiThreads :
       \/ \E incremental \in BOOLEAN : RiBuild(t, incremental)
       \/ \E young \in BOOLEAN : RiSearch(t, young)
       \/ RiCheck(t)
       \/ RiStat(t)
       \/ RiRead(t)
       \/ WriteBegins(t)
       \/ WriteEnds(t)
       \/ RiReplace(t)
       \/ RiReturn(t)

RiSpec == RiInit /\ [][RiNext]_riVars

-----------------------------------------------------------------------------

\* A search answers from what the files held at some time since it began: no
\* text older than that, and no file left out that was there all the time,
\* however builds, edits and writers of the index interleave
\* (RepoIndex.search, build_if_stale).
SearchIsCurrent ==
  \A t \in RiThreads, k \in RiPaths :
    riThread[t].pc = "served" =>
      IF riThread[t].new.text[k] = RiUnknown THEN k \in riThread[t].lost
      ELSE riThread[t].new.text[k] >= riThread[t].since[k]
=============================================================================

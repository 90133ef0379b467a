--------------------------- MODULE DreamLifecycle ---------------------------
(***************************************************************************)
(* How a lesson comes to influence the agent and is taken back again: the  *)
(* evolution engine (evolva/agent/evolution.py) writes lessons to the      *)
(* memory store (memory.py) and guidance to skill files (skills.py); the   *)
(* Dream loop (dream.py) stages lessons in a backlog file, verifies,       *)
(* promotes and rolls them back.                                           *)
(*                                                                         *)
(* One process works on the stores at a time. Every operation is a series  *)
(* of writes to three places (memory file, skill files, backlog file) and  *)
(* the process may die between any two of them; the backlog file is        *)
(* rewritten in place, so it may die inside that write too.                *)
(*                                                                         *)
(* A lesson stands for its text, and a fingerprint for the lesson it was   *)
(* computed from. Evidence, confidence, the verified flag (it never tells  *)
(* more than the status does), expiry and namespaces are left out, and so  *)
(* are the mode without verification (dream_require_verification = false)  *)
(* and the tools with which a user edits the stores.                       *)
(***************************************************************************)
EXTENDS Integers, Sequences, FiniteSets, FiniteSetsExt, SequencesExt

CONSTANTS
  Lessons,      \* lesson texts
  Similar,      \* pairs of texts with a match ratio of at least 0.92
  Contradicts,  \* pairs of texts that share words and differ in a negation
  Names,        \* skill files
  NameOf,       \* [Lessons -> Names]: the category and first words of a text
  Proposals,    \* lessons the trace and eval analyzers may propose
  Feedback,     \* lessons that come from users, reflections and evals
  Ids,          \* candidate ids: the pattern a proposal is about
  IdOf,         \* [Proposals -> Ids]
  Manual,       \* the verifier that never passes
  Verifiers,    \* all verifiers: Manual, the eval file, trace patterns
  VerifierOf,   \* [Proposals -> Verifiers]
  NoLesson,     \* fingerprint ""
  MaxMemories   \* bound: lessons in the memory file

ASSUME LessonsAssumption ==
  /\ NoLesson \notin Lessons
  /\ Proposals \subseteq Lessons /\ Feedback \subseteq Lessons
  /\ Similar \subseteq Lessons \X Lessons
  /\ Contradicts \subseteq Lessons \X Lessons
  /\ \A l, m \in Lessons : /\ <<l, l>> \in Similar
                           /\ <<l, m>> \in Similar => <<m, l>> \in Similar
                           /\ <<l, m>> \in Contradicts => <<m, l>> \in Contradicts
  /\ NameOf \in [Lessons -> Names]
  /\ IdOf \in [Proposals -> Ids]
  /\ Manual \in Verifiers /\ VerifierOf \in [Proposals -> Verifiers]
  /\ MaxMemories \in Nat

VARIABLES
  memories,  \* the memory file
  skills,    \* the skill files
  backlog,   \* the backlog file
  pc,        \* next write of the running operation, or "idle"
  job,       \* its evolve, gate or rollback call in progress
  work,      \* its copy of the backlog
  queue,     \* indices of work it still has to look at
  passing,   \* the verifiers that pass in this verification
  promote,   \* whether this verification promotes
  grants,    \* lessons somebody with the right to vouched for
  standing,  \* fingerprints activated since they were last rolled back
  checked    \* candidates whose verifier passed since they were last rolled back

assets == <<memories, skills>>
dream == <<backlog, work, queue, passing, promote, checked>>
vars == <<memories, skills, backlog, pc, job, work, queue, passing, promote,
          grants, standing, checked>>

-----------------------------------------------------------------------------
(* Types *)

Live == {"active", "candidate", "verified"}
Memory == [lesson : Lessons, status : Live \cup {"quarantined", "rolled_back"},
           conflicts : BOOLEAN]
Skill == [fp : Lessons \cup {NoLesson}, status : Live \cup {"deprecated", "absent"}]
CandidateStatuses == {"accepted", "verified", "promoted", "rolled_back"}
Candidate == [lesson : Proposals, status : CandidateStatuses,
              evolved : Lessons \cup {NoLesson}]

\* asked: the text evolve() was called with; fp, status, dup: what it decided;
\* trusted: its trigger is manual_feedback or dream_promote; strong: the
\* evidence passes the promotion gate; next: what follows the call.
Job == [asked : Lessons \cup {NoLesson}, fp : Lessons \cup {NoLesson},
        status : Live \cup {"quarantined"}, dup : BOOLEAN, trusted : BOOLEAN,
        strong : BOOLEAN, next : {"idle", "gate", "promoted", "rolled_back"}]
NoJob == [asked |-> NoLesson, fp |-> NoLesson, status |-> "candidate",
          dup |-> FALSE, trusted |-> FALSE, strong |-> FALSE, next |-> "idle"]

TypeOK ==
  /\ memories \in Seq(Memory)
  /\ skills \in [Names -> Skill]
  /\ backlog \in Seq(Candidate)
  /\ pc \in {"idle", "evolve_memory", "evolve_skill", "gate", "gate_promote",
             "gate_skills", "rollback_memory", "rollback_skills", "verify"}
  /\ job \in Job
  /\ work \in Seq(Candidate)
  /\ queue \in Seq(1 .. Len(work))
  /\ passing \subseteq Verifiers \ {Manual}
  /\ promote \in BOOLEAN
  /\ grants \subseteq Lessons
  /\ standing \subseteq Lessons
  /\ checked \subseteq Proposals

Init ==
  /\ memories = << >>
  /\ skills = [n \in Names |-> [fp |-> NoLesson, status |-> "absent"]]
  /\ backlog = << >>
  /\ pc = "idle"
  /\ job = NoJob
  /\ work = << >>
  /\ queue = << >>
  /\ passing = {}
  /\ promote = FALSE
  /\ grants = {}
  /\ standing = {}
  /\ checked = {}

Stop ==
  /\ pc' = "idle"
  /\ job' = NoJob
  /\ work' = << >>
  /\ queue' = << >>
  /\ passing' = {}
  /\ promote' = FALSE

-----------------------------------------------------------------------------
(* evolve(): one lesson into memory, then into a skill *)

\* Mutant: only active lessons count as duplicates.
AlikeActive(l) ==
  {i \in DOMAIN memories : /\ memories[i].status = "active"
                           /\ <<memories[i].lesson, l>> \in Similar}

\* find_similar over the statuses evolve() passes to it.
Alike(l) ==
  {i \in DOMAIN memories : /\ memories[i].status \in Live
                           /\ <<memories[i].lesson, l>> \in Similar}

\* find_conflicts: only active lessons conflict.
InConflict(l) ==
  \E i \in DOMAIN memories : /\ memories[i].status = "active"
                             /\ <<memories[i].lesson, l>> \in Contradicts

Call(l, trusted, strong, next) ==
  /\ pc' = "evolve_memory"
  /\ job' = [NoJob EXCEPT !.asked = l, !.trusted = trusted,
                          !.strong = strong, !.next = next]

\* A user gives feedback (/evolve): trusted.
ManualFeedback(l) ==
  /\ pc = "idle"
  /\ Len(memories) < MaxMemories
  /\ Call(l, TRUE, FALSE, "idle")
  /\ grants' = grants \cup {l}
  /\ UNCHANGED <<assets, dream, standing>>

\* The runtime reflects on a turn with failed tools or a long answer.
Reflect(l) ==
  /\ pc = "idle"
  /\ Len(memories) < MaxMemories
  /\ Call(l, FALSE, FALSE, "idle")
  /\ UNCHANGED <<assets, dream, grants, standing>>

\* An eval stages a lesson and sends it through the promotion gate, with or
\* without a passed regression and two independent sources.
EvalLesson(l, strong) ==
  /\ pc = "idle"
  /\ Len(memories) < MaxMemories
  /\ Call(l, FALSE, strong, "gate")
  /\ UNCHANGED <<assets, dream, grants, standing>>

\* The newest live lesson that is alike is taken as it is; otherwise the
\* lesson is added, active if trusted, quarantined if an active one denies it.
EvolveMemory ==
  /\ pc = "evolve_memory"
  /\ LET l == job.asked
         asset == IF job.trusted THEN "active" ELSE "candidate"
     IN  IF Alike(l) # {}
           THEN LET twin == memories[Max(Alike(l))]
                IN  /\ job' = [job EXCEPT !.fp = twin.lesson,
                                          !.status = twin.status, !.dup = TRUE]
                    /\ UNCHANGED memories
           ELSE /\ job' = [job EXCEPT !.fp = l, !.status = asset]
                /\ memories' = Append(memories,
                     [lesson |-> l, conflicts |-> InConflict(l),
                      status |-> IF InConflict(l) /\ asset = "active"
                                   THEN "quarantined" ELSE asset])
  /\ pc' = "evolve_skill"
  /\ standing' = IF job'.dup THEN standing ELSE standing \cup
                  (IF job.trusted THEN {job.asked} ELSE {})
  /\ UNCHANGED <<skills, dream, grants>>

\* The candidate at the head of the queue gets its new status and fingerprint.
Concluded(status, evolved) ==
  /\ work' = [work EXCEPT ![Head(queue)].status = status,
                          ![Head(queue)].evolved = evolved]
  /\ queue' = Tail(queue)

\* upsert overwrites the metadata of a skill file of the same name.
EvolveSkill ==
  /\ pc = "evolve_skill"
  /\ skills' = IF job.dup /\ \E n \in Names : skills[n].fp = job.fp THEN skills
                ELSE [skills EXCEPT ![NameOf[job.asked]] =
                        [fp |-> job.fp, status |-> job.status]]
  /\ CASE job.next = "idle" -> Stop
       [] job.next = "gate" -> pc' = "gate" /\ UNCHANGED <<job, work, queue, passing, promote>>
       [] job.next = "promoted" ->
            /\ Concluded("promoted", job.fp)
            /\ pc' = "verify"
            /\ job' = NoJob
            /\ UNCHANGED <<passing, promote>>
  /\ UNCHANGED <<memories, backlog, grants, standing, checked>>

-----------------------------------------------------------------------------
(* promote_fingerprint(): the evidence gate of staged lessons *)

Staged(fp) == {i \in DOMAIN memories : /\ memories[i].lesson = fp
                                       /\ memories[i].status \in {"candidate", "verified"}}

\* Mutant: the gate does not ask for evidence.
GateOpensWithoutEvidence ==
  /\ ~\E i \in DOMAIN memories :
        memories[i].lesson = job.fp /\ memories[i].status = "active"
  /\ Staged(job.fp) # {}
  /\ \A i \in Staged(job.fp) : ~memories[i].conflicts

\* Enough evidence, and the lesson is staged, not active already, and was not
\* in conflict when it was added.
GateOpens ==
  /\ job.strong
  /\ ~\E i \in DOMAIN memories :
        memories[i].lesson = job.fp /\ memories[i].status = "active"
  /\ Staged(job.fp) # {}
  /\ \A i \in Staged(job.fp) : ~memories[i].conflicts

\* The staged lesson becomes a verified one; a second write activates it.
Gate ==
  /\ pc = "gate"
  /\ grants' = IF job.strong THEN grants \cup {job.fp} ELSE grants
  /\ IF GateOpens
       THEN /\ memories' = [i \in DOMAIN memories |->
                              IF i \in Staged(job.fp)
                                THEN [memories[i] EXCEPT !.status = "verified"]
                                ELSE memories[i]]
            /\ pc' = "gate_promote"
            /\ UNCHANGED <<job, work, queue, passing, promote>>
       ELSE Stop /\ UNCHANGED memories
  /\ UNCHANGED <<skills, backlog, standing, checked>>

GatePromote ==
  /\ pc = "gate_promote"
  /\ memories' = [i \in DOMAIN memories |->
                    IF i \in Staged(job.fp)
                      THEN [memories[i] EXCEPT !.status = "active"]
                      ELSE memories[i]]
  /\ pc' = "gate_skills"
  /\ standing' = standing \cup {job.fp}
  /\ UNCHANGED <<skills, dream, job, grants>>

\* Each skill of the fingerprint is verified by one write, promoted by another.
GateSkill ==
  /\ pc = "gate_skills"
  /\ \E n \in Names :
       /\ skills[n].fp = job.fp /\ skills[n].status # "active"
       /\ skills' = [skills EXCEPT ![n].status =
                       IF @ = "verified" THEN "active" ELSE "verified"]
  /\ UNCHANGED <<memories, dream, pc, job, grants, standing>>

GateDone ==
  /\ pc = "gate_skills"
  /\ \A n \in Names : skills[n].fp = job.fp => skills[n].status = "active"
  /\ Stop
  /\ UNCHANGED <<assets, backlog, grants, standing, checked>>

-----------------------------------------------------------------------------
(* The backlog of candidates *)

Rank(status) ==
  CASE status = "rolled_back" -> -1
    [] status = "accepted" -> 1
    [] status = "verified" -> 3
    [] status = "promoted" -> 4

Proposed(l) == [lesson |-> l, status |-> "accepted", evolved |-> NoLesson]

\* Mutant: a new candidate is not marked accepted.
MergedUnmarked(l) ==
  IF \E i \in DOMAIN backlog : backlog[i].lesson = l THEN backlog
  ELSE Append(backlog, [Proposed(l) EXCEPT !.status = "proposed"])

\* Mutant: a candidate that is proposed again is promoted again at once.
MergedAsVerified(l) ==
  IF \E i \in DOMAIN backlog : backlog[i].lesson = l
    THEN [i \in DOMAIN backlog |->
            IF backlog[i].lesson = l /\ backlog[i].status = "rolled_back"
              THEN [backlog[i] EXCEPT !.status = "promoted"] ELSE backlog[i]]
    ELSE Append(backlog, Proposed(l))

\* _merge_backlog: one entry per fingerprint; a status is only ever raised, so
\* a candidate that was rolled back and is proposed again is accepted again.
Merged(l) ==
  IF \E i \in DOMAIN backlog : backlog[i].lesson = l
    THEN [i \in DOMAIN backlog |->
            IF backlog[i].lesson = l /\ Rank(backlog[i].status) < Rank("accepted")
              THEN [backlog[i] EXCEPT !.status = "accepted"] ELSE backlog[i]]
    ELSE Append(backlog, Proposed(l))

\* A Dream pass proposes a lesson and its drift guards accept it (a pass that
\* proposes several is several of these). The write may be torn.
Run(l) ==
  /\ pc = "idle"
  /\ backlog' \in {Merged(l), << >>}
  /\ UNCHANGED <<assets, pc, job, work, queue, passing, promote, grants, standing, checked>>

\* The candidates verify_backlog looks at.
Unretired(candidates) ==
  FoldLeftDomain(LAMBDA found, i :
                   IF candidates[i].status = "rolled_back" THEN found ELSE Append(found, i),
                 << >>, candidates)

\* verify_backlog: the copy, the candidates it looks at, and the verdicts,
\* which are computed once per verifier.
Verify(pass, prom) ==
  /\ pc = "idle"
  /\ Len(memories) < MaxMemories
  /\ backlog # << >>
  /\ work' = backlog
  /\ queue' = Unretired(backlog)
  /\ queue' # << >>
  /\ passing' = pass
  /\ promote' = prom
  /\ pc' = "verify"
  /\ UNCHANGED <<assets, backlog, job, grants, standing, checked>>

\* One candidate: its verification record is replaced (which drops the
\* fingerprint of an earlier promotion); it rises to verified if it passed, is
\* promoted if it is verified, or rolled back if it was promoted and failed.
VerifyCandidate ==
  /\ pc = "verify"
  /\ queue # << >>
  /\ LET i == Head(queue)
         l == work[i].lesson
         ok == VerifierOf[l] \in passing
         status == IF ok /\ Rank(work[i].status) < Rank("verified")
                     THEN "verified" ELSE work[i].status
         judged == [work EXCEPT ![i].status = status, ![i].evolved = NoLesson]
     IN  /\ checked' = IF ok THEN checked \cup {l} ELSE checked
         /\ grants' = IF ok THEN grants \cup {l} ELSE grants
         /\ CASE promote /\ status = "verified" ->
                   Call(l, TRUE, FALSE, "promoted") /\ work' = judged /\ UNCHANGED queue
              [] ~ok /\ status = "promoted" ->
                   /\ work' = judged
                   /\ pc' = "rollback_memory"
                   /\ job' = [NoJob EXCEPT !.fp = judged[i].evolved, !.next = "rolled_back"]
                   /\ UNCHANGED queue
              [] OTHER ->
                   work' = judged /\ queue' = Tail(queue) /\ UNCHANGED <<pc, job>>
  /\ UNCHANGED <<assets, backlog, passing, promote, standing>>

\* evolva dream rollback <id>: the first candidate with that id.
RollbackById(id) ==
  /\ pc = "idle"
  /\ LET named == {i \in DOMAIN backlog : IdOf[backlog[i].lesson] = id}
     IN  /\ named # {}
         /\ queue' = << Min(named) >>
         /\ job' = [NoJob EXCEPT !.fp = backlog[Min(named)].evolved,
                                 !.next = "rolled_back"]
  /\ work' = backlog
  /\ pc' = "rollback_memory"
  /\ UNCHANGED <<assets, backlog, passing, promote, grants, standing, checked>>

\* Mutant: the skills are left alone.
RollbackMemoryOnly ==
  /\ pc = "rollback_memory"
  /\ memories' = [i \in DOMAIN memories |->
                    IF memories[i].lesson = job.fp /\ memories[i].status = "active"
                      THEN [memories[i] EXCEPT !.status = "rolled_back"] ELSE memories[i]]
  /\ standing' = standing \ {job.fp}
  /\ Concluded("rolled_back", work[Head(queue)].evolved)
  /\ pc' = "verify"
  /\ job' = NoJob
  /\ UNCHANGED <<skills, backlog, passing, promote, grants, checked>>

\* rollback_fingerprint: nothing without a fingerprint; else active lessons of
\* that fingerprint first, then its skills.
RollbackMemory ==
  /\ pc = "rollback_memory"
  /\ memories' = [i \in DOMAIN memories |->
                    IF memories[i].lesson = job.fp /\ memories[i].status = "active"
                      THEN [memories[i] EXCEPT !.status = "rolled_back"] ELSE memories[i]]
  /\ pc' = "rollback_skills"
  /\ UNCHANGED <<skills, dream, job, grants, standing>>

RollbackSkill ==
  /\ pc = "rollback_skills"
  /\ job.fp # NoLesson
  /\ \E n \in Names :
       /\ skills[n].fp = job.fp /\ skills[n].status # "deprecated"
       /\ skills' = [skills EXCEPT ![n].status = "deprecated"]
  /\ UNCHANGED <<memories, dream, pc, job, grants, standing>>

RollbackDone ==
  /\ pc = "rollback_skills"
  /\ job.fp # NoLesson => \A n \in Names :
       skills[n].fp = job.fp => skills[n].status = "deprecated"
  /\ Concluded("rolled_back", work[Head(queue)].evolved)
  /\ pc' = "verify"
  /\ job' = NoJob
  /\ standing' = standing \ {job.fp}
  /\ UNCHANGED <<assets, backlog, passing, promote, grants, checked>>

\* Every operation on candidates ends by rewriting the backlog file in place:
\* a process that dies in the write leaves a file that reads as empty.
WriteBacklog ==
  /\ pc = "verify"
  /\ queue = << >>
  /\ backlog' \in {work, << >>}
  /\ checked' = checked \ {work[i].lesson : i \in {k \in DOMAIN work :
                                                     work[k].status = "rolled_back"}}
  /\ Stop
  /\ UNCHANGED <<assets, grants, standing>>

Crash ==
  /\ pc # "idle"
  /\ Stop
  /\ UNCHANGED <<assets, backlog, grants, standing, checked>>

-----------------------------------------------------------------------------
Evolve ==
  \/ \E l \in Feedback : \/ ManualFeedback(l) \/ Reflect(l)
                         \/ \E strong \in BOOLEAN : EvalLesson(l, strong)
  \/ EvolveMemory \/ EvolveSkill
  \/ Gate \/ GatePromote \/ GateSkill \/ GateDone

Dream ==
  \/ \E l \in Proposals : Run(l)
  \/ \E pass \in SUBSET (Verifiers \ {Manual}), prom \in BOOLEAN : Verify(pass, prom)
  \/ VerifyCandidate
  \/ \E id \in Ids : RollbackById(id)
  \/ RollbackMemory \/ RollbackSkill \/ RollbackDone
  \/ WriteBacklog

Next == Evolve \/ Dream \/ Crash

Spec == Init /\ [][Next]_vars

-----------------------------------------------------------------------------
(* Properties *)

\* No two lessons that count as duplicates are live at once, whatever is
\* retried after a crash, promoted again or learned twice.
LiveLessonsDistinct ==
  \A i, j \in DOMAIN memories :
    i # j /\ memories[i].status \in Live /\ memories[j].status \in Live
      => <<memories[i].lesson, memories[j].lesson>> \notin Similar

\* What is learned automatically stays a candidate: a lesson is active only if
\* a user stated it, its verifier passed, or regression evidence from two
\* sources was shown for it, and it denied no active lesson when it was added.
ActiveIsGranted ==
  \A i \in DOMAIN memories :
    memories[i].status = "active"
      => memories[i].lesson \in grants /\ ~memories[i].conflicts

\* A candidate recorded as promoted has passed its verifier since it was last
\* rolled back, through torn backlog files, repeated proposals and crashes.
PromotedWasChecked ==
  \A i \in DOMAIN backlog :
    backlog[i].status = "promoted" => backlog[i].lesson \in checked

\* A candidate is not recorded as rolled back before the assets it names are:
\* unless they were activated anew, no lesson and no skill of the fingerprint
\* is active, wherever the rollback was interrupted or repeated.
RolledBackIsInactive ==
  \A i \in DOMAIN backlog :
    backlog[i].status = "rolled_back" /\ backlog[i].evolved \notin standing
      => /\ ~\E n \in Names : /\ skills[n].status = "active"
                              /\ skills[n].fp = backlog[i].evolved
         /\ ~\E m \in DOMAIN memories : /\ memories[m].status = "active"
                                        /\ memories[m].lesson = backlog[i].evolved

\* verify --promote writes only lessons whose verifier passes.
PromotesOnlyPassing ==
  pc \in {"evolve_memory", "evolve_skill"} /\ job.next = "promoted"
    => VerifierOf[job.asked] \in passing

\* A candidate that is on record as promoted and becomes one that is rolled
\* back leaves no active lesson of the fingerprint it was promoted under.
RollbackRetiresAssets ==
  [][ \A i \in DOMAIN backlog \cap DOMAIN backlog' :
        /\ backlog[i].status = "promoted" /\ backlog'[i].status = "rolled_back"
        /\ backlog[i].evolved # NoLesson
        => \A m \in DOMAIN memories :
             memories[m].lesson = backlog[i].evolved => memories[m].status # "active"
    ]_vars
=============================================================================

-------------------------- MODULE DreamLifecycle_proofs --------------------------
(***************************************************************************)
(* Proofs about DreamLifecycle, for any lessons, candidates, verifiers and *)
(* skill files, and any number of memories.                                *)
(*                                                                         *)
(* None of the properties is inductive but the first. Standing says of     *)
(* every active lesson and skill, whether or not a candidate names it,     *)
(* that its fingerprint was activated and not rolled back since; it holds  *)
(* during a rollback because memories are retired before skills.           *)
(* Candidates are one per lesson, in the file and in the copy, and those   *)
(* verified have passed their verifier; what passed its verifier is        *)
(* vouched for. Working says what the call in progress rests on.           *)
(***************************************************************************)
EXTENDS DreamLifecycle, DataLemmas

-----------------------------------------------------------------------------
(* The inductive invariant *)

\* One candidate per lesson, and those verified or promoted have passed.
OnePerLesson(list) == \A i, j \in DOMAIN list : list[i].lesson = list[j].lesson => i = j
Backed(list) ==
  \A i \in DOMAIN list : list[i].status \in {"verified", "promoted"} => list[i].lesson \in checked

\* What is active was activated and not rolled back since.
Standing ==
  /\ \A i \in DOMAIN memories : memories[i].status = "active" => memories[i].lesson \in standing
  /\ \A n \in Names : skills[n].status = "active" => skills[n].fp \in standing

\* The operation in progress.
Working ==
  /\ pc \in {"evolve_memory", "evolve_skill"} =>
       /\ job.asked \in Lessons /\ job.next \in {"idle", "gate", "promoted"}
       /\ job.next = "promoted" => queue # << >> /\ work[Head(queue)].status = "verified"
  /\ pc = "evolve_memory" => ~job.dup /\ (job.trusted => job.asked \in grants)
  /\ pc \in {"evolve_skill", "gate", "gate_promote", "gate_skills"} => job.fp \in Lessons
  /\ job.status \in Live
  /\ pc = "evolve_skill" /\ job.status = "active" => job.fp \in standing
  /\ pc = "gate_promote" => job.fp \in grants /\ \A i \in Staged(job.fp) : ~memories[i].conflicts
  /\ pc = "gate_skills" => job.fp \in standing
  /\ pc \in {"rollback_memory", "rollback_skills"} => queue # << >>
  /\ pc = "rollback_skills" =>
       \A i \in DOMAIN memories : memories[i].lesson = job.fp => memories[i].status # "active"

\* The stores, and the call in progress.
StoresOK ==
  /\ memories \in Seq(Memory) /\ skills \in [Names -> Skill] /\ backlog \in Seq(Candidate)
  /\ grants \subseteq Lessons /\ standing \subseteq Lessons
  /\ checked \subseteq Proposals \cap grants
  /\ LiveLessonsDistinct /\ ActiveIsGranted /\ Standing
  /\ OnePerLesson(backlog) /\ Backed(backlog)

CallOK ==
  /\ pc \in {"idle", "evolve_memory", "evolve_skill", "gate", "gate_promote",
             "gate_skills", "rollback_memory", "rollback_skills", "verify"}
  /\ job \in Job
  /\ work \in Seq(Candidate) /\ queue \in Seq(1 .. Len(work))
  /\ passing \subseteq Verifiers \ {Manual} /\ promote \in BOOLEAN
  /\ OnePerLesson(work) /\ Backed(work)
  /\ Working

DInv == StoresOK /\ CallOK

-----------------------------------------------------------------------------
(* The operators *)

\* Writing a status into some of the lessons, and what became of a candidate.
WithStatus(T, s) ==
  [i \in DOMAIN memories |-> IF i \in T THEN [memories[i] EXCEPT !.status = s] ELSE memories[i]]
Written(list, i, s, e) == [list EXCEPT ![i].status = s, ![i].evolved = e]

LEMMA Restatused ==
  ASSUME memories \in Seq(Memory), NEW T \in SUBSET DOMAIN memories,
         NEW s \in Live \cup {"quarantined", "rolled_back"},
         memories' = WithStatus(T, s)
  PROVE  /\ memories' \in Seq(Memory) /\ DOMAIN memories' = DOMAIN memories
         /\ \A i \in DOMAIN memories :
              /\ memories'[i].lesson = memories[i].lesson
              /\ memories'[i].conflicts = memories[i].conflicts
              /\ memories'[i].status = IF i \in T THEN s ELSE memories[i].status
<1>1. \A i \in DOMAIN memories : memories[i] \in Memory
  OBVIOUS
<1>2. ASSUME NEW i \in DOMAIN memories
      PROVE  /\ memories'[i] \in Memory /\ memories'[i].lesson = memories[i].lesson
             /\ memories'[i].conflicts = memories[i].conflicts
             /\ memories'[i].status = IF i \in T THEN s ELSE memories[i].status
  BY <1>1 DEF Memory, WithStatus
<1>3. Len(memories) \in Nat /\ DOMAIN memories = 1 .. Len(memories)
      /\ DOMAIN memories' = DOMAIN memories
  BY DEF WithStatus
<1>4. memories' \in Seq(Memory)
  <2>1. memories' = [i \in 1 .. Len(memories) |-> memories'[i]]
    BY <1>3 DEF WithStatus
  <2>2. memories' \in [1 .. Len(memories) -> Memory]
    BY <1>2, <1>3, <2>1
  <2>3. QED
    BY <1>3, <2>2
<1>5. QED
  BY <1>2, <1>3, <1>4

LEMMA CandidateWritten ==
  ASSUME NEW old \in Seq(Candidate), OnePerLesson(old), Backed(old), NEW i \in DOMAIN old,
         NEW s \in CandidateStatuses, NEW e \in Lessons \cup {NoLesson}
  PROVE  LET new == Written(old, i, s, e) IN
         /\ new \in Seq(Candidate) /\ DOMAIN new = DOMAIN old /\ Len(new) = Len(old)
         /\ OnePerLesson(new)
         /\ new[i].lesson = old[i].lesson /\ new[i].status = s
         /\ \A k \in DOMAIN old : k # i => new[k] = old[k]
         /\ (s \in {"verified", "promoted"} => old[i].lesson \in checked) => Backed(new)
<1> DEFINE new == Written(old, i, s, e)
<1>1. old[i] \in Candidate /\ Len(old) \in Nat /\ DOMAIN old = 1 .. Len(old)
  OBVIOUS
<1>2. DOMAIN new = DOMAIN old /\ \A k \in DOMAIN old : k # i => new[k] = old[k]
  BY DEF Written
<1>3. /\ new[i] \in Candidate /\ new[i].lesson = old[i].lesson /\ new[i].status = s
  BY <1>1 DEF Candidate, Written
<1>4. new \in Seq(Candidate) /\ Len(new) = Len(old)
  <2>1. new = [k \in 1 .. Len(old) |-> new[k]]
    BY <1>1 DEF Written
  <2>2. \A k \in 1 .. Len(old) : new[k] \in Candidate
    BY <1>1, <1>2, <1>3
  <2> HIDE DEF new
  <2>3. new \in [1 .. Len(old) -> Candidate]
    BY <2>1, <2>2
  <2>4. QED
    BY <1>1, <2>3
<1> HIDE DEF new
<1>5. OnePerLesson(new)
  BY <1>2, <1>3 DEF OnePerLesson
<1>6. (s \in {"verified", "promoted"} => old[i].lesson \in checked) => Backed(new)
  BY <1>2, <1>3 DEF Backed
<1>7. QED
  BY <1>2, <1>3, <1>4, <1>5, <1>6 DEF new

-----------------------------------------------------------------------------
(* Steps that leave the stores, or end the call *)

LEMMA StoresKept ==
  ASSUME StoresOK, UNCHANGED <<memories, skills, backlog, standing>>,
         grants \subseteq grants', grants' \subseteq Lessons,
         checked \subseteq checked', checked' \subseteq Proposals \cap grants'
  PROVE  StoresOK'
<1>1. ActiveIsGranted'
  BY DEF StoresOK, ActiveIsGranted
<1>2. Backed(backlog)' /\ OnePerLesson(backlog)'
  BY DEF StoresOK, Backed, OnePerLesson
<1>3. LiveLessonsDistinct' /\ Standing'
  BY DEF StoresOK, LiveLessonsDistinct, Standing
<1>4. QED
  BY <1>1, <1>2, <1>3 DEF StoresOK

LEMMA Stopped == Stop => CallOK'
<1> SUFFICES ASSUME Stop PROVE CallOK'
  OBVIOUS
<1> USE DEF Stop
<1>1. work' \in Seq(Candidate) /\ queue' \in Seq(1 .. Len(work')) /\ DOMAIN work' = {}
  OBVIOUS
<1>2. job' \in Job
  BY DEF NoJob, Job, Live
<1>3. Working'
  BY DEF Working, NoJob, Live
<1>4. OnePerLesson(work)' /\ Backed(work)'
  BY <1>1 DEF OnePerLesson, Backed
<1>5. QED
  BY <1>1, <1>2, <1>3, <1>4 DEF CallOK

LEMMA InitInvariant == Init => DInv
<1> SUFFICES ASSUME Init PROVE DInv
  OBVIOUS
<1> USE DEF Init
<1>1. /\ memories \in Seq(Memory) /\ backlog \in Seq(Candidate) /\ work \in Seq(Candidate)
      /\ DOMAIN memories = {} /\ DOMAIN backlog = {} /\ DOMAIN work = {}
      /\ queue \in Seq(1 .. Len(work))
  OBVIOUS
<1>2. skills \in [Names -> Skill] /\ \A n \in Names : skills[n].status # "active"
  BY DEF Skill
<1>3. job \in Job /\ job.status \in Live
  BY DEF NoJob, Job, Live
<1>4. StoresOK
  BY <1>1, <1>2 DEF StoresOK, LiveLessonsDistinct, ActiveIsGranted, Standing, OnePerLesson, Backed
<1>5. CallOK
  BY <1>1, <1>3 DEF CallOK, Working, OnePerLesson, Backed
<1>6. QED
  BY <1>4, <1>5 DEF DInv

\* evolve() begins, for a user, a reflection, an eval or a promotion.
LEMMA CallBegins ==
  ASSUME CallOK, NEW l \in Lessons, NEW trusted \in BOOLEAN, NEW strong \in BOOLEAN,
         NEW next \in {"idle", "gate", "promoted"}, Call(l, trusted, strong, next),
         trusted => l \in grants',
         next = "promoted" => queue' # << >> /\ work'[Head(queue')].status = "verified",
         work' \in Seq(Candidate), queue' \in Seq(1 .. Len(work')),
         UNCHANGED <<passing, promote>>, OnePerLesson(work'), Backed(work)'
  PROVE  CallOK'
<1>1. pc' = "evolve_memory" /\ job' \in Job
  BY LessonsAssumption DEF Call, NoJob, Job, Live
<1>2. /\ job'.asked = l /\ job'.trusted = trusted /\ job'.next = next /\ job'.status = "candidate"
      /\ job'.dup = FALSE
  BY DEF Call, NoJob
<1>3. Working'
  BY <1>1, <1>2 DEF Working, Live
<1>4. OnePerLesson(work)'
  BY DEF OnePerLesson
<1>5. QED
  BY <1>1, <1>3, <1>4 DEF CallOK

LEMMA ManualFeedbackKeeps == ASSUME DInv, NEW l \in Feedback, ManualFeedback(l) PROVE DInv'
<1>1. l \in Lessons
  BY LessonsAssumption
<1>2. /\ Call(l, TRUE, FALSE, "idle") /\ grants' = grants \cup {l}
      /\ UNCHANGED <<memories, skills, backlog, work, queue, passing, promote, checked, standing>>
  BY DEF ManualFeedback, assets, dream
<1>3. StoresOK'
  BY <1>1, <1>2, StoresKept DEF DInv, StoresOK
<1>4. OnePerLesson(work') /\ Backed(work)' /\ work' \in Seq(Candidate) /\ queue' \in Seq(1 .. Len(work'))
  BY <1>2 DEF DInv, CallOK, Backed, OnePerLesson
<1>5. CallOK'
  BY <1>1, <1>2, <1>4, CallBegins DEF DInv
<1>6. QED
  BY <1>3, <1>5 DEF DInv

LEMMA ReflectKeeps == ASSUME DInv, NEW l \in Feedback, Reflect(l) PROVE DInv'
<1>1. l \in Lessons
  BY LessonsAssumption
<1>2. /\ Call(l, FALSE, FALSE, "idle")
      /\ UNCHANGED <<memories, skills, backlog, work, queue, passing, promote, checked, standing,
                     grants>>
  BY DEF Reflect, assets, dream
<1>3. StoresOK'
  BY <1>1, <1>2, StoresKept DEF DInv, StoresOK
<1>4. OnePerLesson(work') /\ Backed(work)' /\ work' \in Seq(Candidate) /\ queue' \in Seq(1 .. Len(work'))
  BY <1>2 DEF DInv, CallOK, Backed, OnePerLesson
<1>5. CallOK'
  BY <1>1, <1>2, <1>4, CallBegins DEF DInv
<1>6. QED
  BY <1>3, <1>5 DEF DInv

LEMMA EvalLessonKeeps ==
  ASSUME DInv, NEW l \in Feedback, NEW strong \in BOOLEAN, EvalLesson(l, strong)
  PROVE  DInv'
<1>1. l \in Lessons
  BY LessonsAssumption
<1>2. /\ Call(l, FALSE, strong, "gate")
      /\ UNCHANGED <<memories, skills, backlog, work, queue, passing, promote, checked, standing,
                     grants>>
  BY DEF EvalLesson, assets, dream
<1>3. StoresOK'
  BY <1>1, <1>2, StoresKept DEF DInv, StoresOK
<1>4. OnePerLesson(work') /\ Backed(work)' /\ work' \in Seq(Candidate) /\ queue' \in Seq(1 .. Len(work'))
  BY <1>2 DEF DInv, CallOK, Backed, OnePerLesson
<1>5. CallOK'
  BY <1>1, <1>2, <1>4, CallBegins DEF DInv
<1>6. QED
  BY <1>3, <1>5 DEF DInv

LEMMA CrashKeeps == DInv /\ Crash => DInv'
<1> SUFFICES ASSUME DInv, Crash PROVE DInv'
  OBVIOUS
<1>1. Stop /\ UNCHANGED <<memories, skills, backlog, grants, standing, checked>>
  BY DEF Crash, assets
<1>2. StoresOK'
  BY <1>1, StoresKept DEF DInv, StoresOK
<1>3. QED
  BY <1>1, <1>2, Stopped DEF DInv

LEMMA GateDoneKeeps == DInv /\ GateDone => DInv'
<1> SUFFICES ASSUME DInv, GateDone PROVE DInv'
  OBVIOUS
<1>1. Stop /\ UNCHANGED <<memories, skills, backlog, grants, standing, checked>>
  BY DEF GateDone, assets
<1>2. StoresOK'
  BY <1>1, StoresKept DEF DInv, StoresOK
<1>3. QED
  BY <1>1, <1>2, Stopped DEF DInv

-----------------------------------------------------------------------------
(* evolve() *)

\* A lesson is taken as it is or added; an added one is like no live one.
LEMMA EvolveMemoryKeeps == DInv /\ EvolveMemory => DInv'
<1> SUFFICES ASSUME DInv, EvolveMemory PROVE DInv'
  OBVIOUS
<1>0. StoresOK /\ CallOK /\ Working /\ pc = "evolve_memory" /\ job \in Job
  BY DEF DInv, CallOK, EvolveMemory
<1>1. /\ memories \in Seq(Memory) /\ Len(memories) \in Nat /\ DOMAIN memories = 1 .. Len(memories)
      /\ job.asked \in Lessons /\ (job.trusted => job.asked \in grants) /\ ~job.dup
      /\ job.trusted \in BOOLEAN
  BY <1>0 DEF StoresOK, Working, Job
<1>2. /\ pc' = "evolve_skill"
      /\ UNCHANGED <<skills, backlog, work, queue, passing, promote, checked, grants>>
      /\ standing' = IF job'.dup THEN standing ELSE standing \cup
                       (IF job.trusted THEN {job.asked} ELSE {})
  BY DEF EvolveMemory, dream
<1>3. standing \subseteq standing' /\ standing' \subseteq Lessons
  BY <1>0, <1>1, <1>2 DEF StoresOK
<1>4. OnePerLesson(work)' /\ Backed(work)' /\ OnePerLesson(backlog)' /\ Backed(backlog)'
  BY <1>0, <1>2 DEF StoresOK, CallOK, OnePerLesson, Backed
<1> DEFINE asset == IF job.trusted THEN "active" ELSE "candidate"
           lesson == [lesson |-> job.asked, conflicts |-> InConflict(job.asked),
                      status |-> IF InConflict(job.asked) /\ asset = "active"
                                   THEN "quarantined" ELSE asset]
           twin == memories[Max(Alike(job.asked))]
<1>5. CASE Alike(job.asked) # {}
  <2>1. /\ memories' = memories
        /\ job' = [job EXCEPT !.fp = twin.lesson, !.status = twin.status, !.dup = TRUE]
    BY <1>5 DEF EvolveMemory
  <2>2. Max(Alike(job.asked)) \in Alike(job.asked)
    BY <1>1, <1>5, MaxOfBounded DEF Alike
  <2>3. twin \in Memory /\ twin.status \in Live
    BY <1>1, <2>2 DEF Alike
  <2>4. twin.lesson \in Lessons
    BY <2>3 DEF Memory
  <2>5. twin.status = "active" => twin.lesson \in standing
    BY <1>0, <1>1, <2>2 DEF StoresOK, Standing, Alike
  <2> HIDE DEF twin
  <2>6. /\ job' \in Job /\ job'.fp = twin.lesson /\ job'.status = twin.status /\ job'.dup = TRUE
        /\ job'.asked = job.asked /\ job'.next = job.next
    BY <1>0, <2>1, <2>3, <2>4 DEF Job
  <2>7. standing' = standing
    BY <1>2, <2>6
  <2>8. StoresOK'
    BY <1>0, <1>2, <2>1, <2>7, StoresKept DEF StoresOK
  <2>9. Working'
    BY <1>0, <1>2, <2>3, <2>4, <2>5, <2>6, <2>7 DEF Working
  <2>10. CallOK'
    BY <1>0, <1>2, <1>4, <2>6, <2>9 DEF CallOK
  <2>11. QED
    BY <2>8, <2>10 DEF DInv
<1>6. CASE Alike(job.asked) = {}
  <2>1. /\ job' = [job EXCEPT !.fp = job.asked, !.status = asset]
        /\ memories' = Append(memories, lesson)
    BY <1>6 DEF EvolveMemory
  <2>2. /\ job' \in Job /\ job'.fp = job.asked /\ job'.status = asset /\ job'.dup = job.dup
        /\ job'.asked = job.asked /\ job'.next = job.next
    BY <1>0, <1>1, <2>1 DEF Job, Live
  <2>3. standing' = standing \cup (IF job.trusted THEN {job.asked} ELSE {})
    BY <1>1, <1>2, <2>2
  <2>4. lesson \in Memory /\ lesson.lesson = job.asked
    BY <1>1 DEF Memory, Live, InConflict
  <2>5. lesson.status = "active" => job.trusted /\ ~lesson.conflicts
    OBVIOUS
  <2> HIDE DEF lesson
  <2>6. /\ memories' \in Seq(Memory) /\ DOMAIN memories' = 1 .. Len(memories) + 1
        /\ memories'[Len(memories) + 1] = lesson
        /\ \A i \in 1 .. Len(memories) : memories'[i] = memories[i]
    BY <1>1, <2>1, <2>4
  <2>7. ASSUME NEW i \in DOMAIN memories, memories[i].status \in Live
        PROVE  /\ <<memories[i].lesson, lesson.lesson>> \notin Similar
               /\ <<lesson.lesson, memories[i].lesson>> \notin Similar
    <3>1. <<memories[i].lesson, job.asked>> \notin Similar
      BY <1>6, <2>7 DEF Alike
    <3>2. memories[i].lesson \in Lessons
      <4>1. memories[i] \in Memory
        BY <1>1
      <4>2. QED
        BY <4>1 DEF Memory
    <3>3. QED
      BY <1>1, <2>4, <3>1, <3>2, LessonsAssumption
  <2>8. LiveLessonsDistinct'
    <3>1. SUFFICES ASSUME NEW i \in 1 .. Len(memories) + 1, NEW j \in 1 .. Len(memories) + 1,
                          i # j, memories'[i].status \in Live, memories'[j].status \in Live
                   PROVE  <<memories'[i].lesson, memories'[j].lesson>> \notin Similar
      BY <2>6 DEF LiveLessonsDistinct
    <3>2. CASE i = Len(memories) + 1
      <4>1. j \in 1 .. Len(memories) /\ memories'[j] = memories[j]
        BY <1>1, <2>6, <3>1, <3>2
      <4>2. QED
        BY <1>1, <2>6, <2>7, <3>1, <3>2, <4>1
    <3>3. CASE j = Len(memories) + 1
      <4>1. i \in 1 .. Len(memories) /\ memories'[i] = memories[i]
        BY <1>1, <2>6, <3>1, <3>3
      <4>2. QED
        BY <1>1, <2>6, <2>7, <3>1, <3>3, <4>1
    <3>4. CASE i \in 1 .. Len(memories) /\ j \in 1 .. Len(memories)
      BY <1>0, <1>1, <2>6, <3>1, <3>4 DEF StoresOK, LiveLessonsDistinct
    <3>5. QED
      BY <1>1, <3>2, <3>3, <3>4
  <2>9. ActiveIsGranted' /\ Standing'
    <3>1. ASSUME NEW i \in 1 .. Len(memories) + 1, memories'[i].status = "active"
          PROVE  /\ memories'[i].lesson \in grants' /\ ~memories'[i].conflicts
                 /\ memories'[i].lesson \in standing'
      <4>1. CASE i = Len(memories) + 1
        BY <1>1, <1>2, <2>3, <2>4, <2>5, <2>6, <3>1, <4>1
      <4>2. CASE i \in 1 .. Len(memories)
        BY <1>0, <1>1, <1>2, <1>3, <2>6, <3>1, <4>2 DEF StoresOK, ActiveIsGranted, Standing
      <4>3. QED
        BY <1>1, <4>1, <4>2
    <3>2. \A n \in Names : skills'[n].status = "active" => skills'[n].fp \in standing'
      BY <1>0, <1>2, <1>3 DEF StoresOK, Standing
    <3>3. QED
      BY <2>6, <3>1, <3>2 DEF ActiveIsGranted, Standing
  <2>10. StoresOK'
    BY <1>0, <1>2, <1>3, <1>4, <2>6, <2>8, <2>9 DEF StoresOK
  <2>11. Working'
    BY <1>0, <1>1, <1>2, <2>2, <2>3 DEF Working, Live
  <2>12. CallOK'
    BY <1>0, <1>2, <1>4, <2>2, <2>11 DEF CallOK
  <2>13. QED
    BY <2>10, <2>12 DEF DInv
<1>7. QED
  BY <1>5, <1>6

LEMMA SkillWritten ==
  ASSUME StoresOK, UNCHANGED <<memories, backlog, grants, standing, checked>>,
         skills' \in [Names -> Skill],
         \A n \in Names : skills'[n].status = "active" => skills'[n].fp \in standing
  PROVE  StoresOK'
BY DEF StoresOK, LiveLessonsDistinct, ActiveIsGranted, Standing, OnePerLesson, Backed

\* The candidate at the head of the queue has its new status.
LEMMA ConcludedKeeps ==
  ASSUME CallOK, queue # << >>, NEW status \in {"promoted", "rolled_back"},
         status = "promoted" => work[Head(queue)].lesson \in checked,
         NEW evolved \in Lessons \cup {NoLesson}, Concluded(status, evolved),
         pc' = "verify", job' = NoJob, UNCHANGED <<passing, promote, checked>>
  PROVE  CallOK'
<1> DEFINE i == Head(queue)
<1>1. work' = Written(work, i, status, evolved) /\ queue' = Tail(queue)
  BY DEF Concluded, Written
<1>2. /\ work \in Seq(Candidate) /\ queue \in Seq(1 .. Len(work))
      /\ OnePerLesson(work) /\ Backed(work)
  BY DEF CallOK
<1>3. i \in 1 .. Len(work) /\ Tail(queue) \in Seq(1 .. Len(work)) /\ DOMAIN work = 1 .. Len(work)
  BY <1>2
<1>4. status \in CandidateStatuses
  BY DEF CandidateStatuses
<1> HIDE DEF i
<1>5. /\ work' \in Seq(Candidate) /\ Len(work') = Len(work) /\ OnePerLesson(work')
      /\ (status \in {"verified", "promoted"} => work[i].lesson \in checked) => Backed(work')
  BY <1>1, <1>2, <1>3, <1>4, CandidateWritten
<1>6. Backed(work')
  BY <1>5 DEF i
<1>7. OnePerLesson(work)' /\ Backed(work)'
  BY <1>5, <1>6 DEF OnePerLesson, Backed
<1>8. queue' \in Seq(1 .. Len(work'))
  BY <1>1, <1>3, <1>5
<1>9. job' \in Job /\ Working'
  BY DEF NoJob, Job, Working, Live
<1>10. QED
  BY <1>5, <1>7, <1>8, <1>9 DEF CallOK

LEMMA EvolveSkillKeeps == DInv /\ EvolveSkill => DInv'
<1> SUFFICES ASSUME DInv, EvolveSkill PROVE DInv'
  OBVIOUS
<1>0. StoresOK /\ CallOK /\ Working /\ pc = "evolve_skill" /\ job \in Job
  BY DEF DInv, CallOK, EvolveSkill
<1>1. /\ skills' = IF job.dup /\ \E n \in Names : skills[n].fp = job.fp THEN skills
                   ELSE [skills EXCEPT ![NameOf[job.asked]] =
                           [fp |-> job.fp, status |-> job.status]]
      /\ UNCHANGED <<memories, backlog, grants, standing, checked>>
  BY DEF EvolveSkill
<1>2. /\ job.asked \in Lessons /\ NameOf[job.asked] \in Names /\ job.fp \in Lessons
      /\ job.status \in Live /\ (job.status = "active" => job.fp \in standing)
      /\ job.next \in {"idle", "gate", "promoted"}
      /\ job.next = "promoted" => queue # << >> /\ work[Head(queue)].status = "verified"
  BY <1>0, LessonsAssumption DEF Working
<1>3. skills \in [Names -> Skill]
  BY <1>0 DEF StoresOK
<1>4. skills' \in [Names -> Skill]
  BY <1>1, <1>2, <1>3 DEF Skill
<1>5. ASSUME NEW n \in Names, skills'[n].status = "active" PROVE skills'[n].fp \in standing
  <2>1. \/ skills'[n] = skills[n]
        \/ skills'[n] = [fp |-> job.fp, status |-> job.status]
    BY <1>1, <1>3
  <2>2. CASE skills'[n] = skills[n]
    BY <1>0, <1>5, <2>2 DEF StoresOK, Standing
  <2>3. CASE skills'[n] = [fp |-> job.fp, status |-> job.status]
    BY <1>2, <1>5, <2>3
  <2>4. QED
    BY <2>1, <2>2, <2>3
<1>6. StoresOK'
  BY <1>0, <1>1, <1>4, <1>5, SkillWritten
<1>7. CASE job.next = "idle"
  <2>1. Stop
    BY <1>7 DEF EvolveSkill
  <2>2. QED
    BY <1>6, <2>1, Stopped DEF DInv
<1>8. CASE job.next = "gate"
  <2>1. pc' = "gate" /\ UNCHANGED <<job, work, queue, passing, promote>>
    BY <1>8 DEF EvolveSkill
  <2>2. Working'
    BY <1>2, <2>1 DEF Working
  <2>3. OnePerLesson(work)' /\ Backed(work)'
    BY <1>0, <1>1, <2>1 DEF CallOK, OnePerLesson, Backed
  <2>4. CallOK'
    BY <1>0, <2>1, <2>2, <2>3 DEF CallOK
  <2>5. QED
    BY <1>6, <2>4 DEF DInv
<1>9. CASE job.next = "promoted"
  <2>1. /\ Concluded("promoted", job.fp) /\ pc' = "verify" /\ job' = NoJob
        /\ UNCHANGED <<passing, promote>>
    BY <1>9 DEF EvolveSkill
  <2>2. queue # << >> /\ work[Head(queue)].status = "verified"
    BY <1>2, <1>9
  <2>3. Head(queue) \in DOMAIN work
    BY <1>0, <2>2 DEF CallOK
  <2>4. work[Head(queue)].lesson \in checked
    BY <1>0, <2>2, <2>3 DEF CallOK, Backed
  <2>5. CallOK'
    BY <1>0, <1>1, <1>2, <2>1, <2>2, <2>4, ConcludedKeeps
  <2>6. QED
    BY <1>6, <2>5 DEF DInv
<1>10. QED
  BY <1>2, <1>7, <1>8, <1>9

-----------------------------------------------------------------------------
(* The gate *)

\* Statuses of memories change, but none becomes live again.
LEMMA MemoriesRestatused ==
  ASSUME StoresOK, NEW T \in SUBSET DOMAIN memories,
         NEW s \in Live \cup {"quarantined", "rolled_back"},
         memories' = WithStatus(T, s),
         s \in Live => \A i \in T : memories[i].status \in Live,
         UNCHANGED <<skills, backlog, checked>>,
         grants \subseteq grants', grants' \subseteq Lessons,
         standing \subseteq standing', standing' \subseteq Lessons,
         s = "active" => \A i \in T : /\ memories[i].lesson \in grants' \cap standing'
                                      /\ ~memories[i].conflicts
  PROVE  StoresOK'
<1>1. memories \in Seq(Memory)
  BY DEF StoresOK
<1>2. /\ memories' \in Seq(Memory) /\ DOMAIN memories' = DOMAIN memories
      /\ \A i \in DOMAIN memories : /\ memories'[i].lesson = memories[i].lesson
                                    /\ memories'[i].conflicts = memories[i].conflicts
                                    /\ memories'[i].status = IF i \in T THEN s
                                                             ELSE memories[i].status
  BY <1>1, Restatused
<1>3. LiveLessonsDistinct'
  BY <1>2 DEF StoresOK, LiveLessonsDistinct
<1>4. ActiveIsGranted' /\ Standing'
  BY <1>2 DEF StoresOK, ActiveIsGranted, Standing
<1>5. OnePerLesson(backlog)' /\ Backed(backlog)'
  BY DEF StoresOK, OnePerLesson, Backed
<1>6. QED
  BY <1>2, <1>3, <1>4, <1>5 DEF StoresOK

\* A gate that opens finds evidence, and no staged lesson in conflict.
LEMMA GateKeeps == DInv /\ Gate => DInv'
<1> SUFFICES ASSUME DInv, Gate PROVE DInv'
  OBVIOUS
<1>0. StoresOK /\ CallOK /\ Working /\ pc = "gate" /\ job.fp \in Lessons
  BY DEF DInv, CallOK, Gate, Working
<1>1. /\ grants' = IF job.strong THEN grants \cup {job.fp} ELSE grants
      /\ UNCHANGED <<skills, backlog, standing, checked>>
  BY DEF Gate
<1>2. grants \subseteq grants' /\ grants' \subseteq Lessons
  BY <1>0, <1>1 DEF StoresOK
<1>3. CASE GateOpens
  <2>1. /\ memories' = WithStatus(Staged(job.fp), "verified")
        /\ pc' = "gate_promote" /\ UNCHANGED <<job, work, queue, passing, promote>>
    BY <1>3 DEF Gate, WithStatus
  <2>2. /\ Staged(job.fp) \in SUBSET DOMAIN memories /\ memories \in Seq(Memory)
        /\ \A i \in Staged(job.fp) : memories[i].status \in Live
    BY <1>0 DEF Staged, Live, StoresOK
  <2>3. "verified" \in Live
    BY DEF Live
  <2>4. StoresOK'
    BY <1>0, <1>1, <1>2, <2>1, <2>2, <2>3, MemoriesRestatused DEF StoresOK
  <2>5. /\ DOMAIN memories' = DOMAIN memories
        /\ \A i \in DOMAIN memories : /\ memories'[i].lesson = memories[i].lesson
                                      /\ memories'[i].conflicts = memories[i].conflicts
                                      /\ memories'[i].status =
                                           IF i \in Staged(job.fp) THEN "verified"
                                           ELSE memories[i].status
    BY <2>1, <2>2, <2>3, Restatused
  <2>6. \A i \in Staged(job.fp)' : i \in Staged(job.fp) /\ memories'[i].conflicts = memories[i].conflicts
    BY <2>1, <2>5 DEF Staged
  <2>7. job.fp \in grants' /\ \A i \in Staged(job.fp) : ~memories[i].conflicts
    BY <1>1, <1>3 DEF GateOpens
  <2>8. Working'
    BY <1>0, <2>1, <2>6, <2>7 DEF Working
  <2>9. OnePerLesson(work)' /\ Backed(work)'
    BY <1>0, <1>1, <2>1 DEF CallOK, OnePerLesson, Backed
  <2>10. CallOK'
    BY <1>0, <2>1, <2>8, <2>9 DEF CallOK
  <2>11. QED
    BY <2>4, <2>10 DEF DInv
<1>4. CASE ~GateOpens
  <2>1. Stop /\ memories' = memories
    BY <1>4 DEF Gate
  <2>2. StoresOK'
    BY <1>0, <1>1, <1>2, <2>1, StoresKept DEF StoresOK
  <2>3. QED
    BY <2>1, <2>2, Stopped DEF DInv
<1>5. QED
  BY <1>3, <1>4

LEMMA GatePromoteKeeps == DInv /\ GatePromote => DInv'
<1> SUFFICES ASSUME DInv, GatePromote PROVE DInv'
  OBVIOUS
<1>0. /\ StoresOK /\ CallOK /\ Working /\ pc = "gate_promote"
      /\ job.fp \in Lessons /\ job.fp \in grants
      /\ \A i \in Staged(job.fp) : ~memories[i].conflicts
  BY DEF DInv, CallOK, GatePromote, Working
<1>1. /\ memories' = WithStatus(Staged(job.fp), "active")
      /\ pc' = "gate_skills" /\ standing' = standing \cup {job.fp}
      /\ UNCHANGED <<skills, backlog, work, queue, passing, promote, checked, job, grants>>
  BY DEF GatePromote, dream, WithStatus
<1>2. /\ Staged(job.fp) \in SUBSET DOMAIN memories
      /\ \A i \in Staged(job.fp) : memories[i].status \in Live /\ memories[i].lesson = job.fp
  BY DEF Staged, Live
<1>3. "active" \in Live
  BY DEF Live
<1>4. StoresOK'
  BY <1>0, <1>1, <1>2, <1>3, MemoriesRestatused DEF StoresOK
<1>5. Working'
  BY <1>0, <1>1 DEF Working
<1>6. OnePerLesson(work)' /\ Backed(work)'
  BY <1>0, <1>1 DEF CallOK, OnePerLesson, Backed
<1>7. CallOK'
  BY <1>0, <1>1, <1>5, <1>6 DEF CallOK
<1>8. QED
  BY <1>4, <1>7 DEF DInv

LEMMA GateSkillKeeps == DInv /\ GateSkill => DInv'
<1> SUFFICES ASSUME DInv, GateSkill PROVE DInv'
  OBVIOUS
<1>0. /\ StoresOK /\ CallOK /\ Working /\ pc = "gate_skills" /\ job.fp \in standing
      /\ skills \in [Names -> Skill]
  BY DEF DInv, CallOK, GateSkill, Working, StoresOK
<1>1. UNCHANGED <<memories, backlog, work, queue, passing, promote, checked, pc, job, grants,
                  standing>>
  BY DEF GateSkill, dream
<1>2. PICK n \in Names :
        /\ skills[n].fp = job.fp
        /\ skills' = [skills EXCEPT ![n].status = IF @ = "verified" THEN "active" ELSE "verified"]
  BY DEF GateSkill
<1>3. /\ skills' \in [Names -> Skill]
      /\ \A m \in Names : skills'[m].fp = skills[m].fp /\ (m # n => skills'[m] = skills[m])
  BY <1>0, <1>2 DEF Skill, Live
<1>4. StoresOK'
  <2>1. ASSUME NEW m \in Names, skills'[m].status = "active" PROVE skills'[m].fp \in standing
    BY <1>0, <1>2, <1>3, <2>1 DEF StoresOK, Standing
  <2>2. QED
    BY <1>0, <1>1, <1>3, <2>1, SkillWritten
<1>5. Working' /\ OnePerLesson(work)' /\ Backed(work)'
  BY <1>0, <1>1 DEF CallOK, Working, OnePerLesson, Backed
<1>6. CallOK'
  BY <1>0, <1>1, <1>5 DEF CallOK
<1>7. QED
  BY <1>4, <1>6 DEF DInv

-----------------------------------------------------------------------------
(* The backlog *)

\* A proposal is merged into the backlog: one more candidate, or one raised.
LEMMA MergedKeeps ==
  ASSUME StoresOK, NEW l \in Proposals
  PROVE  Merged(l) \in Seq(Candidate) /\ OnePerLesson(Merged(l)) /\ Backed(Merged(l))
<1>1. /\ backlog \in Seq(Candidate) /\ OnePerLesson(backlog) /\ Backed(backlog)
      /\ Len(backlog) \in Nat /\ DOMAIN backlog = 1 .. Len(backlog)
  BY DEF StoresOK
<1>2. CASE \E i \in DOMAIN backlog : backlog[i].lesson = l
  <2> DEFINE new == Merged(l)
  <2>1. new = [i \in DOMAIN backlog |->
                 IF backlog[i].lesson = l /\ Rank(backlog[i].status) < Rank("accepted")
                   THEN [backlog[i] EXCEPT !.status = "accepted"] ELSE backlog[i]]
    BY <1>2 DEF Merged
  <2> HIDE DEF new
  <2>2. ASSUME NEW i \in DOMAIN backlog
        PROVE  /\ new[i] \in Candidate /\ new[i].lesson = backlog[i].lesson
               /\ new[i].status \in {"verified", "promoted"} => new[i].status = backlog[i].status
    <3>1. backlog[i] \in Candidate
      BY <1>1
    <3>2. \/ new[i] = backlog[i]
          \/ new[i] = [backlog[i] EXCEPT !.status = "accepted"]
      BY <2>1
    <3>3. QED
      BY <3>1, <3>2 DEF Candidate, CandidateStatuses
  <2>3. DOMAIN new = 1 .. Len(backlog) /\ new = [i \in 1 .. Len(backlog) |-> new[i]]
    BY <1>1, <2>1
  <2>4. new \in [1 .. Len(backlog) -> Candidate]
    BY <1>1, <2>2, <2>3
  <2>5. new \in Seq(Candidate)
    BY <1>1, <2>4
  <2>6. OnePerLesson(new) /\ Backed(new)
    BY <1>1, <2>2, <2>3 DEF OnePerLesson, Backed
  <2>7. QED
    BY <2>5, <2>6 DEF new
<1>3. CASE ~\E i \in DOMAIN backlog : backlog[i].lesson = l
  <2> DEFINE new == Append(backlog, Proposed(l))
  <2>1. Merged(l) = new
    BY <1>3 DEF Merged
  <2>2. Proposed(l) \in Candidate /\ Proposed(l).lesson = l /\ Proposed(l).status = "accepted"
    BY DEF Proposed, Candidate, CandidateStatuses
  <2>3. /\ new \in Seq(Candidate) /\ DOMAIN new = 1 .. Len(backlog) + 1
        /\ new[Len(backlog) + 1] = Proposed(l)
        /\ \A i \in 1 .. Len(backlog) : new[i] = backlog[i]
    BY <1>1, <2>2
  <2> HIDE DEF new
  <2>4. OnePerLesson(new)
    <3>1. SUFFICES ASSUME NEW i \in 1 .. Len(backlog) + 1, NEW j \in 1 .. Len(backlog) + 1,
                          new[i].lesson = new[j].lesson
                   PROVE  i = j
      BY <2>3 DEF OnePerLesson
    <3>2. CASE i \in 1 .. Len(backlog) /\ j \in 1 .. Len(backlog)
      BY <1>1, <2>3, <3>1, <3>2 DEF OnePerLesson
    <3>3. CASE i = Len(backlog) + 1 \/ j = Len(backlog) + 1
      BY <1>1, <1>3, <2>2, <2>3, <3>1, <3>3
    <3>4. QED
      BY <1>1, <3>2, <3>3
  <2>5. Backed(new)
    <3>1. SUFFICES ASSUME NEW i \in 1 .. Len(backlog) + 1,
                          new[i].status \in {"verified", "promoted"}
                   PROVE  new[i].lesson \in checked
      BY <2>3 DEF Backed
    <3>2. i \in 1 .. Len(backlog)
      BY <1>1, <2>2, <2>3, <3>1
    <3>3. QED
      BY <1>1, <2>3, <3>1, <3>2 DEF Backed
  <2>6. QED
    BY <2>1, <2>3, <2>4, <2>5
<1>4. QED
  BY <1>2, <1>3

\* The backlog file is rewritten.
LEMMA BacklogWritten ==
  ASSUME StoresOK, UNCHANGED <<memories, skills, grants, standing>>,
         checked' \subseteq checked,
         backlog' \in Seq(Candidate), OnePerLesson(backlog)', Backed(backlog)'
  PROVE  StoresOK'
BY DEF StoresOK, LiveLessonsDistinct, ActiveIsGranted, Standing

LEMMA RunKeeps == ASSUME DInv, NEW l \in Proposals, Run(l) PROVE DInv'
<1>0. StoresOK /\ CallOK /\ pc = "idle"
  BY DEF DInv, Run
<1>1. /\ backlog' \in {Merged(l), << >>}
      /\ UNCHANGED <<memories, skills, pc, job, work, queue, passing, promote, grants, standing,
                     checked>>
  BY DEF Run, assets
<1>2. backlog' \in Seq(Candidate) /\ OnePerLesson(backlog') /\ Backed(backlog')
  <2>1. CASE backlog' = Merged(l)
    BY <1>0, <2>1, MergedKeeps
  <2>2. CASE backlog' = << >>
    BY <2>2 DEF OnePerLesson, Backed
  <2>3. QED
    BY <1>1, <2>1, <2>2
<1>3. OnePerLesson(backlog)' /\ Backed(backlog)'
  BY <1>1, <1>2 DEF OnePerLesson, Backed
<1>4. StoresOK'
  BY <1>0, <1>1, <1>2, <1>3, BacklogWritten
<1>5. Working' /\ OnePerLesson(work)' /\ Backed(work)'
  BY <1>0, <1>1 DEF CallOK, Working, OnePerLesson, Backed
<1>6. CallOK'
  BY <1>0, <1>1, <1>5 DEF CallOK
<1>7. QED
  BY <1>4, <1>6 DEF DInv

LEMMA UnretiredPositions ==
  ASSUME NEW list \in Seq(Candidate)
  PROVE  Unretired(list) \in Seq(1 .. Len(list))
<1> DEFINE ids == [i \in DOMAIN list |-> i]
           n == Len(list)
           B == Seq(1 .. n)
           Op(k, r) == IF list[ids[k]].status = "rolled_back" THEN r ELSE Append(r, ids[k])
           step == [k \in 1 .. n |-> [r \in B |-> Op(k, r)]]
           Table(g) == g = [t \in SUBSET (1 .. n) |->
                              IF t = {} THEN << >> ELSE Op(Max(t), g[t \ {Max(t)}])]
           iter == CHOOSE g : Table(g)
<1>1. /\ n \in Nat /\ DOMAIN list = 1 .. n /\ DOMAIN ids = 1 .. n
      /\ \A k \in 1 .. n : ids[k] = k
  OBVIOUS
<1>2. Unretired(list) = iter[1 .. n]
  BY <1>1 DEF Unretired, FoldLeftDomain, FoldLeft, MapThenFoldSet
<1> HIDE DEF ids
<1>3. ASSUME NEW k \in 1 .. n, NEW r \in B PROVE Op(k, r) \in B
  <2>1. ids[k] \in 1 .. n
    BY <1>1
  <2> HIDE DEF n
  <2>2. Append(r, ids[k]) \in B
    BY <2>1
  <2>3. QED
    BY <2>2
<1>4. step \in [1 .. n -> [B -> B]] /\ << >> \in B /\ n \in Nat
  BY <1>1, <1>3
<1>5. \E g : Table(g)
  <2>1. PICK g \in [SUBSET (1 .. n) -> B] : \A t \in SUBSET (1 .. n) : Folded(g, t, << >>, step)
    <3> HIDE DEF step, B, n
    <3>1. QED
      BY <1>4, FoldTable
  <2>2. ASSUME NEW t \in SUBSET (1 .. n), t # {} PROVE g[t] = Op(Max(t), g[t \ {Max(t)}])
    <3>1. Max(t) \in 1 .. n /\ t \ {Max(t)} \in SUBSET (1 .. n)
      BY <1>1, <2>2, MaxOfBounded
    <3>2. g[t \ {Max(t)}] \in B
      BY <2>1, <3>1
    <3>3. g[t] = step[Max(t)][g[t \ {Max(t)}]]
      BY <2>1, <2>2 DEF Folded
    <3> HIDE DEF Op
    <3>4. QED
      BY <3>1, <3>2, <3>3
  <2>3. ASSUME NEW t \in SUBSET (1 .. n), t = {} PROVE g[t] = << >>
    BY <2>1, <2>3 DEF Folded
  <2> HIDE DEF Op
  <2>4. \A t \in SUBSET (1 .. n) : g[t] = IF t = {} THEN << >> ELSE Op(Max(t), g[t \ {Max(t)}])
    BY <2>2, <2>3
  <2>5. g = [t \in SUBSET (1 .. n) |-> g[t]]
    BY <2>1
  <2>6. Table(g)
    BY <2>4, <2>5, Zenon
  <2>7. QED
    BY <2>6
<1>6. Table(iter)
  BY <1>5
<1> HIDE DEF iter
<1>7. iter[{}] = << >>
  BY <1>6
<1>8. ASSUME NEW t \in SUBSET (1 .. n), t # {}, iter[t \ {Max(t)}] \in B
      PROVE  iter[t] = step[Max(t)][iter[t \ {Max(t)}]]
  <2>1. Max(t) \in 1 .. n
    BY <1>1, <1>8, MaxOfBounded
  <2> HIDE DEF Op
  <2>2. iter[t] = Op(Max(t), iter[t \ {Max(t)}])
    BY <1>6, <1>8
  <2>3. QED
    BY <1>8, <2>1, <2>2
<1>9. PICK h \in [0 .. n -> B] : h[n] = iter[1 .. n]
  <2>1. IsFold(iter, n, B, << >>, step)
    BY <1>7, <1>8, Zenon DEF IsFold
  <2> HIDE DEF step, n, B
  <2>2. QED
    BY <1>4, <2>1, FoldUnrolls
<1>10. QED
  BY <1>1, <1>2, <1>9

LEMMA VerifyKeeps ==
  ASSUME DInv, NEW pass \in SUBSET (Verifiers \ {Manual}), NEW prom \in BOOLEAN,
         Verify(pass, prom)
  PROVE  DInv'
<1>0. StoresOK /\ CallOK /\ pc = "idle"
  BY DEF DInv, Verify
<1>1. /\ work' = backlog /\ queue' = Unretired(backlog) /\ passing' = pass /\ promote' = prom
      /\ pc' = "verify"
      /\ UNCHANGED <<memories, skills, backlog, job, grants, standing, checked>>
  BY DEF Verify, assets
<1>2. StoresOK'
  BY <1>0, <1>1, StoresKept DEF StoresOK
<1>3. work' \in Seq(Candidate) /\ queue' \in Seq(1 .. Len(work'))
  BY <1>0, <1>1, UnretiredPositions DEF StoresOK
<1>4. Working' /\ OnePerLesson(work)' /\ Backed(work)'
  BY <1>0, <1>1 DEF StoresOK, CallOK, Working, OnePerLesson, Backed
<1>5. CallOK'
  BY <1>0, <1>1, <1>3, <1>4 DEF CallOK
<1>6. QED
  BY <1>2, <1>5 DEF DInv

\* A candidate that is verified now passes, or passed when it was.
LEMMA VerifyCandidateKeeps == DInv /\ VerifyCandidate => DInv'
<1> SUFFICES ASSUME DInv, VerifyCandidate PROVE DInv'
  OBVIOUS
<1> DEFINE i == Head(queue)
           l == work[i].lesson
           ok == VerifierOf[l] \in passing
           status == IF ok /\ Rank(work[i].status) < Rank("verified")
                       THEN "verified" ELSE work[i].status
           judged == Written(work, i, status, NoLesson)
<1>0. /\ StoresOK /\ CallOK /\ pc = "verify" /\ queue # << >> /\ job \in Job
      /\ work \in Seq(Candidate) /\ queue \in Seq(1 .. Len(work))
      /\ OnePerLesson(work) /\ Backed(work)
  BY DEF DInv, VerifyCandidate, CallOK
<1>1. /\ i \in DOMAIN work /\ work[i] \in Candidate /\ Tail(queue) \in Seq(1 .. Len(work))
  BY <1>0
<1>2. /\ checked' = IF ok THEN checked \cup {l} ELSE checked
      /\ grants' = IF ok THEN grants \cup {l} ELSE grants
      /\ UNCHANGED <<memories, skills, backlog, passing, promote, standing>>
  BY DEF VerifyCandidate, assets
<1>3. \/ promote /\ status = "verified"
         /\ Call(l, TRUE, FALSE, "promoted") /\ work' = judged /\ queue' = queue
      \/ /\ work' = judged /\ pc' = "rollback_memory" /\ queue' = queue
         /\ job' = [NoJob EXCEPT !.fp = judged[i].evolved, !.next = "rolled_back"]
      \/ work' = judged /\ queue' = Tail(queue) /\ UNCHANGED <<pc, job>>
  BY DEF VerifyCandidate, Written
<1>4. /\ l \in Proposals /\ l \in Lessons /\ status \in CandidateStatuses
      /\ status \in {"verified", "promoted"} => ok \/ work[i].status \in {"verified", "promoted"}
  BY <1>1, LessonsAssumption DEF Candidate, CandidateStatuses
<1> HIDE DEF i, l, ok, status, judged
<1>5. /\ judged \in Seq(Candidate) /\ DOMAIN judged = DOMAIN work /\ Len(judged) = Len(work)
      /\ OnePerLesson(judged) /\ judged[i].lesson = l /\ judged[i].status = status
      /\ \A k \in DOMAIN work : k # i => judged[k] = work[k]
  <2>1. NoLesson \in Lessons \cup {NoLesson}
    OBVIOUS
  <2>2. QED
    BY <1>0, <1>1, <1>4, <2>1, CandidateWritten DEF judged, l
<1>6. checked \subseteq checked' /\ checked' \subseteq Proposals \cap grants'
      /\ grants \subseteq grants' /\ grants' \subseteq Lessons
  BY <1>0, <1>2, <1>4 DEF StoresOK
<1>7. StoresOK'
  BY <1>0, <1>2, <1>6, StoresKept
<1>8. status \in {"verified", "promoted"} => l \in checked'
  <2>1. work[i].status \in {"verified", "promoted"} => l \in checked
    BY <1>0, <1>1 DEF Backed, l
  <2>2. ok => l \in checked'
    BY <1>2
  <2>3. QED
    BY <1>4, <1>6, <2>1, <2>2
<1>9. work' = judged
  BY <1>3
<1>10. OnePerLesson(work') /\ OnePerLesson(work)'
  BY <1>5, <1>9 DEF OnePerLesson
<1>11. Backed(work)'
  <2>1. SUFFICES ASSUME NEW k \in DOMAIN work, judged[k].status \in {"verified", "promoted"}
                 PROVE  judged[k].lesson \in checked'
    BY <1>5, <1>9 DEF Backed
  <2>2. CASE k = i
    BY <1>5, <1>8, <2>1, <2>2
  <2>3. CASE k # i
    BY <1>0, <1>5, <1>6, <2>1, <2>3 DEF Backed
  <2>4. QED
    BY <2>2, <2>3
<1>12. CASE promote /\ status = "verified" /\ Call(l, TRUE, FALSE, "promoted") /\ queue' = queue
  <2>1. l \in grants'
    BY <1>6, <1>8, <1>12
  <2>2. queue' # << >> /\ work'[Head(queue')].status = "verified"
    BY <1>0, <1>5, <1>9, <1>12 DEF i
  <2>3. work' \in Seq(Candidate) /\ queue' \in Seq(1 .. Len(work'))
    BY <1>0, <1>5, <1>9, <1>12
  <2>4. CallOK'
    BY <1>0, <1>2, <1>4, <1>10, <1>11, <1>12, <2>1, <2>2, <2>3, CallBegins
  <2>5. QED
    BY <1>7, <2>4 DEF DInv
<1>13. CASE /\ pc' = "rollback_memory" /\ queue' = queue
            /\ job' = [NoJob EXCEPT !.fp = judged[i].evolved, !.next = "rolled_back"]
  <2>1. judged[i].evolved \in Lessons \cup {NoLesson}
    <3>1. judged[i] \in Candidate
      BY <1>1, <1>5
    <3>2. QED
      BY <3>1 DEF Candidate
  <2>2. job' \in Job /\ job'.status = "candidate"
    BY <1>13, <2>1 DEF NoJob, Job, Live
  <2>3. Working'
    BY <1>0, <1>13, <2>2 DEF Working, Live
  <2>4. CallOK'
    BY <1>0, <1>2, <1>5, <1>9, <1>10, <1>11, <1>13, <2>2, <2>3 DEF CallOK
  <2>5. QED
    BY <1>7, <2>4 DEF DInv
<1>14. CASE queue' = Tail(queue) /\ UNCHANGED <<pc, job>>
  <2>1. Working'
    BY <1>0, <1>14 DEF CallOK, Working
  <2>2. CallOK'
    BY <1>0, <1>1, <1>2, <1>5, <1>9, <1>10, <1>11, <1>14, <2>1 DEF CallOK
  <2>3. QED
    BY <1>7, <2>2 DEF DInv
<1>15. QED
  BY <1>3, <1>12, <1>13, <1>14

-----------------------------------------------------------------------------
(* Rolling back *)

LEMMA RollbackByIdKeeps == ASSUME DInv, NEW id \in Ids, RollbackById(id) PROVE DInv'
<1> DEFINE named == {i \in DOMAIN backlog : IdOf[backlog[i].lesson] = id}
           first == Min(named)
<1>0. StoresOK /\ CallOK
  BY DEF DInv
<1>1. /\ named # {} /\ queue' = << first >> /\ work' = backlog /\ pc' = "rollback_memory"
      /\ job' = [NoJob EXCEPT !.fp = backlog[first].evolved, !.next = "rolled_back"]
      /\ UNCHANGED <<memories, skills, backlog, passing, promote, grants, standing, checked>>
  BY DEF RollbackById, assets
<1>2. backlog \in Seq(Candidate) /\ Len(backlog) \in Nat /\ DOMAIN backlog = 1 .. Len(backlog)
  BY <1>0 DEF StoresOK
<1>3. first \in 1 .. Len(backlog)
  <2>1. named \subseteq 1 .. Len(backlog)
    BY <1>2
  <2> HIDE DEF named
  <2>2. first \in named
    BY <1>1, <1>2, <2>1, MinOfBounded
  <2>3. QED
    BY <2>1, <2>2
<1> HIDE DEF first
<1>4. backlog[first].evolved \in Lessons \cup {NoLesson}
  <2>1. backlog[first] \in Candidate
    BY <1>2, <1>3
  <2>2. QED
    BY <2>1 DEF Candidate
<1>5. job' \in Job /\ job'.status \in Live
  BY <1>1, <1>4 DEF NoJob, Job, Live
<1>6. StoresOK'
  BY <1>0, <1>1, StoresKept DEF StoresOK
<1>7. work' \in Seq(Candidate) /\ queue' \in Seq(1 .. Len(work')) /\ queue' # << >>
  BY <1>1, <1>2, <1>3
<1>8. Working'
  BY <1>1, <1>5, <1>7 DEF Working
<1>9. OnePerLesson(work)' /\ Backed(work)'
  BY <1>0, <1>1 DEF StoresOK, OnePerLesson, Backed
<1>10. CallOK'
  BY <1>0, <1>1, <1>5, <1>7, <1>8, <1>9 DEF CallOK
<1>11. QED
  BY <1>6, <1>10 DEF DInv

LEMMA RollbackMemoryKeeps == DInv /\ RollbackMemory => DInv'
<1> SUFFICES ASSUME DInv, RollbackMemory PROVE DInv'
  OBVIOUS
<1> DEFINE T == {i \in DOMAIN memories : memories[i].lesson = job.fp
                                         /\ memories[i].status = "active"}
<1>0. StoresOK /\ CallOK /\ Working /\ pc = "rollback_memory" /\ queue # << >>
  BY DEF DInv, CallOK, RollbackMemory, Working
<1>1. /\ memories' = WithStatus(T, "rolled_back") /\ pc' = "rollback_skills"
      /\ UNCHANGED <<skills, backlog, work, queue, passing, promote, checked, job, grants,
                     standing>>
  BY DEF RollbackMemory, dream, WithStatus
<1>2. T \in SUBSET DOMAIN memories /\ "rolled_back" \notin Live /\ memories \in Seq(Memory)
      /\ grants \subseteq Lessons /\ standing \subseteq Lessons
  BY <1>0 DEF Live, StoresOK
<1>3. \A i \in DOMAIN memories : memories[i].lesson = job.fp => i \in T \/ memories[i].status # "active"
  OBVIOUS
<1> HIDE DEF T
<1>4. StoresOK'
  BY <1>0, <1>1, <1>2, MemoriesRestatused
<1>5. \A i \in DOMAIN memories' : memories'[i].lesson = job.fp => memories'[i].status # "active"
  <2>1. /\ DOMAIN memories' = DOMAIN memories
        /\ \A i \in DOMAIN memories :
             /\ memories'[i].lesson = memories[i].lesson
             /\ memories'[i].status = IF i \in T THEN "rolled_back" ELSE memories[i].status
    BY <1>1, <1>2, Restatused
  <2>2. QED
    BY <1>3, <2>1
<1>6. Working'
  BY <1>0, <1>1, <1>5 DEF Working
<1>7. OnePerLesson(work)' /\ Backed(work)'
  BY <1>0, <1>1 DEF CallOK, OnePerLesson, Backed
<1>8. CallOK'
  BY <1>0, <1>1, <1>6, <1>7 DEF CallOK
<1>9. QED
  BY <1>4, <1>8 DEF DInv

LEMMA RollbackSkillKeeps == DInv /\ RollbackSkill => DInv'
<1> SUFFICES ASSUME DInv, RollbackSkill PROVE DInv'
  OBVIOUS
<1>0. StoresOK /\ CallOK /\ Working /\ skills \in [Names -> Skill] /\ pc = "rollback_skills"
  BY DEF DInv, CallOK, StoresOK, RollbackSkill
<1>1. UNCHANGED <<memories, backlog, work, queue, passing, promote, checked, pc, job, grants,
                  standing>>
  BY DEF RollbackSkill, dream
<1>2. PICK n \in Names : skills' = [skills EXCEPT ![n].status = "deprecated"]
  BY DEF RollbackSkill
<1>3. /\ skills' \in [Names -> Skill] /\ skills'[n].status = "deprecated"
      /\ \A m \in Names : m # n => skills'[m] = skills[m]
  BY <1>0, <1>2 DEF Skill
<1>4. StoresOK'
  <2>1. ASSUME NEW m \in Names, skills'[m].status = "active" PROVE skills'[m].fp \in standing
    BY <1>0, <1>3, <2>1 DEF StoresOK, Standing
  <2>2. QED
    BY <1>0, <1>1, <1>3, <2>1, SkillWritten
<1>5. Working' /\ OnePerLesson(work)' /\ Backed(work)'
  BY <1>0, <1>1 DEF CallOK, Working, OnePerLesson, Backed
<1>6. CallOK'
  BY <1>0, <1>1, <1>5 DEF CallOK
<1>7. QED
  BY <1>4, <1>6 DEF DInv

\* When a fingerprint ceases to stand, nothing of it is active any more.
LEMMA RollbackDoneKeeps == DInv /\ RollbackDone => DInv'
<1> SUFFICES ASSUME DInv, RollbackDone PROVE DInv'
  OBVIOUS
<1>0. /\ StoresOK /\ CallOK /\ pc = "rollback_skills" /\ queue # << >>
      /\ work \in Seq(Candidate) /\ queue \in Seq(1 .. Len(work))
      /\ \A i \in DOMAIN memories : memories[i].lesson = job.fp => memories[i].status # "active"
      /\ standing \subseteq Lessons
  BY DEF DInv, CallOK, RollbackDone, Working, StoresOK
<1>1. /\ Concluded("rolled_back", work[Head(queue)].evolved)
      /\ pc' = "verify" /\ job' = NoJob /\ standing' = standing \ {job.fp}
      /\ UNCHANGED <<memories, skills, backlog, passing, promote, grants, checked>>
  BY DEF RollbackDone, assets
<1>2. job.fp # NoLesson => \A n \in Names : skills[n].fp = job.fp => skills[n].status # "active"
  BY DEF RollbackDone
<1>3. Standing'
  <2>1. CASE job.fp = NoLesson
    <3>1. standing' = standing
      BY <1>0, <1>1, <2>1, LessonsAssumption
    <3>2. QED
      BY <1>0, <1>1, <3>1 DEF StoresOK, Standing
  <2>2. CASE job.fp # NoLesson
    BY <1>0, <1>1, <1>2, <2>2 DEF StoresOK, Standing
  <2>3. QED
    BY <2>1, <2>2
<1>4. StoresOK'
  BY <1>0, <1>1, <1>3 DEF StoresOK, LiveLessonsDistinct, ActiveIsGranted, OnePerLesson, Backed
<1>5. work[Head(queue)].evolved \in Lessons \cup {NoLesson}
  <2>1. Head(queue) \in 1 .. Len(work) /\ DOMAIN work = 1 .. Len(work)
    BY <1>0
  <2>2. work[Head(queue)] \in Candidate
    BY <1>0, <2>1
  <2>3. QED
    BY <2>2 DEF Candidate
<1>6. CallOK'
  BY <1>0, <1>1, <1>5, ConcludedKeeps
<1>7. QED
  BY <1>4, <1>6 DEF DInv

\* A lesson whose check is forgotten is rolled back, and no other candidate has it.
LEMMA WriteBacklogKeeps == DInv /\ WriteBacklog => DInv'
<1> SUFFICES ASSUME DInv, WriteBacklog PROVE DInv'
  OBVIOUS
<1> DEFINE back == {k \in DOMAIN work : work[k].status = "rolled_back"}
<1>0. StoresOK /\ CallOK /\ work \in Seq(Candidate) /\ OnePerLesson(work) /\ Backed(work)
  BY DEF DInv, CallOK
<1>1. /\ backlog' \in {work, << >>} /\ checked' = checked \ {work[i].lesson : i \in back}
      /\ Stop /\ UNCHANGED <<memories, skills, grants, standing>>
  BY DEF WriteBacklog, assets
<1> HIDE DEF back
<1>2. backlog' \in Seq(Candidate) /\ OnePerLesson(backlog)'
  <2>1. CASE backlog' = work
    BY <1>0, <2>1 DEF OnePerLesson
  <2>2. CASE backlog' = << >>
    BY <2>2 DEF OnePerLesson
  <2>3. QED
    BY <1>1, <2>1, <2>2
<1>3. Backed(backlog)'
  <2>1. SUFFICES ASSUME NEW i \in DOMAIN backlog', backlog'[i].status \in {"verified", "promoted"}
                 PROVE  backlog'[i].lesson \in checked'
    BY DEF Backed
  <2>2. backlog' = work
    BY <1>1
  <2>3. work[i].lesson \in checked
    BY <1>0, <2>1, <2>2 DEF Backed
  <2>4. ASSUME NEW k \in back PROVE work[k].lesson # work[i].lesson
    BY <1>0, <2>1, <2>2, <2>4 DEF OnePerLesson, back
  <2>5. QED
    BY <1>1, <2>2, <2>3, <2>4
<1>4. StoresOK'
  BY <1>0, <1>1, <1>2, <1>3, BacklogWritten
<1>5. QED
  BY <1>1, <1>4, Stopped DEF DInv

-----------------------------------------------------------------------------
(* Every step *)

LEMMA StutterKeeps == DInv /\ UNCHANGED vars => DInv'
<1> SUFFICES ASSUME DInv, UNCHANGED vars PROVE DInv'
  OBVIOUS
<1>1. UNCHANGED <<memories, skills, backlog, pc, job, work, queue, passing, promote, grants,
                  standing, checked>>
  BY DEF vars
<1>2. StoresOK'
  BY <1>1, StoresKept DEF DInv, StoresOK
<1>3. Working' /\ OnePerLesson(work)' /\ Backed(work)'
  <2>1. Staged(job.fp)' = Staged(job.fp)
    BY <1>1 DEF Staged
  <2>2. QED
    BY <1>1, <2>1 DEF DInv, CallOK, Working, OnePerLesson, Backed
<1>4. CallOK'
  BY <1>1, <1>3 DEF DInv, CallOK
<1>5. QED
  BY <1>2, <1>4 DEF DInv

LEMMA NextKeeps == DInv /\ [Next]_vars => DInv'
<1> SUFFICES ASSUME DInv, [Next]_vars PROVE DInv'
  OBVIOUS
<1>1. CASE Evolve
  BY <1>1, ManualFeedbackKeeps, ReflectKeeps, EvalLessonKeeps, EvolveMemoryKeeps, EvolveSkillKeeps,
     GateKeeps, GatePromoteKeeps, GateSkillKeeps, GateDoneKeeps DEF Evolve
<1>2. CASE Dream
  BY <1>2, RunKeeps, VerifyKeeps, VerifyCandidateKeeps, RollbackByIdKeeps, RollbackMemoryKeeps,
     RollbackSkillKeeps, RollbackDoneKeeps, WriteBacklogKeeps DEF Dream
<1>3. CASE Crash
  BY <1>3, CrashKeeps
<1>4. CASE UNCHANGED vars
  BY <1>4, StutterKeeps
<1>5. QED
  BY <1>1, <1>2, <1>3, <1>4 DEF Next

\* The invariant the properties follow from.
THEOREM DreamInvariant == Spec => []DInv
BY InitInvariant, NextKeeps, PTL DEF Spec

-----------------------------------------------------------------------------
(* The properties *)

\* Stores, backlog and the operation in progress keep their types: a merged
\* candidate has one of the four statuses the operations know, and the queue of
\* a verification or rollback stays within its copy of the backlog.
THEOREM DreamTypes == Spec => []TypeOK
<1>1. DInv => TypeOK
  BY DEF DInv, StoresOK, CallOK, TypeOK
<1>2. QED
  BY <1>1, DreamInvariant, PTL

\* find_similar keeps two live lessons of the same text from entering the
\* memory file, however evolve() is retried.
THEOREM DreamLessonsAreDistinct == Spec => []LiveLessonsDistinct
<1>1. DInv => LiveLessonsDistinct
  BY DEF DInv, StoresOK
<1>2. QED
  BY <1>1, DreamInvariant, PTL

\* A lesson is active only if a user stated it, its verifier passed or the
\* promotion gate saw evidence, and it denied no active lesson.
THEOREM DreamActivatesOnlyGranted == Spec => []ActiveIsGranted
<1>1. DInv => ActiveIsGranted
  BY DEF DInv, StoresOK
<1>2. QED
  BY <1>1, DreamInvariant, PTL

\* A candidate on record as promoted has passed its verifier since it was last
\* rolled back, whatever was torn, proposed again or interrupted.
THEOREM DreamPromotedWasChecked == Spec => []PromotedWasChecked
<1>1. DInv => PromotedWasChecked
  BY DEF DInv, StoresOK, Backed, PromotedWasChecked
<1>2. QED
  BY <1>1, DreamInvariant, PTL

\* What a candidate on record as rolled back names is active in neither store
\* unless it was activated anew.
THEOREM DreamRolledBackIsInactive == Spec => []RolledBackIsInactive
<1>1. DInv => RolledBackIsInactive
  BY DEF DInv, StoresOK, Standing, RolledBackIsInactive
<1>2. QED
  BY <1>1, DreamInvariant, PTL
=============================================================================

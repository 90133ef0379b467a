----------------------------- MODULE LoopDraft -----------------------------
(***************************************************************************)
(* The loop planner of evolva/loops/planner.py: how a request becomes a    *)
(* loop specification, by the model's plan or by a template, and the life  *)
(* of the draft file that is planned, revised, approved, confirmed and     *)
(* executed from the command line and the workbench.                       *)
(*                                                                         *)
(* An identifier is a sequence: its name, then the positions it was        *)
(* suffixed with. Prompts, goals and titles are left out; a revision       *)
(* counts, since it changes them. Checkpoints are shown to the user and    *)
(* become no gate: they are left out too. The gates of a draft's loop only *)
(* ask that phases succeed.                                                *)
(***************************************************************************)
EXTENDS Integers, Sequences, FiniteSets, FiniteSetsExt, SequencesExt

IsSequence(s) == s \in Seq(Range(s))

CONSTANTS
  LdIntents,   \* kinds of request
  LdPlans,     \* what the model may plan: records of phases, commands and limits
  LdFound,     \* the commands detection may find in the repository
  LdProcesses, \* processes that share the draft file
  LdMaxOps     \* bound: commands of the user

ASSUME LdAssumption ==
  /\ LdIntents \subseteq {"web_feature", "code_feature", "bugfix", "docs", "release",
                          "analysis", "data_task"}
  /\ \A plan \in LdPlans :
       /\ IsSequence(plan.phases) /\ IsSequence(plan.commands)
       /\ plan.limits \in [total : Int, retries : Int, commands : Int]
  /\ \A found \in LdFound : IsSequence(found)
  /\ LdMaxOps \in Nat

VARIABLES
  ldFile,      \* loop_draft.json: LdNone, LdTorn or a draft
  ldProcess,   \* [LdProcesses -> what each is doing]
  ldConfirmed, \* the specification validated by the last confirm that made a draft ready
  ldOverlap,   \* a process has written the file while another one used it
  ldOps        \* commands so far

ldVars == <<ldFile, ldProcess, ldConfirmed, ldOverlap, ldOps>>

-----------------------------------------------------------------------------
(* Limits and commands *)

ClampTo(low, high, n) == IF n < low THEN low ELSE IF n > high THEN high ELSE n

\* DraftExecutionLimits.for_intent, with the limits that are told apart here.
LimitsFor(intent) ==
  CASE intent \in {"analysis", "docs", "release"} -> [total |-> 8, retries |-> 1, commands |-> 4]
    [] intent \in {"web_feature", "data_task"}    -> [total |-> 10, retries |-> 1, commands |-> 8]
    [] OTHER                                      -> [total |-> 12, retries |-> 1, commands |-> 10]

\* clamp_execution_limits
Clamped(proposed) == [total    |-> ClampTo(3, 14, proposed.total),
                      retries  |-> ClampTo(0, 2, proposed.retries),
                      commands |-> ClampTo(0, 30, proposed.commands)]

\* command_candidates_for
CommandsFor(intent) ==
  CASE intent = "web_feature" -> <<"build", "lint", "test">>
    [] intent \in {"docs", "analysis"} -> << >>
    [] intent = "release" -> <<"venv", "build">>
    [] OTHER -> <<"venv", "pytest">>

\* sanitize_command_candidates
SafeCommands == {"build", "lint", "test", "venv", "pytest"}
Sanitized(commands) ==
  FoldLeft(LAMBDA kept, c :
      IF c \notin SafeCommands \/ c \in Range(kept) \/ Len(kept) = 8 THEN kept
      ELSE Append(kept, c),
    << >>, commands)

\* repo_validation_candidates_for
RepoCommands(intent, found) == IF found = << >> THEN CommandsFor(intent) ELSE found

\* choose_primary_command
Primary(intent, commands) ==
  LET preferred == CASE intent = "web_feature" -> <<"build", "test", "lint">>
                     [] intent = "release"     -> <<"venv", "build">>
                     [] intent \in {"bugfix", "code_feature"} -> <<"venv", "pytest", "test">>
                     [] OTHER -> commands
      known == {i \in DOMAIN preferred : preferred[i] \in Range(commands)}
  IN  IF commands = << >> THEN ""
      ELSE IF known = {} THEN Head(commands) ELSE preferred[Min(known)]

-----------------------------------------------------------------------------
(* The phases of a plan *)

\* check: the title or the identifier says that the phase verifies.
DraftPhase(name, kind, deps) ==
  [id |-> <<name>>, kind |-> kind, check |-> name = "verification", deps |-> deps]

LdIds(phases) == {phases[i].id : i \in DOMAIN phases}

\* A chain of phases, each depending on the one before.
Chain(names) ==
  [i \in DOMAIN names |->
     DraftPhase(names[i], IF names[i] = "verification" THEN "tool" ELSE "agent",
                IF i = 1 THEN {} ELSE {<<names[i - 1]>>})]

\* draft_phases_for
Template(intent) ==
  LET body == CASE intent = "analysis" -> <<"analysis">>
                [] intent = "release"  -> <<"design_plan", "verification">>
                [] intent = "docs"     -> <<"design_plan", "implementation">>
                [] OTHER               -> <<"design_plan", "implementation", "verification">>
  IN  Chain(<<"context_scan">> \o body \o <<"final_report">>)

\* At most total phases.
Limited(phases, total) == SubSeq(phases, 1, ClampTo(0, total, Len(phases)))

\* A repeated identifier is suffixed with its position, which may repeat another.
Unused(id, i, used) == IF id \in used THEN Append(id, i) ELSE id

\* _normalize_phases: only dependencies on phases before it are kept.
NormalizedPhase(phase, i, done) ==
  [id   |-> Unused(phase.id, i, LdIds(done)), kind |-> phase.kind, check |-> phase.check,
   deps |-> phase.deps \cap LdIds(done)]

Normalized(phases, total) ==
  FoldLeftDomain(LAMBDA done, i : Append(done, NormalizedPhase(phases[i], i, done)),
                 << >>, Limited(phases, total))

\* The phase before position i, for a phase put there.
Before(phases, i) == IF i > 1 THEN {phases[i - 1].id} ELSE {}

\* ensure_required_phases, until all are there or there is no room.
WithContext(phases) ==
  IF <<"context_scan">> \in LdIds(phases) THEN phases
  ELSE <<DraftPhase("context_scan", "agent", {})>> \o phases

WithDesign(phases, intent) ==
  LET reports == {i \in DOMAIN phases : phases[i].id = <<"final_report">>}
      at == IF reports = {} THEN Len(phases) + 1
            ELSE CHOOSE i \in reports : \A j \in reports : i <= j
  IN  IF intent = "analysis"
      THEN IF <<"analysis">> \in LdIds(phases) THEN phases
           ELSE Append(phases, DraftPhase("analysis", "agent", Before(phases, Len(phases) + 1)))
      ELSE IF {<<"design_plan">>, <<"plan">>} \cap LdIds(phases) # {} THEN phases
           ELSE InsertAt(phases, at, DraftPhase("design_plan", "agent", Before(phases, at)))

WithReport(phases) ==
  IF <<"final_report">> \in LdIds(phases) THEN phases
  ELSE Append(phases, DraftPhase("final_report", "agent", Before(phases, Len(phases) + 1)))

\* Phases left without dependencies follow the one before.
Required(phases, intent, total) ==
  LET scanned  == WithContext(phases)
      designed == IF Len(scanned) < total THEN WithDesign(scanned, intent) ELSE scanned
      reported == IF Len(designed) < total THEN WithReport(designed) ELSE designed
      linked(i) ==
        LET deps == reported[i].deps \cap {reported[j].id : j \in 1 .. i - 1} IN
        [reported[i] EXCEPT !.deps =
          IF deps = {} /\ reported[i].id # <<"context_scan">> THEN Before(reported, i) ELSE deps]
  IN  Limited([i \in DOMAIN reported |-> linked(i)], total)

-----------------------------------------------------------------------------
(* The specification of a draft *)

LdRetries(limits) == IF limits.retries = 0 THEN 0 ELSE 1

SpecOf(id, deps, command, retries) ==
  [id |-> id, deps |-> deps, command |-> command, retries |-> retries]

\* One phase of _phases_from_draft. A tool phase becomes a shell phase when there
\* is a command to run, is dropped when it verifies and there is none, and is
\* an agent phase otherwise. A dropped phase may still be depended on.
SpecPhase(plan, done, i) ==
  LET phase == plan.phases[i]
      id    == Unused(phase.id, i, done.known)
      cmd   == Primary(plan.intent, Sanitized(plan.commands))
      shell == phase.kind = "tool" /\ (phase.check \/ cmd # "")
      tries == IF shell \/ id = <<"implementation">> THEN LdRetries(plan.limits) ELSE 0
  IN  [known |-> done.known \cup {id},
       out   |-> IF shell /\ cmd = "" THEN done.out
                 ELSE Append(done.out, SpecOf(id, phase.deps \cap done.known,
                                              IF shell THEN cmd ELSE "", tries))]

\* _phases_for, used when every phase was dropped.
Fallback(plan) ==
  LET work  == CASE plan.intent = "analysis" -> <<"analysis">>
                 [] plan.intent = "release"  -> <<"design_plan">>
                 [] OTHER                     -> <<"design_plan", "implementation">>
      check == IF plan.intent = "analysis" \/ plan.commands = << >> THEN << >>
               ELSE <<"verification">>
      chain == Chain(<<"context_scan">> \o work \o check \o <<"final_report">>)
      spec(phase) == SpecOf(phase.id, phase.deps,
        IF phase.check THEN Primary(plan.intent, plan.commands) ELSE "",
        IF phase.check \/ phase.id = <<"implementation">> THEN LdRetries(plan.limits) ELSE 0)
  IN  Limited([i \in DOMAIN chain |-> spec(chain[i])], plan.limits.total)

\* Mutant: the report is added though there is no room for it.
ReportsAnyway(out, total) == out # << >> /\ Last(out).id # <<"final_report">>

LacksReport(out, total) ==
  /\ out # << >> /\ Last(out).id # <<"final_report">>
  /\ Len(out) < total

SpecPhases(plan) ==
  LET step(done, i) == SpecPhase(plan, done, i)
      out == FoldLeftDomain(step, [known |-> {}, out |-> << >>],
                            Limited(plan.phases, plan.limits.total)).out
  IN  IF out = << >> THEN Fallback(plan)
      ELSE IF LacksReport(out, plan.limits.total)
           THEN Append(out, SpecOf(<<"final_report">>, {Last(out).id}, "", 0))
           ELSE out

\* _spec_data
Synthesized(plan) ==
  [phases  |-> SpecPhases(plan), allowed |-> Range(Sanitized(plan.commands)),
   limits  |-> plan.limits, rev |-> plan.rev]

\* LoopSpec.from_dict: otherwise it raises an error, and so does planning.
LoopBuilds(spec) ==
  /\ \A i, j \in DOMAIN spec.phases : spec.phases[i].id = spec.phases[j].id => i = j
  /\ \A i \in DOMAIN spec.phases : spec.phases[i].deps \subseteq LdIds(spec.phases)

\* validate_loop_spec: what it finds wrong.
Cyclic(phases) ==
  \E S \in (SUBSET DOMAIN phases) \ {{}} :
    \A i \in S : \E j \in S : phases[j].id \in phases[i].deps

SpecErrors(spec) ==
  {e \in {"cycle", "empty", "limit", "too many", "retries", "command"} :
     CASE e = "cycle"    -> Cyclic(spec.phases)
       [] e = "empty"    -> spec.phases = << >>
       [] e = "limit"    -> \E f \in DOMAIN spec.limits : spec.limits[f] = 0
       [] e = "too many" -> Len(spec.phases) > spec.limits.total
       [] e = "retries"  -> \E i \in DOMAIN spec.phases :
                              spec.phases[i].retries > spec.limits.retries
       [] e = "command"  -> \E i \in DOMAIN spec.phases :
                              spec.phases[i].command \notin spec.allowed \cup {""}}

NoSpec == [phases |-> << >>]

\* plan: what the specification is made of.
Draft(plan, questions, status) ==
  [plan |-> plan, questions |-> questions, status |-> status, spec |-> Synthesized(plan)]

\* LoopIntentAnalyzer.analyze: the intent, and whether risky words in the request
\* leave a question open.
Analyses == LdIntents \X BOOLEAN

\* create_draft without a model: the template of the intent.
HeuristicPlan(intent, found) ==
  [intent |-> intent, phases |-> Template(intent), limits |-> LimitsFor(intent),
   commands |-> RepoCommands(intent, found), rev |-> 0]

\* _normalize: what is kept of the model's plan. Commands found in the repository
\* replace those of the model.
NormalizedPlan(intent, plan, found) ==
  LET limits == Clamped(plan.limits)
      local  == RepoCommands(intent, found)
  IN  [intent   |-> intent,
       phases   |-> Required(Normalized(plan.phases, limits.total), intent, limits.total),
       limits   |-> limits,
       commands |-> IF local # << >> THEN local ELSE Sanitized(plan.commands),
       rev      |-> 0]

-----------------------------------------------------------------------------
(* The draft file *)

LdNone == [status |-> "none"]
LdTorn == [status |-> "torn"]
LdLoaded == ldFile \notin {LdNone, LdTorn}  \* load() finds a draft

\* saving: about to write draft; writing: the file is truncated; then: next pc;
\* run: the specification it executes.
LdDoes(pc, draft, then, run) == [pc |-> pc, draft |-> draft, then |-> then, run |-> run]
LdIdle == LdDoes("idle", LdNone, "idle", NoSpec)

LdTypeOK ==
  /\ ldFile.status \in {"none", "torn", "awaiting_confirmation", "ready_to_run",
                        "needs_user_review", "dry_run_failed", "running", "completed"}
  /\ \A p \in LdProcesses :
       ldProcess[p].pc \in {"idle", "saving", "writing", "marking", "running"}
  /\ ldOverlap \in BOOLEAN /\ ldOps \in 0 .. LdMaxOps

LdInit ==
  /\ ldFile = LdNone
  /\ ldProcess = [p \in LdProcesses |-> LdIdle]
  /\ ldConfirmed = NoSpec /\ ldOverlap = FALSE /\ ldOps = 0

\* Process p goes on to save the draft.
LdSaves(p, draft, then) ==
  ldProcess' = [ldProcess EXCEPT ![p] = LdDoes("saving", draft, then, @.run)]

\* A draft that does not build is an error; the old file stays.
LdMakes(p, draft) ==
  IF LoopBuilds(draft.spec) THEN LdSaves(p, draft, "idle") ELSE UNCHANGED ldProcess

LdUser(p) ==
  /\ ldProcess[p].pc = "idle"
  /\ ldOps < LdMaxOps
  /\ ldOps' = ldOps + 1

\* plan
LdPlan(p, plan, questions) ==
  /\ LdUser(p)
  /\ LdMakes(p, Draft(plan, questions, "awaiting_confirmation"))
  /\ UNCHANGED <<ldFile, ldConfirmed, ldOverlap>>

Missing(command, commands) == IF command \in Range(commands) THEN << >> ELSE <<command>>

\* Feedback may ask not to execute, which is an open question, or for tests,
\* which adds commands.
Feedback(plan, tests) ==
  [plan EXCEPT
    !.rev = @ + 1,
    !.commands = IF tests /\ plan.intent = "web_feature"
                 THEN @ \o Missing("test", plan.commands) \o Missing("lint", plan.commands)
                 ELSE @]

\* Mutant: a revised draft keeps its status.
RevisedInPlace(draft, asks, tests) ==
  Draft(Feedback(draft.plan, tests), draft.questions \/ asks, draft.status)

\* revise_draft
Revised(draft, asks, tests) ==
  Draft(Feedback(draft.plan, tests), draft.questions \/ asks, "awaiting_confirmation")

LdRevise(p, asks, tests) ==
  /\ LdUser(p) /\ LdLoaded
  /\ LdMakes(p, Revised(ldFile, asks, tests))
  /\ UNCHANGED <<ldFile, ldConfirmed, ldOverlap>>

\* accept_user_review answers all open questions.
LdApprove(p) ==
  /\ LdUser(p) /\ LdLoaded
  /\ LdMakes(p, Draft([ldFile.plan EXCEPT !.rev = @ + 1], FALSE, "awaiting_confirmation"))
  /\ UNCHANGED <<ldFile, ldConfirmed, ldOverlap>>

\* confirm_draft
Verdict(draft) ==
  IF draft.questions THEN "needs_user_review"
  ELSE IF SpecErrors(Synthesized(draft.plan)) = {} THEN "ready_to_run" ELSE "dry_run_failed"

LdConfirm(p) ==
  /\ LdUser(p) /\ LdLoaded
  /\ LET draft == Draft(ldFile.plan, ldFile.questions, Verdict(ldFile)) IN
     /\ LdMakes(p, draft)
     /\ ldConfirmed' = IF LoopBuilds(draft.spec) /\ draft.status = "ready_to_run"
                       THEN draft.spec ELSE ldConfirmed
  /\ UNCHANGED <<ldFile, ldOverlap>>

\* save_loop writes the template and the draft again.
LdSaveLoop(p) ==
  /\ LdUser(p) /\ LdLoaded
  /\ LdSaves(p, ldFile, "idle")
  /\ UNCHANGED <<ldFile, ldConfirmed, ldOverlap>>

LdWrites(p) == ldOverlap' = (ldOverlap \/ \E q \in LdProcesses \ {p} : ldProcess[q].pc # "idle")

LdCancel(p) ==
  /\ LdUser(p)
  /\ ldFile' = LdNone
  /\ LdWrites(p)
  /\ UNCHANGED <<ldProcess, ldConfirmed>>

\* save(): write_text truncates the file, then fills it.
LdTruncate(p) ==
  /\ ldProcess[p].pc = "saving"
  /\ ldFile' = LdTorn
  /\ ldProcess' = [ldProcess EXCEPT ![p] = LdDoes("writing", @.draft, @.then, @.run)]
  /\ LdWrites(p)
  /\ UNCHANGED <<ldConfirmed, ldOps>>

LdWrite(p) ==
  /\ ldProcess[p].pc = "writing"
  /\ ldFile' = ldProcess[p].draft
  /\ ldProcess' = [ldProcess EXCEPT ![p] =
       IF @.then = "idle" THEN LdIdle ELSE LdDoes("running", LdNone, @.then, @.run)]
  /\ UNCHANGED <<ldConfirmed, ldOverlap, ldOps>>

\* execute: the draft is loaded and its status checked, ...
LdExecute(p) ==
  /\ LdUser(p) /\ LdLoaded
  /\ ldFile.status = "ready_to_run"
  /\ ldProcess' = [ldProcess EXCEPT ![p] = LdDoes("marking", LdNone, "idle", ldFile.spec)]
  /\ UNCHANGED <<ldFile, ldConfirmed, ldOverlap>>

\* ... mark_running loads it again, and when the loop has ended mark_completed or
\* restore_ready set the status of the draft there is then.
LdMark(p, from, status, then) ==
  /\ ldProcess[p].pc = from
  /\ IF LdLoaded THEN LdSaves(p, [ldFile EXCEPT !.status = status], then)
     ELSE ldProcess' = [ldProcess EXCEPT ![p] = LdIdle]
  /\ UNCHANGED <<ldFile, ldConfirmed, ldOverlap, ldOps>>

LdCrash(p) ==
  /\ ldProcess[p].pc # "idle"
  /\ ldProcess' = [ldProcess EXCEPT ![p] = LdIdle]
  /\ UNCHANGED <<ldFile, ldConfirmed, ldOverlap, ldOps>>

LdNext ==
  \E p \in LdProcesses :
    \/ \E analysis \in Analyses, found \in LdFound :
         \/ LdPlan(p, HeuristicPlan(analysis[1], found), analysis[2])
         \/ \E plan \in LdPlans :
              LdPlan(p, NormalizedPlan(analysis[1], plan, found), analysis[2])
    \/ \E asks \in BOOLEAN, tests \in BOOLEAN : LdRevise(p, asks, tests)
    \/ LdApprove(p) \/ LdConfirm(p) \/ LdSaveLoop(p) \/ LdCancel(p)
    \/ LdTruncate(p) \/ LdWrite(p)
    \/ LdExecute(p)
    \/ LdMark(p, "marking", "running", "running")
    \/ \E status \in {"completed", "ready_to_run"} : LdMark(p, "running", status, "idle")
    \/ LdCrash(p)

LdSpec == LdInit /\ [][LdNext]_ldVars

-----------------------------------------------------------------------------

\* A verification phase was dropped for want of a command, and a phase follows it.
DroppedCheck(plan) ==
  /\ Sanitized(plan.commands) = << >>
  /\ \E i \in 1 .. Len(plan.phases) - 1 : plan.phases[i].kind = "tool" /\ plan.phases[i].check

\* Whatever the model plans and however the draft is revised, its specification
\* passes the dry run, unless a limit the planner let through is zero or phases
\* follow one that was dropped: the report added at the end may then take the
\* identifier of the dropped phase and close a circle.
PlansValidate ==
  ldFile.status = "dry_run_failed" =>
    \/ \E f \in DOMAIN ldFile.plan.limits : ldFile.plan.limits[f] = 0
    \/ DroppedCheck(ldFile.plan)

\* Nothing is executed but the specification the last confirm validated, with no
\* open question and not revised since, whatever crashes or fails in between, as
\* long as no two processes use the draft file at once.
RunsWhatWasConfirmed ==
  ~ldOverlap =>
    \A p \in LdProcesses : ldProcess[p].run # NoSpec => ldProcess[p].run = ldConfirmed
=============================================================================

----------------------------- MODULE MultiAgent -----------------------------
(***************************************************************************)
(* A collaboration of role agents (evolva/agent/multi_agent.py): the task  *)
(* is assigned to a few roles, each waits for the roles it depends on, and *)
(* roles that are ready run one after the other or as a parallel batch. A  *)
(* role asks the model, which may call a few read-only tools before it     *)
(* answers; what it reports is abstracted to the side it takes.            *)
(*                                                                         *)
(* All reasons for which a delegated role may fail (the model, a denied, a *)
(* failed or an invalid tool call, the step limit) are one: "failed".      *)
(***************************************************************************)
EXTENDS Integers, Sequences, FiniteSets, SequencesExt

CONSTANTS
  MaMaxRoles,     \* max_roles_per_run
  MaMaxToolSteps, \* max_tool_steps; 0 when no tools are attached
  MaRequests      \* the sequences of roles users ask for

MaRoles == {"planner", "researcher", "coder", "reviewer"}
Sides == {"for", "against"}

ASSUME MaAssumption ==
  /\ MaMaxRoles \in Nat \ {0} /\ MaMaxToolSteps \in Nat
  /\ MaRequests \subseteq Seq(MaRoles)

VARIABLES
  maPc,       \* "idle", "planned", "batch" or "ended"
  maLLM,      \* a model is configured
  maParallel, \* batches hold every ready role
  maChosen,   \* the roles of the collaboration, in order
  maBatch,    \* roles of the running batch
  maResult,   \* [MaRoles -> what became of the assignment]
  maDone,     \* roles whose results the coordinator took
  maCalls,    \* [MaRoles -> tool calls so far]
  maClaims,   \* [MaRoles -> SUBSET Sides]: what the output says
  maTodos,    \* roles a to-do was added for: those that really ran
  maSeen,     \* [MaRoles -> roles whose results were there when it was delegated]
  maStatus    \* status of the collaboration

maVars == <<maPc, maLLM, maParallel, maChosen, maBatch, maResult, maDone, maCalls,
            maClaims, maTodos, maSeen, maStatus>>
maInput == <<maLLM, maParallel, maChosen>>

MaResults == {"none", "running", "completed", "failed", "dependency_failed"}

MaTypeOK ==
  /\ maPc \in {"idle", "planned", "batch", "ended"}
  /\ maLLM \in BOOLEAN /\ maParallel \in BOOLEAN
  /\ maChosen \in Seq(MaRoles) /\ IsInjective(maChosen) /\ Len(maChosen) <= MaMaxRoles
  /\ maBatch \subseteq Range(maChosen) /\ maDone \subseteq Range(maChosen)
  /\ maResult \in [MaRoles -> MaResults]
  /\ maCalls \in [MaRoles -> 0 .. MaMaxToolSteps]
  /\ maClaims \in [MaRoles -> SUBSET Sides]
  /\ maTodos \subseteq Range(maChosen)
  /\ maSeen \in [MaRoles -> SUBSET MaRoles]
  /\ maStatus \in {"running", "completed", "completed_with_fallbacks", "completed_with_conflicts"}

MaInit ==
  /\ maPc = "idle"
  /\ maLLM \in BOOLEAN /\ maParallel \in BOOLEAN
  /\ maChosen = << >> /\ maBatch = {} /\ maDone = {} /\ maTodos = {}
  /\ maResult = [r \in MaRoles |-> "none"]
  /\ maCalls = [r \in MaRoles |-> 0]
  /\ maClaims = [r \in MaRoles |-> {}]
  /\ maSeen = [r \in MaRoles |-> {}]
  /\ maStatus = "running"

-----------------------------------------------------------------------------
(* The plan *)

\* TaskRouter.route: the roles of each kind of task.
Routes ==
  [complex  |-> <<"planner", "researcher", "coder", "reviewer">>,
   coding   |-> <<"planner", "coder", "reviewer">>,
   research |-> <<"researcher", "reviewer">>,
   review   |-> <<"reviewer">>,
   simple   |-> << >>]

\* _bounded: what is kept of them.
Bounded(label) ==
  LET roles == Routes[label] IN
  IF Len(roles) <= MaMaxRoles THEN roles
  ELSE IF MaMaxRoles = 1 THEN IF label = "review" THEN <<"reviewer">> ELSE <<"planner">>
  ELSE IF label # "research" /\ MaMaxRoles = 2 THEN <<"planner", "reviewer">>
  ELSE SubSeq(roles, 1, MaMaxRoles)

\* A task the router finds simple gets every role.
Routed(label) == IF Bounded(label) = << >> THEN Routes.complex ELSE Bounded(label)

\* _normalize_roles: duplicates are dropped, too many roles refused.
FirstOf(roles) ==
  FoldLeft(LAMBDA kept, role : IF role \in Range(kept) THEN kept ELSE Append(kept, role),
           << >>, roles)

Acceptable(roles) == Len(FirstOf(roles)) \in 1 .. MaMaxRoles

\* collaborate_report
Collaborate(roles) ==
  /\ maPc = "idle"
  /\ Acceptable(roles)
  /\ maChosen' = FirstOf(roles)
  /\ maPc' = "planned"
  /\ UNCHANGED <<maLLM, maParallel, maBatch, maResult, maDone, maCalls, maClaims, maTodos,
                 maSeen, maStatus>>

\* Mutant: the reviewer reviews itself too.
DependsOnItself(role) ==
  CASE role = "coder"    -> {"planner", "researcher"} \cap Range(maChosen)
    [] role = "reviewer" -> Range(maChosen)
    [] OTHER             -> {}

\* _plan_assignments
DependsOn(role) ==
  CASE role = "coder"    -> {"planner", "researcher"} \cap Range(maChosen)
    [] role = "reviewer" -> Range(maChosen) \ {"reviewer"}
    [] OTHER             -> {}

-----------------------------------------------------------------------------
(* Batches *)

Unreported == Range(maChosen) \ maDone

\* Mutant: a role is ready when one of the roles it depends on is done.
ReadyOnFirst == {r \in Unreported : DependsOn(r) = {} \/ DependsOn(r) \cap maDone # {}}

Ready == {r \in Unreported : DependsOn(r) \subseteq maDone}

\* The first one in the order of the plan.
FirstReady == {maChosen[i] : i \in {k \in DOMAIN maChosen : /\ maChosen[k] \in Ready
                                       /\ \A j \in 1 .. k - 1 : maChosen[j] \notin Ready}}

\* When nothing is ready the code raises an error: here the collaboration is stuck.
StartBatch ==
  /\ maPc = "planned"
  /\ Ready # {}
  /\ maBatch' = IF maParallel THEN Ready ELSE FirstReady
  /\ maPc' = "batch"
  /\ UNCHANGED <<maInput, maResult, maDone, maCalls, maClaims, maTodos, maSeen, maStatus>>

RoleFailed(role) == maResult[role] \in {"failed", "dependency_failed"}
FailedDependencies(role) == {d \in DependsOn(role) : RoleFailed(d)}

Begins(role) == maPc = "batch" /\ role \in maBatch /\ maResult[role] = "none"

\* A role other than the reviewer does not run on failed dependencies; it
\* reports their outputs as its own.
SkipRole(role) ==
  /\ Begins(role)
  /\ FailedDependencies(role) # {} /\ role # "reviewer"
  /\ maResult' = [maResult EXCEPT ![role] = "dependency_failed"]
  /\ maClaims' = [maClaims EXCEPT ![role] = UNION {maClaims[d] : d \in DependsOn(role)}]
  /\ UNCHANGED <<maPc, maInput, maBatch, maDone, maCalls, maTodos, maSeen, maStatus>>

\* delegate_report: a to-do is added, then the model asked; without a model
\* the role's fallback text is a success.
Delegate(role) ==
  /\ Begins(role)
  /\ FailedDependencies(role) = {} \/ role = "reviewer"
  /\ maTodos' = maTodos \cup {role}
  /\ maSeen' = [maSeen EXCEPT ![role] = maDone]
  /\ maResult' = [maResult EXCEPT ![role] = IF maLLM THEN "running" ELSE "completed"]
  /\ UNCHANGED <<maPc, maInput, maBatch, maDone, maCalls, maClaims, maStatus>>

\* An allowed tool call that succeeds, within the limit.
CallTool(role) ==
  /\ maResult[role] = "running"
  /\ maCalls[role] < MaMaxToolSteps
  /\ maCalls' = [maCalls EXCEPT ![role] = @ + 1]
  /\ UNCHANGED <<maPc, maInput, maBatch, maResult, maDone, maClaims, maTodos, maSeen, maStatus>>

\* The role answers, or fails for one of many reasons and reports what it has.
ReportRole(role, result, sides) ==
  /\ maResult[role] = "running"
  /\ maResult' = [maResult EXCEPT ![role] = result]
  /\ maClaims' = [maClaims EXCEPT ![role] = sides]
  /\ UNCHANGED <<maPc, maInput, maBatch, maDone, maCalls, maTodos, maSeen, maStatus>>

\* The coordinator takes the results when all roles of the batch are done.
EndBatch ==
  /\ maPc = "batch"
  /\ \A r \in maBatch : maResult[r] \notin {"none", "running"}
  /\ maDone' = maDone \cup maBatch
  /\ maBatch' = {}
  /\ maPc' = "planned"
  /\ UNCHANGED <<maInput, maResult, maCalls, maClaims, maTodos, maSeen, maStatus>>

\* _detect_conflicts: two roles take opposite sides.
Conflicts == {pair \in Range(maChosen) \X Range(maChosen) :
                /\ pair[1] # pair[2]
                /\ "for" \in maClaims[pair[1]] /\ "against" \in maClaims[pair[2]]}

\* Conflicts hide failures in the status.
EndCollaboration ==
  /\ maPc = "planned"
  /\ Unreported = {}
  /\ maPc' = "ended"
  /\ maStatus' = IF Conflicts # {} THEN "completed_with_conflicts"
                 ELSE IF \E r \in Range(maChosen) : RoleFailed(r) THEN "completed_with_fallbacks"
                 ELSE "completed"
  /\ UNCHANGED <<maInput, maBatch, maResult, maDone, maCalls, maClaims, maTodos, maSeen>>

MaStep ==
  \/ StartBatch \/ EndBatch \/ EndCollaboration
  \/ \E r \in MaRoles :
       \/ SkipRole(r) \/ Delegate(r) \/ CallTool(r)
       \/ \E result \in {"completed", "failed"}, sides \in SUBSET Sides :
            ReportRole(r, result, sides)

MaNext ==
  \/ \E label \in DOMAIN Routes : Collaborate(Routed(label))
  \/ \E roles \in MaRequests : Collaborate(roles)
  \/ MaStep

\* The coordinator and its pool go on; every request to the model times out at last.
MaFairness == WF_maVars(MaStep)

MaSpec == MaInit /\ [][MaNext]_maVars /\ MaFairness

-----------------------------------------------------------------------------

\* A role is given its task only when all roles it depends on have reported, and
\* only the reviewer may work on a report of failure (_execute_assignments).
RunsOnEvidence ==
  \A r \in maTodos :
    /\ DependsOn(r) \subseteq maSeen[r]
    /\ r # "reviewer" => \A d \in DependsOn(r) : maResult[d] = "completed"

\* No choice of roles and no failure keeps the collaboration from ending with a
\* result for every role.
CollaborationEnds ==
  maPc = "planned" ~> maPc = "ended" /\ \A r \in Range(maChosen) : maResult[r] \notin {"none", "running"}
=============================================================================

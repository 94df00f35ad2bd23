------------------------------ MODULE Proposal ------------------------------
(***************************************************************************)
(* How a code change reaches the main branch: the dev_agent pipeline and   *)
(* the researcher's promotion (agents/dev_agent, agents/quant_researcher)  *)
(* write a proposal on a branch, vet it with gates and record it in        *)
(* agent_audit_log; humans approve, reject, apply and roll back            *)
(* (runtime/approval_engine.py, rollback.py, sys_admin/                    *)
(* deployment_manager.py), each in a process of its own.                   *)
(*                                                                         *)
(* A commit is known by its position on main, which only grows.  Every     *)
(* read of the audit log, every git command and every write of the log is  *)
(* a step: they are separate subprocesses and transactions.  What the LLM  *)
(* writes and what the gates report are free choices.  Commands that fail  *)
(* for reasons outside the model (an unclean checkout) may always fail.    *)
(***************************************************************************)
EXTENDS Naturals, Sequences, FiniteSetsExt

CONSTANTS Proposals,    \* one run of a pipeline each, with the branch and row it makes
          Humans,       \* processes of people deciding on proposals
          NoProposal,   \* a human is busy with no proposal
          Reports,      \* what the gates would say of a change, as functions of the gate
          MaxCommits,   \* bound on main while humans commit to it directly
          MaxCrashes    \* bound on processes that die

VARIABLES
    origin,    \* origin[p]: which pipeline makes p: an agent's, or run() on a human's branch
    main,      \* the commits of the main branch, oldest first
    branches,  \* the proposals whose branch exists
    trees,     \* the proposals that have a worktree
    base,      \* base[p]: length of main when p's branch was made
    guarded,   \* guarded[p]: p's diff touches agents/
    results,   \* results[p]: the gate results of p, in order
    author,    \* author[p]: where p's pipeline is
    row,       \* row[p]: outcome, approver and commit in agent_audit_log
    lesson,    \* lesson[p]: what the pipeline wrote to memory
    human,     \* human[h]: what a person's process does next, on what, with which commit
    undone,    \* undone[p]: the outcomes of rollback rows that name p
    granted,   \* history: the proposals a human has approved
    raised,    \* history: the pipelines that ended in an exception after recording
    crashes

vars == <<origin, main, branches, trees, base, guarded, results, author, row, lesson, human,
          undone, granted, raised, crashes>>
gitVars      == <<origin, main, branches, trees, base, guarded>>
pipelineVars == <<results, author, lesson, raised>>

Gates     == <<"unit_tests", "integration_tests", "backtest_compare", "benchmark", "code_quality">>
GateNames == {Gates[i] : i \in 1..5}
AllGates  == GateNames \cup {"risk_gate", "supervisor_gate"}
Statuses  == {"passed", "failed", "skipped"}
Outcomes  == {"none", "pending_approval", "approved", "rejected", "applied", "rolled_back"}
Change(p) == <<"change", p>>
Direct    == <<"direct">>
Commits   == ({"change"} \X Proposals) \cup ({"revert"} \X Nat) \cup {Direct}
Idle      == [at |-> "idle", on |-> NoProposal, sha |-> 0]

Origins   == {"dev_agent", "quant_researcher", "human"}

\* What the constants are: the gates report one of three statuses each, and nobody is nobody.
ConstantsFit ==
    /\ Reports \subseteq [(AllGates \ {"benchmark"}) -> Statuses]
    /\ NoProposal \notin Proposals \cup Humans
    /\ MaxCommits \in Nat /\ MaxCrashes \in Nat

ASSUME ProposalAssumption == ConstantsFit

TypeOK ==
    /\ origin \in [Proposals -> Origins]
    /\ main \in Seq(Commits)
    /\ branches \subseteq Proposals /\ trees \subseteq Proposals
    /\ base \in [Proposals -> Nat]
    /\ guarded \in [Proposals -> BOOLEAN]
    /\ \A p \in Proposals : \A i \in DOMAIN results[p] : results[p][i].status \in Statuses
    /\ author \in [Proposals -> {"idle", "writing", "refused", "committed", "vetted",
                                 "recorded", "remembered", "done", "raised", "dead"}]
    /\ row \in [Proposals -> [outcome : Outcomes, by : Humans \cup {NoProposal}, sha : Nat]]
    /\ lesson \in [Proposals -> {"none", "bug_fix", "failed_experiment"}]
    /\ human \in [Humans -> [at : {"idle", "approve", "reject", "mergeable", "merge", "revparse",
                                   "apply", "revert", "log", "log_failed", "undo", "verify"},
                             on : Proposals \cup {NoProposal}, sha : Nat]]
    /\ undone \in [Proposals -> SUBSET {"rolled_back", "failed"}]
    /\ granted \subseteq Proposals /\ raised \subseteq Proposals
    /\ crashes \in 0..MaxCrashes

\* A human's candidate is a branch that is there already; the agents make theirs.
Init ==
    /\ origin \in [Proposals -> Origins]
    /\ main = <<Direct>>
    /\ branches = {p \in Proposals : origin[p] = "human"}
    /\ trees = {}
    /\ base = [p \in Proposals |-> 1]
    /\ guarded \in {g \in [Proposals -> BOOLEAN] : \A p \in Proposals : g[p] => origin[p] = "human"}
    /\ results = [p \in Proposals |-> <<>>]
    /\ author = [p \in Proposals |-> "idle"]
    /\ row = [p \in Proposals |-> [outcome |-> "none", by |-> NoProposal, sha |-> 0]]
    /\ lesson = [p \in Proposals |-> "none"]
    /\ human = [h \in Humans |-> Idle]
    /\ undone = [p \in Proposals |-> {}]
    /\ granted = {} /\ raised = {}
    /\ crashes = 0

-----------------------------------------------------------------------------
(* The gates and the decision.                                             *)

\* benchmark judges backtest_compare's comparison and runs no scenario of its own.
GateStatus(g, report) == report[IF g = "benchmark" THEN "backtest_compare" ELSE g]

\* run_gates: in order, up to the first failure; a failed backtest still adds the benchmark.
RunGates(report) ==
    LET failing == {i \in 1..5 : GateStatus(Gates[i], report) = "failed"}
        last == IF failing = {} THEN 5 ELSE IF Min(failing) = 3 THEN 4 ELSE Min(failing)
    IN [i \in 1..last |-> [gate |-> Gates[i], status |-> GateStatus(Gates[i], report)]]

\* The researcher adds the risk and the supervisor gate whatever the others said;
\* the supervisor's is not passed unless the risk gate is there and passed.
MoreGates(report) ==
    LET risk == report["risk_gate"]
        supervisor == IF risk = "failed" THEN "failed" ELSE report["supervisor_gate"]
    IN <<[gate |-> "risk_gate", status |-> risk], [gate |-> "supervisor_gate", status |-> supervisor]>>

Judged(p, report) ==
    IF guarded[p] THEN <<>>
    ELSE RunGates(report) \o (IF origin[p] = "quant_researcher" THEN MoreGates(report) ELSE <<>>)

Decide(gates, selfModification) ==
    IF selfModification \/ \E i \in DOMAIN gates : gates[i].status = "failed" THEN "REJECTED"
    ELSE IF \E i \in DOMAIN gates : gates[i].gate = "code_quality" /\ gates[i].status = "skipped"
    THEN "REQUIRES_REVIEW" ELSE "APPROVED"

Decision(p) == Decide(results[p], guarded[p])

-----------------------------------------------------------------------------
(* The pipelines.                                                          *)

AuthorTo(p, from, to) == author[p] = from /\ author' = [author EXCEPT ![p] = to]

RecordRow(p, outcome) == row' = [row EXCEPT ![p].outcome = outcome]

\* worktree.remove: the directory and the branch.
RemoveTree(p) ==
    /\ trees' = trees \ {p}
    /\ branches' = branches \ {p}
    /\ UNCHANGED <<origin, main, base, guarded>>

\* run_proposal whose target files are guarded: no worktree, one rejected row.
DetectionRefuses(p) ==
    /\ origin[p] = "dev_agent"
    /\ AuthorTo(p, "idle", "done")
    /\ RecordRow(p, "rejected")
    /\ UNCHANGED <<gitVars, results, lesson, raised, human, undone, granted, crashes>>

\* worktree.create on a new branch off main, or checkout_existing on the candidate's.
OpenTree(p) ==
    /\ AuthorTo(p, "idle", IF origin[p] = "human" THEN "committed" ELSE "writing")
    /\ origin[p] = "human" => p \in branches \ trees
    /\ trees' = trees \cup {p}
    /\ branches' = branches \cup {p}
    /\ base' = IF origin[p] = "human" THEN base ELSE [base EXCEPT ![p] = Len(main)]
    /\ UNCHANGED <<origin, main, guarded, results, lesson, raised, row, human, undone, granted, crashes>>

\* generate_patch or _submit_for_approval commits what was written.
CommitChange(p) ==
    /\ AuthorTo(p, "writing", "committed")
    /\ \E touches \in BOOLEAN : guarded' = [guarded EXCEPT ![p] = touches]
    /\ UNCHANGED <<origin, main, branches, trees, base, results, lesson, raised, row, human, undone,
                   granted, crashes>>

\* An exception in generate_patch: the worktree goes, the rejected row follows.
PatchFails(p) ==
    /\ origin[p] = "dev_agent"
    /\ AuthorTo(p, "writing", "refused")
    /\ RemoveTree(p)
    /\ UNCHANGED <<results, lesson, raised, row, human, undone, granted, crashes>>

RecordRefusal(p) ==
    /\ AuthorTo(p, "refused", "done")
    /\ RecordRow(p, "rejected")
    /\ \E selfModification \in BOOLEAN :
        lesson' = [lesson EXCEPT ![p] = IF selfModification THEN "none" ELSE "failed_experiment"]
    /\ UNCHANGED <<gitVars, results, raised, human, undone, granted, crashes>>

Vet(p) ==
    /\ AuthorTo(p, "committed", "vetted")
    /\ \E report \in Reports : results' = [results EXCEPT ![p] = Judged(p, report)]
    /\ UNCHANGED <<gitVars, lesson, raised, row, human, undone, granted, crashes>>

RecordProposal(p) ==
    /\ AuthorTo(p, "vetted", "recorded")
    /\ RecordRow(p, IF Decision(p) = "REJECTED" THEN "rejected" ELSE "pending_approval")
    /\ UNCHANGED <<gitVars, results, lesson, raised, human, undone, granted, crashes>>

\* A guarded change is no lesson, and run() keeps none.
Remember(p) ==
    /\ AuthorTo(p, "recorded", "remembered")
    /\ lesson' = IF guarded[p] \/ origin[p] = "human" THEN lesson
                 ELSE [lesson EXCEPT ![p] = IF Decision(p) = "REJECTED" THEN "failed_experiment"
                                            ELSE "bug_fix"]
    /\ UNCHANGED <<gitVars, results, raised, row, human, undone, granted, crashes>>

\* The worktree of a rejected change is removed, the others stay for the human.
FinishRun(p) ==
    /\ AuthorTo(p, "remembered", "done")
    /\ IF Decision(p) = "REJECTED" THEN RemoveTree(p) ELSE UNCHANGED gitVars
    /\ UNCHANGED <<results, lesson, raised, row, human, undone, granted, crashes>>

\* Any exception between the worktree and the return: it is removed, recorded or not.
RunRaises(p) ==
    /\ author[p] \in {"committed", "vetted", "recorded", "remembered"}
        \/ (author[p] = "writing" /\ origin[p] = "quant_researcher")
    /\ author' = [author EXCEPT ![p] = "raised"]
    /\ raised' = IF author[p] \in {"recorded", "remembered"} THEN raised \cup {p} ELSE raised
    /\ RemoveTree(p)
    /\ UNCHANGED <<results, lesson, row, human, undone, granted, crashes>>

RunDies(p) ==
    /\ crashes < MaxCrashes
    /\ author[p] \notin {"idle", "done", "raised", "dead"}
    /\ author' = [author EXCEPT ![p] = "dead"]
    /\ crashes' = crashes + 1
    /\ UNCHANGED <<gitVars, results, lesson, raised, row, human, undone, granted>>

-----------------------------------------------------------------------------
(* The humans.                                                             *)

\* A check of the row that was read: the command goes on, or raises and ends.
Starts(h, p, outcome, place) ==
    /\ human[h] = Idle
    /\ row[p].outcome = outcome
    /\ human' = [human EXCEPT ![h] = [at |-> place, on |-> p, sha |-> row[p].sha]]
    /\ UNCHANGED <<gitVars, pipelineVars, row, undone, granted, crashes>>

ApproveCheck(h, p)  == Starts(h, p, "pending_approval", "approve")
RejectCheck(h, p)   == Starts(h, p, "pending_approval", "reject")
ApplyCheck(h, p)    == Starts(h, p, "approved", "mergeable")
RollbackCheck(h, p) == row[p].sha # 0 /\ Starts(h, p, "applied", "revert")

Goes(h, from, to) ==
    /\ human[h].at = from
    /\ human' = [human EXCEPT ![h] = IF to = "idle" THEN Idle ELSE [@ EXCEPT !.at = to]]

\* set_outcome writes the approver even when it has none; the commit only when it has one.
SetOutcome(h, outcome, by, sha) ==
    /\ row' = [row EXCEPT ![human[h].on] = [outcome |-> outcome, by |-> by,
                                            sha |-> IF sha = 0 THEN @.sha ELSE sha]]
    /\ UNCHANGED <<gitVars, pipelineVars, undone, crashes>>

ApproveWrite(h) ==
    /\ Goes(h, "approve", "idle")
    /\ SetOutcome(h, "approved", h, 0)
    /\ granted' = granted \cup {human[h].on}

RejectWrite(h) ==
    /\ Goes(h, "reject", "idle")
    /\ SetOutcome(h, "rejected", h, 0)
    /\ UNCHANGED granted

\* main's tip is an ancestor of the branch: main has not moved, or moved by this very change.
AlreadyMerged(p) == Len(main) = base[p] + 1 /\ main[Len(main)] = Change(p)
\* Mutant: any existing branch is merged.
MergeableAnyway(p) == p \in branches

FastForwardable(p) == p \in branches /\ (Len(main) = base[p] \/ AlreadyMerged(p))

MergeableCheck(h) ==
    /\ human[h].at = "mergeable"
    /\ Goes(h, "mergeable", IF FastForwardable(human[h].on) THEN "merge" ELSE "idle")
    /\ UNCHANGED <<gitVars, pipelineVars, row, undone, granted, crashes>>

\* git merge --ff-only repeats the check; "already up to date" is a success.
Merge(h) ==
    /\ FastForwardable(human[h].on)
    /\ Goes(h, "merge", "revparse")
    /\ main' = IF AlreadyMerged(human[h].on) THEN main ELSE Append(main, Change(human[h].on))
    /\ UNCHANGED <<origin, branches, trees, base, guarded, pipelineVars, row, undone, granted, crashes>>

MergeFails(h) ==
    /\ Goes(h, "merge", "idle")
    /\ UNCHANGED <<gitVars, pipelineVars, row, undone, granted, crashes>>

\* git rev-parse HEAD: the tip of main by now.
RevParse(h) ==
    /\ human[h].at = "revparse"
    /\ human' = [human EXCEPT ![h].at = "apply", ![h].sha = Len(main)]
    /\ UNCHANGED <<gitVars, pipelineVars, row, undone, granted, crashes>>

ApplyWrite(h) ==
    /\ Goes(h, "apply", "idle")
    /\ SetOutcome(h, "applied", h, human[h].sha)
    /\ UNCHANGED granted

\* git revert of the recorded commit; reverting twice, or a conflict, fails.
Revert(h) ==
    /\ \/ /\ \A i \in DOMAIN main : main[i] # <<"revert", human[h].sha>>
          /\ Goes(h, "revert", "log")
          /\ main' = Append(main, <<"revert", human[h].sha>>)
       \/ Goes(h, "revert", "log_failed") /\ UNCHANGED main
    /\ UNCHANGED <<origin, branches, trees, base, guarded, pipelineVars, row, undone, granted, crashes>>

LogRollback(h) ==
    /\ \/ Goes(h, "log", "undo") /\ undone' = [undone EXCEPT ![human[h].on] = @ \cup {"rolled_back"}]
       \/ Goes(h, "log_failed", "idle") /\ undone' = [undone EXCEPT ![human[h].on] = @ \cup {"failed"}]
    /\ UNCHANGED <<gitVars, pipelineVars, row, granted, crashes>>

RollbackWrite(h) ==
    /\ Goes(h, "undo", "idle")
    /\ SetOutcome(h, "rolled_back", NoProposal, 0)
    /\ UNCHANGED granted

\* verify_merge_readiness: a worktree on the branch, the gates, and worktree.remove, which
\* takes the branch with it.  A branch that has a worktree cannot be checked out again.
VerifyStart(h, p) ==
    /\ human[h] = Idle
    /\ p \in branches \ trees
    /\ human' = [human EXCEPT ![h] = [at |-> "verify", on |-> p, sha |-> 0]]
    /\ trees' = trees \cup {p}
    /\ UNCHANGED <<origin, main, branches, base, guarded, pipelineVars, row, undone, granted, crashes>>

VerifyEnd(h) ==
    /\ Goes(h, "verify", "idle")
    /\ RemoveTree(human[h].on)
    /\ UNCHANGED <<pipelineVars, row, undone, granted, crashes>>

HumanDies(h) ==
    /\ crashes < MaxCrashes /\ human[h] # Idle
    /\ human' = [human EXCEPT ![h] = Idle]
    /\ crashes' = crashes + 1
    /\ UNCHANGED <<gitVars, pipelineVars, row, undone, granted>>

\* Somebody commits to main without this program.
DirectCommit ==
    /\ Len(main) < MaxCommits
    /\ main' = Append(main, Direct)
    /\ UNCHANGED <<origin, branches, trees, base, guarded, pipelineVars, row, human, undone, granted, crashes>>

RunStep(p) ==
    \/ DetectionRefuses(p) \/ OpenTree(p) \/ CommitChange(p) \/ PatchFails(p) \/ RecordRefusal(p)
    \/ Vet(p) \/ RecordProposal(p) \/ Remember(p) \/ FinishRun(p) \/ RunRaises(p) \/ RunDies(p)

HumanStep(h) ==
    \/ \E p \in Proposals : \/ ApproveCheck(h, p) \/ RejectCheck(h, p) \/ ApplyCheck(h, p)
                            \/ RollbackCheck(h, p) \/ VerifyStart(h, p)
    \/ ApproveWrite(h) \/ RejectWrite(h) \/ MergeableCheck(h) \/ Merge(h) \/ MergeFails(h)
    \/ RevParse(h) \/ ApplyWrite(h) \/ Revert(h) \/ LogRollback(h) \/ RollbackWrite(h)
    \/ VerifyEnd(h) \/ HumanDies(h)

Next == (\E p \in Proposals : RunStep(p)) \/ (\E h \in Humans : HumanStep(h)) \/ DirectCommit

Spec == Init /\ [][Next]_vars

-----------------------------------------------------------------------------
(* Properties.                                                             *)

OnMain(p) == \E i \in DOMAIN main : main[i] = Change(p)

RequiredGates(p) ==
    GateNames \cup
    (IF origin[p] = "quant_researcher" THEN {"risk_gate", "supervisor_gate"} ELSE {})

\* Whatever the races of pipelines, approvers and appliers, a change is on main only if a
\* human approved it, its diff stays out of agents/, and every gate of its pipeline ran on
\* it and none failed.
OnlyVettedIsMerged ==
    \A p \in Proposals : OnMain(p) =>
        /\ p \in granted
        /\ ~guarded[p]
        /\ \A g \in RequiredGates(p) :
            \E i \in DOMAIN results[p] : results[p][i].gate = g /\ results[p][i].status # "failed"

\* The gates ran on a tree; main never gets the change on top of any other: a change that is
\* on main follows the very commit its branch was cut from, and is there once.
MergedAsTested ==
    \A p \in Proposals : \A i \in DOMAIN main : main[i] = Change(p) => i = base[p] + 1

\* A row that says applied or rolled back speaks of a change that main has and names a
\* commit, and a row that says rolled back has a rollback row and a revert on main behind it.
AppliedIsMerged ==
    \A p \in Proposals :
        /\ row[p].outcome \in {"applied", "rolled_back"} => OnMain(p) /\ row[p].sha # 0
        /\ row[p].outcome = "rolled_back" =>
            /\ "rolled_back" \in undone[p]
            /\ \E i \in DOMAIN main : main[i][1] = "revert" /\ main[i][2] \in 1..(i - 1)

\* A proposal a human can still act on has its branch, unless its pipeline raised after it
\* had recorded the row and took the branch away.
LostBranchExplained ==
    \A p \in Proposals :
        row[p].outcome \in {"pending_approval", "approved"} /\ p \notin branches => p \in raised

\* A pipeline that rejects its change leaves neither worktree nor branch, on every way out
\* but the death of the process.
NoLitter ==
    \A p \in Proposals :
        \/ author[p] = "raised"
        \/ author[p] = "done" /\ row[p].outcome = "rejected" /\ row[p].by = NoProposal
        => p \notin branches \cup trees

\* Memory learns a fix only from a change that passed its gates, and a guarded change
\* teaches nothing.
LessonsMatchVerdict ==
    \A p \in Proposals :
        /\ lesson[p] = "bug_fix" => Decision(p) # "REJECTED" /\ row[p].outcome # "none"
        /\ guarded[p] => lesson[p] = "none"

\* A change reaches main vetted and as it was tested, and row, branches and lessons agree with
\* what happened to it.
ChangesAreVetted ==
    /\ TypeOK /\ OnlyVettedIsMerged /\ MergedAsTested /\ AppliedIsMerged
    /\ LostBranchExplained /\ NoLitter /\ LessonsMatchVerdict
=============================================================================

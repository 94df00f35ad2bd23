---------------------------- MODULE PlatformProofs ----------------------------
(***************************************************************************)
(* Proofs about parts of the platform that share no state, each under the  *)
(* names MCPlatform runs it by.  First the proposals: whatever pipelines,  *)
(* approvers, appliers and deaths of processes do, what reaches main is    *)
(* what was vetted.  Then, through instances of their modules, live        *)
(* profiles and backtest jobs, tick health, the production watchdog, the   *)
(* broker session, the agents' status rows, backups, the exits and the     *)
(* Trade Guardian, and the two kinds of replay.                            *)
(***************************************************************************)
EXTENDS Proposal, SequenceTheorems, FiniteSetTheorems, TLAPS

-----------------------------------------------------------------------------
(* The inductive invariant.                                                *)

Unrecorded  == {"idle", "writing", "refused", "committed", "vetted"}
Underway    == {"writing", "committed", "vetted", "recorded", "remembered"}

Deciding    == {"approve", "reject", "mergeable", "merge", "revparse", "apply",
                "revert", "log", "log_failed", "undo"}
AfterGrant  == Deciding \ {"approve", "reject"}
AfterMerge  == AfterGrant \ {"mergeable", "merge"}
RollingBack == {"revert", "log", "log_failed", "undo"}

\* The gates ran on p, none failed, and p stays out of agents/.
Sound(p) ==
    /\ Decision(p) # "REJECTED" /\ ~guarded[p]
    /\ \A g \in RequiredGates(p) :
        \E i \in DOMAIN results[p] : results[p][i].gate = g /\ results[p][i].status # "failed"

\* What a human decides on: it was recorded as sound, and its branch is there unless its
\* pipeline raised.
Accepted(p) == row[p].outcome # "none" /\ Sound(p) /\ p \in branches \cup raised

Reverted == \E i \in DOMAIN main : main[i][1] = "revert" /\ main[i][2] \in 1..(i - 1)

Typed == TypeOK /\ results \in [Proposals -> Seq([gate : AllGates, status : Statuses])]

\* A pipeline writes its row once, after the gates.
AuthorInv(p) ==
    /\ author[p] \in Unrecorded => row[p].outcome = "none"
    /\ author[p] \in {"recorded", "remembered"} => row[p].outcome # "none"
    /\ author[p] \in {"vetted", "recorded", "remembered"} => Decision(p) = "REJECTED" \/ Sound(p)
    /\ author[p] \in {"writing", "refused"} => origin[p] # "human"
    /\ author[p] \in {"idle", "writing", "refused"} /\ guarded[p] => origin[p] = "human"

\* The worktree and the branch go together, but for a human's branch before its run.
BranchInv(p) ==
    /\ author[p] \in Underway => p \in branches
    /\ p \in branches \ trees => author[p] = "idle" /\ origin[p] = "human"
    /\ author[p] = "idle" /\ origin[p] # "human" => p \notin branches \cup trees
    /\ author[p] \in {"refused", "raised"} => p \notin branches \cup trees
    /\ author[p] = "done" /\ row[p].outcome = "rejected" /\ row[p].by = NoProposal
        => p \notin branches \cup trees

LessonInv(p) ==
    /\ lesson[p] # "none" => author[p] \in {"remembered", "done", "raised", "dead"} /\ ~guarded[p]
    /\ lesson[p] = "bug_fix" => Decision(p) # "REJECTED" /\ row[p].outcome # "none"

RowInv(p) ==
    /\ row[p].outcome \notin {"none", "rejected"} => Accepted(p)
    /\ row[p].outcome \in {"approved", "applied", "rolled_back"} => p \in granted
    /\ row[p].outcome \in {"applied", "rolled_back"} => OnMain(p) /\ row[p].sha # 0
    /\ row[p].outcome = "rolled_back" => "rolled_back" \in undone[p] /\ Reverted
    /\ row[p].outcome = "rejected" /\ row[p].by = NoProposal /\ author[p] \in {"recorded", "remembered"}
        => Decision(p) = "REJECTED"
    /\ row[p].sha <= Len(main)

\* What a person at work knows, although the row may have changed since it was read.
HumanInv(h) ==
    LET p == human[h].on IN
    /\ human[h].at \in Deciding => p \in Proposals /\ Accepted(p)
    /\ human[h].at \in AfterGrant => p \in granted
    /\ human[h].at \in AfterMerge => OnMain(p)
    /\ human[h].at \in RollingBack \cup {"apply"} => human[h].sha # 0
    /\ human[h].at \in RollingBack => row[p].sha # 0
    /\ human[h].at \in {"log", "undo"} => Reverted
    /\ human[h].at = "undo" => "rolled_back" \in undone[p]
    /\ human[h].at = "verify" =>
        p \in Proposals \cap trees /\ author[p] = "idle" /\ origin[p] = "human"
    /\ human[h].sha <= Len(main)

\* A branch is checked out once: two people never verify the same one.
ApartInv ==
    \A h, k \in Humans :
        human[h].at = "verify" /\ human[k].at = "verify" /\ human[h].on = human[k].on => h = k

MainInv ==
    /\ Len(main) >= 1
    /\ \A p \in Proposals : OnMain(p) => Accepted(p) /\ p \in granted
    /\ MergedAsTested

IInv ==
    /\ Typed /\ MainInv
    /\ \A p \in Proposals : AuthorInv(p) /\ BranchInv(p) /\ LessonInv(p) /\ RowInv(p)
    /\ ApartInv /\ \A h \in Humans : HumanInv(h)

-----------------------------------------------------------------------------
(* The gates.                                                              *)

\* The gates by name.
LEMMA GatesByName ==
    GateNames = {"unit_tests", "integration_tests", "backtest_compare", "benchmark", "code_quality"}
<1>1. \A i \in 1..5 : i = 1 \/ i = 2 \/ i = 3 \/ i = 4 \/ i = 5
  OBVIOUS
<1> QED  BY <1>1 DEF GateNames, Gates

\* What one report makes of a gate.
LEMMA StatusOfGate ==
    ASSUME ConstantsFit, NEW report \in Reports, NEW g \in GateNames
    PROVE  GateStatus(g, report) \in Statuses
<1>1. report \in [(AllGates \ {"benchmark"}) -> Statuses]
  BY DEF ConstantsFit
<1>2. g # "benchmark" => g \in AllGates \ {"benchmark"}
  BY DEF AllGates
<1>3. "backtest_compare" \in AllGates \ {"benchmark"}
  BY GatesByName DEF AllGates
<1> QED  BY <1>1, <1>2, <1>3 DEF GateStatus

\* The gates run in order and end at the first failure: the results have the failure in them
\* or are complete.
LEMMA GatesRun ==
    ASSUME ConstantsFit, NEW report \in Reports
    PROVE  /\ RunGates(report) \in Seq([gate : AllGates, status : Statuses])
           /\ \/ \E i \in DOMAIN RunGates(report) : RunGates(report)[i].status = "failed"
              \/ \A g \in GateNames :
                  \E i \in DOMAIN RunGates(report) :
                    RunGates(report)[i].gate = g /\ RunGates(report)[i].status # "failed"
<1> DEFINE failing == {i \in 1..5 : GateStatus(Gates[i], report) = "failed"}
           last    == IF failing = {} THEN 5 ELSE IF Min(failing) = 3 THEN 4 ELSE Min(failing)
           run     == [i \in 1..last |-> [gate |-> Gates[i], status |-> GateStatus(Gates[i], report)]]
<1>0. RunGates(report) = run
  BY DEF RunGates
<1>1. failing # {} => Min(failing) \in failing
  <2> SUFFICES ASSUME failing # {} PROVE \E m \in failing : \A i \in failing : m <= i
    BY DEF Min
  <2> CASE 1 \in failing  OBVIOUS
  <2> CASE 1 \notin failing /\ 2 \in failing  OBVIOUS
  <2> CASE 1 \notin failing /\ 2 \notin failing /\ 3 \in failing  OBVIOUS
  <2> CASE 1 \notin failing /\ 2 \notin failing /\ 3 \notin failing /\ 4 \in failing  OBVIOUS
  <2> CASE 1 \notin failing /\ 2 \notin failing /\ 3 \notin failing /\ 4 \notin failing  OBVIOUS
  <2> QED  OBVIOUS
<1>2. last \in 1..5
  BY <1>1
<1>3. \A i \in 1..5 : Gates[i] \in GateNames
  BY DEF GateNames
<1>4. run \in Seq([gate : AllGates, status : Statuses])
  <2>1. \A i \in 1..last : [gate |-> Gates[i], status |-> GateStatus(Gates[i], report)]
                            \in [gate : AllGates, status : Statuses]
    BY <1>2, <1>3, StatusOfGate DEF AllGates
  <2> HIDE DEF last
  <2> QED  BY <2>1, <1>2
<1>5. CASE failing = {}
  <2>1. last = 5 /\ DOMAIN run = 1..5
    BY <1>5
  <2>2. \A i \in 1..5 : run[i].gate = Gates[i] /\ run[i].status # "failed"
    BY <1>5, <2>1
  <2> QED  BY <1>0, <1>4, <2>1, <2>2 DEF GateNames
<1>6. CASE failing # {}
  <2>1. Min(failing) \in 1..last /\ GateStatus(Gates[Min(failing)], report) = "failed"
    BY <1>1, <1>6
  <2>2. run[Min(failing)].status = "failed" /\ Min(failing) \in DOMAIN run
    BY <2>1
  <2> QED  BY <1>0, <1>4, <2>2
<1> QED  BY <1>5, <1>6

\* A change that is not rejected ran every gate of its pipeline, and none failed.
LEMMA JudgedIsSound ==
    ASSUME ConstantsFit, NEW report \in Reports, NEW p \in Proposals,
           NEW gates, gates = Judged(p, report)
    PROVE  /\ gates \in Seq([gate : AllGates, status : Statuses])
           /\ Decide(gates, guarded[p]) # "REJECTED" =>
                 \A g \in RequiredGates(p) :
                   \E i \in DOMAIN gates : gates[i].gate = g /\ gates[i].status # "failed"
<1> DEFINE run == RunGates(report)
           more == MoreGates(report)
           R    == [gate : AllGates, status : Statuses]
<1>1. CASE guarded[p]
  BY <1>1 DEF Judged, Decide
<1>2. CASE ~guarded[p] /\ origin[p] # "quant_researcher"
  <2>1. gates = run \o <<>> /\ run \in Seq(R)
    BY <1>2, GatesRun DEF Judged
  <2>2. gates = run
    BY <2>1
  <2>3. RequiredGates(p) = GateNames
    BY <1>2 DEF RequiredGates, GateNames
  <2> QED  BY <2>1, <2>2, <2>3, GatesRun DEF Decide
<1>3. CASE ~guarded[p] /\ origin[p] = "quant_researcher"
  <2>1. gates = run \o more /\ run \in Seq(R)
    BY <1>3, GatesRun DEF Judged
  <2>2. /\ more \in Seq(R) /\ Len(more) = 2
        /\ more[1].gate = "risk_gate" /\ more[2].gate = "supervisor_gate"
    <3>1. report \in [(AllGates \ {"benchmark"}) -> Statuses]
      BY DEF ConstantsFit
    <3>2. /\ {"risk_gate", "supervisor_gate"} \subseteq AllGates \ {"benchmark"}
          /\ {"risk_gate", "supervisor_gate"} \subseteq AllGates
      BY DEF AllGates
    <3> QED  BY <3>1, <3>2 DEF MoreGates, Statuses
  <2> HIDE DEF run, more, R
  <2>3. gates \in Seq(R) /\ DOMAIN gates = 1..(Len(run) + 2)
    <3>1. run \o more \in Seq(R) /\ Len(run \o more) = Len(run) + Len(more)
      BY <2>1, <2>2, ConcatProperties
    <3> QED  BY <3>1, <2>1, <2>2
  <2>4. \A i \in 1..Len(run) : i \in DOMAIN gates /\ gates[i] = run[i]
    BY <2>1, <2>2, <2>3
  <2>5. Len(run) \in Nat /\ DOMAIN run = 1..Len(run)
    BY <2>1
  <2>6. /\ Len(run) + 1 \in DOMAIN gates /\ gates[Len(run) + 1] = more[1]
        /\ Len(run) + 2 \in DOMAIN gates /\ gates[Len(run) + 2] = more[2]
    BY <2>1, <2>2, <2>3, <2>5
  <2>7. SUFFICES ASSUME \A i \in DOMAIN gates : gates[i].status # "failed", NEW g \in RequiredGates(p)
                 PROVE  \E i \in DOMAIN gates : gates[i].gate = g
    BY <2>3, <1>3 DEF Decide, R
  <2>8. CASE g \in GateNames
    <3>1. \A i \in DOMAIN run : run[i].status # "failed"
      BY <2>4, <2>5, <2>7
    <3>2. \E i \in DOMAIN run : run[i].gate = g
      BY <3>1, <2>8, GatesRun DEF run
    <3> QED  BY <3>2, <2>4, <2>5
  <2>9. CASE g \in {"risk_gate", "supervisor_gate"}
    BY <2>2, <2>6, <2>9
  <2> QED  BY <2>7, <2>8, <2>9 DEF RequiredGates, GateNames
<1> QED  BY <1>1, <1>2, <1>3

-----------------------------------------------------------------------------
(* The first state, and types.                                             *)

LEMMA InitHolds ==
    ASSUME ConstantsFit, Init
    PROVE  IInv
<1>1. \A p \in Proposals :
        /\ author[p] = "idle" /\ lesson[p] = "none" /\ results[p] = <<>>
        /\ row[p] = [outcome |-> "none", by |-> NoProposal, sha |-> 0]
        /\ guarded[p] => origin[p] = "human"
        /\ p \in branches <=> origin[p] = "human"
        /\ ~OnMain(p)
  BY DEF Init, OnMain, Change, Direct
<1>2. Typed
  <2>1. main \in Seq(Commits)
    BY DEF Init, Commits
  <2>2. guarded \in [Proposals -> BOOLEAN]
    BY DEF Init
  <2>3. results \in [Proposals -> Seq([gate : AllGates, status : Statuses])]
    BY DEF Init
  <2>4. \A p \in Proposals : \A i \in DOMAIN results[p] : results[p][i].status \in Statuses
    BY <1>1
  <2> QED  BY <2>1, <2>2, <2>3, <2>4 DEF Typed, TypeOK, Init, ConstantsFit, Outcomes, Idle
<1>3. MainInv
  BY <1>1 DEF MainInv, MergedAsTested, OnMain, Init
<1>4. ASSUME NEW p \in Proposals
      PROVE  AuthorInv(p) /\ BranchInv(p) /\ LessonInv(p) /\ RowInv(p)
  BY <1>1 DEF AuthorInv, BranchInv, LessonInv, RowInv, Underway, Init
<1>5. ApartInv /\ \A h \in Humans : HumanInv(h)
  BY DEF ApartInv, HumanInv, Deciding, AfterGrant, AfterMerge, RollingBack, Idle, Init
<1> QED  BY <1>2, <1>3, <1>4, <1>5 DEF IInv

\* The parts of the state that one step of a pipeline leaves alone.
LEMMA RunFrame ==
    ASSUME Typed, NEW p \in Proposals, RunStep(p)
    PROVE  /\ UNCHANGED <<origin, main, human, undone, granted>>
           /\ raised \subseteq raised'
           /\ \A q \in Proposals \ {p} :
                /\ base'[q] = base[q] /\ guarded'[q] = guarded[q] /\ results'[q] = results[q]
                /\ author'[q] = author[q] /\ row'[q] = row[q] /\ lesson'[q] = lesson[q]
                /\ q \in branches' <=> q \in branches
                /\ q \in trees' <=> q \in trees
<1> USE DEF Typed, TypeOK, gitVars, AuthorTo
<1>1. CASE DetectionRefuses(p)  BY <1>1 DEF DetectionRefuses, RecordRow
<1>2. CASE OpenTree(p)          BY <1>2 DEF OpenTree
<1>3. CASE CommitChange(p)      BY <1>3 DEF CommitChange
<1>4. CASE PatchFails(p)        BY <1>4 DEF PatchFails, RemoveTree
<1>5. CASE RecordRefusal(p)     BY <1>5 DEF RecordRefusal, RecordRow
<1>6. CASE Vet(p)               BY <1>6 DEF Vet
<1>7. CASE RecordProposal(p)    BY <1>7 DEF RecordProposal, RecordRow
<1>8. CASE Remember(p)          BY <1>8 DEF Remember
<1>9. CASE FinishRun(p)         BY <1>9 DEF FinishRun, RemoveTree
<1>10. CASE RunRaises(p)        BY <1>10 DEF RunRaises, RemoveTree
<1>11. CASE RunDies(p)          BY <1>11 DEF RunDies
<1> QED  BY <1>1, <1>2, <1>3, <1>4, <1>5, <1>6, <1>7, <1>8, <1>9, <1>10, <1>11 DEF RunStep

\* What a step of a person leaves alone: everything of the pipelines, every other person, and
\* every row but that of the proposal the person is on, whose commit is never forgotten.
LEMMA HumanFrame ==
    ASSUME Typed, NEW h \in Humans, HumanStep(h)
    PROVE  /\ UNCHANGED <<origin, base, guarded, results, author, lesson, raised>>
           /\ branches' \subseteq branches
           /\ granted \subseteq granted'
           /\ \A k \in Humans \ {h} : human'[k] = human[k]
           /\ \A q \in Proposals : undone[q] \subseteq undone'[q]
           /\ \A q \in Proposals : (row[q].sha # 0 => row'[q].sha # 0)
<1> USE DEF Typed, TypeOK, gitVars, pipelineVars, Starts, Goes, SetOutcome
<1>1. ASSUME NEW p \in Proposals,
             ApproveCheck(h, p) \/ RejectCheck(h, p) \/ ApplyCheck(h, p) \/ RollbackCheck(h, p)
      PROVE  UNCHANGED <<row, undone, granted, gitVars, pipelineVars>> /\ \A k \in Humans \ {h} : human'[k] = human[k]
  BY <1>1 DEF ApproveCheck, RejectCheck, ApplyCheck, RollbackCheck
<1>2. ASSUME NEW p \in Proposals, VerifyStart(h, p)
      PROVE  UNCHANGED <<row, undone, granted, branches, origin, base, guarded, pipelineVars>>
             /\ \A k \in Humans \ {h} : human'[k] = human[k]
  BY <1>2 DEF VerifyStart
<1>3. CASE ApproveWrite(h)   BY <1>3 DEF ApproveWrite
<1>4. CASE RejectWrite(h)    BY <1>4 DEF RejectWrite
<1>5. CASE MergeableCheck(h) BY <1>5 DEF MergeableCheck
<1>6. CASE Merge(h)          BY <1>6 DEF Merge
<1>7. CASE MergeFails(h)     BY <1>7 DEF MergeFails
<1>8. CASE RevParse(h)       BY <1>8 DEF RevParse
<1>9. CASE ApplyWrite(h)     BY <1>9 DEF ApplyWrite
<1>10. CASE Revert(h)        BY <1>10 DEF Revert
<1>11. CASE LogRollback(h)
  <2>1. \A k \in Humans \ {h} : human'[k] = human[k]
    BY <1>11 DEF LogRollback
  <2>2. \A s : undone' = [undone EXCEPT ![human[h].on] = @ \cup {s}] =>
              \A q \in Proposals : undone[q] \subseteq undone'[q]
    OBVIOUS
  <2>3. \A q \in Proposals : undone[q] \subseteq undone'[q]
    <3> HIDE DEF Typed
    <3> QED  BY <1>11, <2>2 DEF LogRollback
  <2> QED  BY <1>11, <2>1, <2>3 DEF LogRollback
<1>12. CASE RollbackWrite(h) BY <1>12 DEF RollbackWrite
<1>13. CASE VerifyEnd(h)     BY <1>13 DEF VerifyEnd, RemoveTree
<1>14. CASE HumanDies(h)     BY <1>14 DEF HumanDies
<1> QED  BY <1>1, <1>2, <1>3, <1>4, <1>5, <1>6, <1>7, <1>8, <1>9, <1>10, <1>11, <1>12, <1>13, <1>14
            DEF HumanStep

\* Each step of a pipeline keeps the types.
LEMMA RunTyped ==
    ASSUME ConstantsFit, Typed, NEW p \in Proposals, RunStep(p)
    PROVE  Typed'
<1> DEFINE R == [gate : AllGates, status : Statuses]
           Stages == {"idle", "writing", "refused", "committed", "vetted",
                      "recorded", "remembered", "done", "raised", "dead"}
           TreesOK == branches' \subseteq Proposals /\ trees' \subseteq Proposals
           BaseOK == base' \in [Proposals -> Nat] /\ guarded' \in [Proposals -> BOOLEAN]
           ResultsOK == results' \in [Proposals -> Seq(R)]
           StagesOK == author' \in [Proposals -> Stages]
           RowsOK == row' \in [Proposals -> [outcome : Outcomes, by : Humans \cup {NoProposal}, sha : Nat]]
           LessonsOK == lesson' \in [Proposals -> {"none", "bug_fix", "failed_experiment"}]
           RestOK == raised' \subseteq Proposals /\ crashes' \in 0..MaxCrashes
           OK == TreesOK /\ BaseOK /\ ResultsOK /\ StagesOK /\ RowsOK /\ LessonsOK /\ RestOK
<1>0. SUFFICES OK
  <2>1. ResultsOK => \A q \in Proposals : \A i \in DOMAIN results'[q] : results'[q][i].status \in Statuses
    <3>1. ASSUME NEW S, NEW s \in Seq(S), NEW i \in DOMAIN s  PROVE s[i] \in S
      OBVIOUS
    <3>2. \A s \in Seq(R) : \A i \in DOMAIN s : s[i] \in R
      BY <3>1
    <3>3. \A r \in R : r.status \in Statuses
      OBVIOUS
    <3> HIDE DEF R
    <3> QED  BY <3>2, <3>3
  <2> QED  BY ZenonT(30), <2>1, RunFrame DEF Typed, TypeOK
<1>t. /\ main \in Seq(Commits)
      /\ branches \subseteq Proposals /\ trees \subseteq Proposals
      /\ base \in [Proposals -> Nat] /\ guarded \in [Proposals -> BOOLEAN]
      /\ results \in [Proposals -> Seq(R)]
      /\ author \in [Proposals -> Stages]
      /\ row \in [Proposals -> [outcome : Outcomes, by : Humans \cup {NoProposal}, sha : Nat]]
      /\ lesson \in [Proposals -> {"none", "bug_fix", "failed_experiment"}]
      /\ raised \subseteq Proposals /\ crashes \in 0..MaxCrashes
  BY DEF Typed, TypeOK
<1>s. ASSUME NEW from, NEW to \in Stages, AuthorTo(p, from, to)
      PROVE  StagesOK
  BY <1>s, <1>t DEF AuthorTo
<1>r. ASSUME NEW outcome \in Outcomes, RecordRow(p, outcome)
      PROVE  RowsOK
  <2>1. row[p] \in [outcome : Outcomes, by : Humans \cup {NoProposal}, sha : Nat]
    BY <1>t
  <2>2. [row[p] EXCEPT !.outcome = outcome] \in [outcome : Outcomes, by : Humans \cup {NoProposal}, sha : Nat]
    BY <2>1
  <2> QED  BY <1>r, <1>t, <2>2 DEF RecordRow
<1> USE <1>t DEF gitVars
<1> HIDE DEF R, Stages
<1> DEFINE Known == /\ "idle" \in Stages /\ "writing" \in Stages /\ "refused" \in Stages
                    /\ "committed" \in Stages /\ "vetted" \in Stages /\ "recorded" \in Stages
                    /\ "remembered" \in Stages /\ "done" \in Stages /\ "raised" \in Stages
                    /\ "dead" \in Stages
                    /\ "rejected" \in Outcomes /\ "pending_approval" \in Outcomes
<1>k. Known
  BY DEF Stages, Outcomes
<1>1. CASE DetectionRefuses(p)  BY <1>1, <1>s, <1>r, <1>k DEF DetectionRefuses
<1>2. CASE OpenTree(p)
  <2>1. StagesOK
    BY <1>2, <1>s, <1>k DEF OpenTree
  <2>2. BaseOK
    BY <1>2 DEF OpenTree
  <2> QED  BY <1>2, <2>1, <2>2 DEF OpenTree
<1>3. CASE CommitChange(p)      BY <1>3, <1>s, <1>k DEF CommitChange
<1>4. CASE PatchFails(p)        BY <1>4, <1>s, <1>k DEF PatchFails, RemoveTree
<1>5. CASE RecordRefusal(p)
  <2>1. StagesOK /\ RowsOK
    BY <1>5, <1>s, <1>r, <1>k DEF RecordRefusal
  <2> QED  BY <1>5, <2>1 DEF RecordRefusal
<1>6. CASE Vet(p)
  <2>1. PICK report \in Reports : results' = [results EXCEPT ![p] = Judged(p, report)]
    BY <1>6 DEF Vet
  <2>2. Judged(p, report) \in Seq(R)
    BY JudgedIsSound DEF R
  <2>3. ResultsOK
    BY <2>1, <2>2
  <2> QED  BY <1>6, <1>s, <1>k, <2>3 DEF Vet
<1>7. CASE RecordProposal(p)
  <2>1. StagesOK /\ RowsOK
    BY <1>7, <1>s, <1>r, <1>k DEF RecordProposal
  <2> QED  BY <1>7, <2>1 DEF RecordProposal
<1>8. CASE Remember(p)          BY <1>8, <1>s, <1>k DEF Remember
<1>9. CASE FinishRun(p)         BY <1>9, <1>s, <1>k DEF FinishRun, RemoveTree
<1>10. CASE RunRaises(p)
  <2>1. StagesOK
    BY <1>10, <1>k DEF RunRaises
  <2> QED  BY <1>10, <2>1 DEF RunRaises, RemoveTree
<1>11. CASE RunDies(p)
  <2>1. StagesOK
    BY <1>11, <1>k DEF RunDies
  <2>2. RestOK
    BY <1>11, ConstantsFit DEF RunDies, ConstantsFit
  <2> QED  BY <1>11, <2>1, <2>2 DEF RunDies
<1> QED  BY <1>1, <1>2, <1>3, <1>4, <1>5, <1>6, <1>7, <1>8, <1>9, <1>10, <1>11 DEF RunStep

Places == {"idle", "approve", "reject", "mergeable", "merge", "revparse", "apply", "revert", "log",
           "log_failed", "undo", "verify"}

\* A person who goes on stays well-typed, and on the same proposal unless the call ends.
LEMMA GoesTyped ==
    ASSUME Typed, NEW h \in Humans, NEW from, NEW to \in Places, Goes(h, from, to)
    PROVE  /\ human[h].at = from
           /\ human' \in [Humans -> [at : Places, on : Proposals \cup {NoProposal}, sha : Nat]]
           /\ human'[h] = IF to = "idle" THEN Idle ELSE [human[h] EXCEPT !.at = to]
           /\ \A k \in Humans \ {h} : human'[k] = human[k]
<1>1. human \in [Humans -> [at : Places, on : Proposals \cup {NoProposal}, sha : Nat]]
  BY DEF Typed, TypeOK, Places
<1>2. human[h] \in [at : Places, on : Proposals \cup {NoProposal}, sha : Nat]
  BY <1>1
<1>3. [human[h] EXCEPT !.at = to] \in [at : Places, on : Proposals \cup {NoProposal}, sha : Nat]
  BY <1>2
<1>4. Idle \in [at : Places, on : Proposals \cup {NoProposal}, sha : Nat]
  BY DEF Idle, Places
<1> QED  BY <1>1, <1>3, <1>4 DEF Goes

\* set_outcome keeps the rows well-typed.
LEMMA SetOutcomeTyped ==
    ASSUME Typed, NEW h \in Humans, NEW outcome \in Outcomes, NEW by \in Humans \cup {NoProposal},
           NEW sha \in Nat, SetOutcome(h, outcome, by, sha)
    PROVE  row' \in [Proposals -> [outcome : Outcomes, by : Humans \cup {NoProposal}, sha : Nat]]
<1>1. \A q \in Proposals : row'[q] = row[q] \/ (q = human[h].on
        /\ row'[q] = [outcome |-> outcome, by |-> by, sha |-> IF sha = 0 THEN row[q].sha ELSE sha])
  BY DEF SetOutcome, Typed, TypeOK
<1>2. \A q \in Proposals : row[q] \in [outcome : Outcomes, by : Humans \cup {NoProposal}, sha : Nat]
  BY DEF Typed, TypeOK
<1>3. ASSUME NEW q \in Proposals
      PROVE  row'[q] \in [outcome : Outcomes, by : Humans \cup {NoProposal}, sha : Nat]
  <2>1. (IF sha = 0 THEN row[q].sha ELSE sha) \in Nat
    BY <1>2
  <2>2. \A n \in Nat : [outcome |-> outcome, by |-> by, sha |-> n]
                        \in [outcome : Outcomes, by : Humans \cup {NoProposal}, sha : Nat]
    OBVIOUS
  <2> QED  BY <1>1, <1>2, <2>1, <2>2
<1>4. row' = [q \in Proposals |-> row'[q]]
  BY DEF SetOutcome, Typed, TypeOK
<1> QED  BY <1>3, <1>4

\* Each step of a person keeps the types.
LEMMA HumanTyped ==
    ASSUME ConstantsFit, Typed, NEW h \in Humans, HumanStep(h)
    PROVE  Typed'
<1> DEFINE AtWork == human' \in [Humans -> [at : Places, on : Proposals \cup {NoProposal}, sha : Nat]]
           RowsOK == row' \in [Proposals -> [outcome : Outcomes, by : Humans \cup {NoProposal}, sha : Nat]]
           UndoneOK == undone' \in [Proposals -> SUBSET {"rolled_back", "failed"}]
           GitOK == main' \in Seq(Commits) /\ branches' \subseteq Proposals /\ trees' \subseteq Proposals
           RestOK == granted' \subseteq Proposals /\ crashes' \in 0..MaxCrashes
<1>0. SUFFICES AtWork /\ RowsOK /\ UndoneOK /\ GitOK /\ RestOK
  BY ZenonT(30), HumanFrame DEF Typed, TypeOK, Places
<1> USE DEF gitVars, pipelineVars
<1>t. /\ human \in [Humans -> [at : Places, on : Proposals \cup {NoProposal}, sha : Nat]]
      /\ row \in [Proposals -> [outcome : Outcomes, by : Humans \cup {NoProposal}, sha : Nat]]
      /\ undone \in [Proposals -> SUBSET {"rolled_back", "failed"}]
      /\ main \in Seq(Commits) /\ branches \subseteq Proposals /\ trees \subseteq Proposals
      /\ granted \subseteq Proposals /\ crashes \in 0..MaxCrashes
      /\ human[h] \in [at : Places, on : Proposals \cup {NoProposal}, sha : Nat]
  BY DEF Typed, TypeOK, Places
<1>1. ASSUME NEW p \in Proposals, NEW outcome, NEW place \in Places, Starts(h, p, outcome, place)
      PROVE  AtWork /\ RowsOK /\ UndoneOK /\ GitOK /\ RestOK
  BY <1>1, <1>t DEF Starts, Places
<1>2. ASSUME NEW p \in Proposals,
             ApproveCheck(h, p) \/ RejectCheck(h, p) \/ ApplyCheck(h, p) \/ RollbackCheck(h, p)
      PROVE  AtWork /\ RowsOK /\ UndoneOK /\ GitOK /\ RestOK
  BY <1>1, <1>2 DEF ApproveCheck, RejectCheck, ApplyCheck, RollbackCheck, Places
<1>3. ASSUME NEW p \in Proposals, VerifyStart(h, p)
      PROVE  AtWork /\ RowsOK /\ UndoneOK /\ GitOK /\ RestOK
  BY <1>3, <1>t DEF VerifyStart, Places
<1>4. CASE ApproveWrite(h)
  <2>1. AtWork  BY <1>4, GoesTyped DEF ApproveWrite, Places
  <2>2. RowsOK  BY <1>4, SetOutcomeTyped DEF ApproveWrite, Outcomes
  <2>3. human[h].at = "approve"  BY <1>4 DEF ApproveWrite, Goes
  <2> QED  BY <1>4, <1>t, <2>1, <2>2 DEF ApproveWrite, SetOutcome
<1>5. CASE RejectWrite(h)
  <2>1. AtWork  BY <1>5, GoesTyped DEF RejectWrite, Places
  <2>2. RowsOK  BY <1>5, SetOutcomeTyped DEF RejectWrite, Outcomes
  <2> QED  BY <1>5, <1>t, <2>1, <2>2 DEF RejectWrite, SetOutcome
<1>6. CASE MergeableCheck(h)
  <2>1. AtWork  BY <1>6, GoesTyped DEF MergeableCheck, Places
  <2> QED  BY <1>6, <1>t, <2>1 DEF MergeableCheck
<1>7. CASE Merge(h)
  <2>1. AtWork  BY <1>7, GoesTyped DEF Merge, Places
  <2>2. human[h].on \in Proposals
    BY <1>7, <1>t DEF Merge, FastForwardable
  <2>3. Change(human[h].on) \in Commits
    BY <2>2 DEF Change, Commits
  <2> QED  BY <1>7, <1>t, <2>1, <2>3 DEF Merge
<1>8. CASE MergeFails(h)
  <2>1. AtWork  BY <1>8, GoesTyped DEF MergeFails, Places
  <2> QED  BY <1>8, <1>t, <2>1 DEF MergeFails
<1>9. CASE RevParse(h)
  <2>1. Len(main) \in Nat
    BY <1>t
  <2>2. AtWork  BY <1>9, <1>t, <2>1 DEF RevParse, Places
  <2> QED  BY <1>9, <1>t, <2>2 DEF RevParse
<1>10. CASE ApplyWrite(h)
  <2>1. AtWork  BY <1>10, GoesTyped DEF ApplyWrite, Places
  <2>2. human[h].sha \in Nat  BY <1>t
  <2>3. RowsOK  BY <1>10, <2>2, SetOutcomeTyped DEF ApplyWrite, Outcomes
  <2> QED  BY <1>10, <1>t, <2>1, <2>3 DEF ApplyWrite, SetOutcome
<1>11. CASE Revert(h)
  <2>1. AtWork  BY <1>11, GoesTyped DEF Revert, Places
  <2>2. <<"revert", human[h].sha>> \in Commits
    BY <1>t DEF Commits
  <2>3. main' \in Seq(Commits)
    <3>1. main' = main \/ main' = Append(main, <<"revert", human[h].sha>>)
      BY <1>11 DEF Revert
    <3>2. \A c \in Commits : Append(main, c) \in Seq(Commits)
      BY <1>t
    <3> QED  BY <1>t, <2>2, <3>1, <3>2
  <2> QED  BY <1>11, <1>t, <2>1, <2>3 DEF Revert
<1>12. CASE LogRollback(h)
  <2>1. AtWork  BY <1>12, GoesTyped DEF LogRollback, Places
  <2>2. UndoneOK
    <3>1. \E s \in {"rolled_back", "failed"} : undone' = [undone EXCEPT ![human[h].on] = @ \cup {s}]
      BY <1>12 DEF LogRollback
    <3>2. PICK s \in {"rolled_back", "failed"} : undone' = [undone EXCEPT ![human[h].on] = @ \cup {s}]
      BY <3>1
    <3>3. undone \in [Proposals -> SUBSET {"rolled_back", "failed"}]
      BY <1>t
    <3> HIDE <1>t
    <3> QED  BY <3>2, <3>3
  <2> QED  BY <1>12, <1>t, <2>1, <2>2 DEF LogRollback
<1>13. CASE RollbackWrite(h)
  <2>1. AtWork  BY <1>13, GoesTyped DEF RollbackWrite, Places
  <2>2. RowsOK  BY <1>13, SetOutcomeTyped DEF RollbackWrite, Outcomes
  <2> QED  BY <1>13, <1>t, <2>1, <2>2 DEF RollbackWrite, SetOutcome
<1>14. CASE VerifyEnd(h)
  <2>1. AtWork  BY <1>14, GoesTyped DEF VerifyEnd, Places
  <2> QED  BY <1>14, <1>t, <2>1 DEF VerifyEnd, RemoveTree
<1>15. CASE HumanDies(h)
  BY <1>15, <1>t, ConstantsFit DEF HumanDies, ConstantsFit, Idle, Places
<1> QED  BY <1>2, <1>3, <1>4, <1>5, <1>6, <1>7, <1>8, <1>9, <1>10, <1>11, <1>12, <1>13, <1>14, <1>15
            DEF HumanStep

-----------------------------------------------------------------------------
(* What every step keeps.                                                  *)

\* main only grows, by one commit at a time.
LEMMA MainGrows ==
    ASSUME ConstantsFit, Typed, Next
    PROVE  /\ Len(main') \in Nat /\ Len(main) <= Len(main')
           /\ \A i \in DOMAIN main : i \in DOMAIN main' /\ main'[i] = main[i]
           /\ \A q : OnMain(q) => OnMain(q)'
           /\ Reverted => Reverted'
<1>1. main \in Seq(Commits) /\ \A h \in Humans : human[h].sha \in Nat /\ human[h].on \in Proposals \cup {NoProposal}
  BY DEF Typed, TypeOK
<1>2. main' = main \/ \E c \in Commits : main' = Append(main, c)
  <2>1. ASSUME NEW p \in Proposals, RunStep(p) PROVE main' = main
    BY <2>1, RunFrame
  <2>2. ASSUME NEW h \in Humans, Merge(h) PROVE main' = main \/ main' = Append(main, Change(human[h].on))
    BY <2>2 DEF Merge
  <2>3. ASSUME NEW h \in Humans, Merge(h) PROVE Change(human[h].on) \in Commits
    BY <2>3, <1>1 DEF Merge, FastForwardable, Typed, TypeOK, Change, Commits
  <2>4. ASSUME NEW h \in Humans, Revert(h) PROVE main' = main \/ main' = Append(main, <<"revert", human[h].sha>>)
    BY <2>4 DEF Revert
  <2>5. ASSUME NEW h \in Humans PROVE <<"revert", human[h].sha>> \in Commits
    BY <1>1 DEF Commits
  <2>6. DirectCommit => main' = Append(main, Direct) /\ Direct \in Commits
    BY DEF DirectCommit, Commits
  <2>7. ASSUME NEW h \in Humans, HumanStep(h), ~Merge(h), ~Revert(h) PROVE main' = main
    BY <2>7 DEF HumanStep, ApproveCheck, RejectCheck, ApplyCheck, RollbackCheck, Starts, VerifyStart,
                ApproveWrite, RejectWrite, SetOutcome, MergeableCheck, MergeFails, RevParse, ApplyWrite,
                LogRollback, RollbackWrite, VerifyEnd, RemoveTree, HumanDies, gitVars
  <2> QED  BY <2>1, <2>2, <2>3, <2>4, <2>5, <2>6, <2>7 DEF Next
<1>3. /\ Len(main') \in Nat /\ Len(main) <= Len(main')
      /\ \A i \in DOMAIN main : i \in DOMAIN main' /\ main'[i] = main[i]
  <2>1. CASE main' = main
    BY <2>1, <1>1
  <2>2. ASSUME NEW c \in Commits, main' = Append(main, c)
        PROVE  <1>3!:
    <3>1. Len(Append(main, c)) = Len(main) + 1 /\ Append(main, c) \in Seq(Commits)
      BY <1>1
    <3>2. \A i \in 1..Len(main) : Append(main, c)[i] = main[i]
      BY <1>1
    <3>3. DOMAIN main = 1..Len(main) /\ DOMAIN Append(main, c) = 1..(Len(main) + 1)
      BY <1>1, <3>1
    <3> QED  BY <1>1, <2>2, <3>1, <3>2, <3>3
  <2> QED  BY <1>2, <2>1, <2>2
<1>4. ASSUME NEW q, OnMain(q) PROVE OnMain(q)'
  BY <1>3, <1>4 DEF OnMain, Change
<1>5. Reverted => Reverted'
  BY <1>3 DEF Reverted
<1> QED  BY <1>3, <1>4, <1>5

\* Soundness is a matter of the results and the diff.
LEMMA SoundStays ==
    ASSUME NEW p \in Proposals, Sound(p),
           origin' = origin, guarded'[p] = guarded[p], results'[p] = results[p]
    PROVE  Sound(p)'
BY DEF Sound, Decision, RequiredGates

\* The four writes of set_outcome, each by a person who is at the place for it.
Wrote(h, q, place, outcome, by, sha) ==
    q = human[h].on /\ human[h].at = place /\ row'[q] = [outcome |-> outcome, by |-> by, sha |-> sha]

\* A row that a person's step changes was written by one of them.
LEMMA RowsOfHumans ==
    ASSUME ConstantsFit, Typed, NEW h \in Humans, HumanStep(h), NEW q \in Proposals
    PROVE  \/ row'[q] = row[q]
           \/ Wrote(h, q, "approve", "approved", h, row[q].sha) /\ q \in granted'
           \/ Wrote(h, q, "reject", "rejected", h, row[q].sha)
           \/ Wrote(h, q, "apply", "applied", h, IF human[h].sha = 0 THEN row[q].sha ELSE human[h].sha)
           \/ Wrote(h, q, "undo", "rolled_back", NoProposal, row[q].sha)
<1> USE DEF Wrote
<1>0. row \in [Proposals -> [outcome : Outcomes, by : Humans \cup {NoProposal}, sha : Nat]]
  BY DEF Typed, TypeOK
<1>1. ASSUME NEW outcome, NEW by, NEW sha, SetOutcome(h, outcome, by, sha)
      PROVE  row'[q] = row[q] \/ (q = human[h].on /\ row'[q] = [outcome |-> outcome, by |-> by,
                                       sha |-> IF sha = 0 THEN row[q].sha ELSE sha])
  BY <1>0, <1>1 DEF SetOutcome
<1>2. CASE ApproveWrite(h)
  BY <1>1, <1>2 DEF ApproveWrite, Goes
<1>3. CASE RejectWrite(h)
  BY <1>1, <1>3 DEF RejectWrite, Goes
<1>4. CASE ApplyWrite(h)
  BY <1>1, <1>4 DEF ApplyWrite, Goes
<1>5. CASE RollbackWrite(h)
  BY <1>1, <1>5 DEF RollbackWrite, Goes
<1>6. CASE ~ApproveWrite(h) /\ ~RejectWrite(h) /\ ~ApplyWrite(h) /\ ~RollbackWrite(h)
  BY <1>6 DEF HumanStep, ApproveCheck, RejectCheck, ApplyCheck, RollbackCheck, Starts, VerifyStart,
              Merge, Revert, MergeableCheck, MergeFails, RevParse, LogRollback, VerifyEnd, HumanDies
<1> QED  BY <1>2, <1>3, <1>4, <1>5, <1>6

\* What a proposal was accepted for lasts: no later run, review or clean-up takes it back.
LEMMA AcceptedStays ==
    ASSUME ConstantsFit, IInv, Next, NEW p \in Proposals, Accepted(p)
    PROVE  Accepted(p)'
<1>0. /\ Typed /\ AuthorInv(p) /\ BranchInv(p)
      /\ author[p] \notin Unrecorded /\ row[p].outcome # "none" /\ Sound(p) /\ p \in branches \cup raised
  BY DEF IInv, AuthorInv, Accepted
<1>1. ASSUME NEW q \in Proposals, q # p, RunStep(q) PROVE Accepted(p)'
  BY <1>0, <1>1, RunFrame, SoundStays DEF Accepted
<1>2. ASSUME RunStep(p) PROVE Accepted(p)'
  <2>1. RecordProposal(p) \/ Remember(p) \/ FinishRun(p) \/ RunRaises(p) \/ RunDies(p)
    BY <1>0, <1>2 DEF RunStep, DetectionRefuses, OpenTree, CommitChange, PatchFails, RecordRefusal, Vet,
                      AuthorTo, Unrecorded
  <2>2. UNCHANGED <<row, results, guarded, origin>>
    BY <1>0, <2>1 DEF RecordProposal, Remember, FinishRun, RunRaises, RunDies, AuthorTo, Unrecorded,
                      RemoveTree, gitVars
  <2>3. p \in branches' \cup raised'
    BY <1>0, <2>1 DEF RecordProposal, Remember, FinishRun, RunRaises, RunDies, AuthorTo, Unrecorded,
                      RemoveTree, gitVars, Sound
  <2> QED  BY <1>0, <2>2, <2>3, SoundStays DEF Accepted
<1>3. ASSUME NEW h \in Humans, HumanStep(h) PROVE Accepted(p)'
  <2>1. row'[p].outcome # "none"
    <3>1. \A place, outcome, by, sha :
            Wrote(h, p, place, outcome, by, sha) => row'[p].outcome = outcome
      BY DEF Wrote
    <3> QED  BY <1>0, <1>3, <3>1, RowsOfHumans
  <2>2. Sound(p)'
    BY <1>0, <1>3, HumanFrame, SoundStays
  <2>3. CASE VerifyEnd(h)
    <3>1. author[human[h].on] = "idle" /\ branches' = branches \ {human[h].on} /\ raised' = raised
      BY <2>3 DEF IInv, HumanInv, VerifyEnd, Goes, RemoveTree, pipelineVars
    <3> QED  BY <1>0, <2>1, <2>2, <3>1 DEF Accepted, Unrecorded
  <2>4. CASE ~VerifyEnd(h)
    <3>1. UNCHANGED branches
      BY <1>3, <2>4 DEF HumanStep, ApproveCheck, RejectCheck, ApplyCheck, RollbackCheck, Starts, VerifyStart,
                ApproveWrite, RejectWrite, SetOutcome, MergeableCheck, Merge, MergeFails, RevParse, ApplyWrite,
                Revert, LogRollback, RollbackWrite, HumanDies, gitVars
    <3>2. raised' = raised
      BY <1>0, <1>3, HumanFrame
    <3> QED  BY <1>0, <2>1, <2>2, <3>1, <3>2 DEF Accepted
  <2> QED  BY <2>3, <2>4
<1>4. ASSUME DirectCommit PROVE Accepted(p)'
  <2>1. UNCHANGED <<row, branches, origin, guarded, results, raised>>
    BY <1>4 DEF DirectCommit, pipelineVars
  <2> QED  BY <1>0, <2>1, SoundStays DEF Accepted
<1> QED  BY <1>1, <1>2, <1>3, <1>4 DEF Next

ProposalInv(p) == AuthorInv(p) /\ BranchInv(p) /\ LessonInv(p) /\ RowInv(p)

\* A pipeline's step keeps what holds of its own proposal.
LEMMA OwnRun ==
    ASSUME ConstantsFit, IInv, Next, NEW p \in Proposals, RunStep(p)
    PROVE  ProposalInv(p)'
<1>0. /\ Typed /\ Typed' /\ AuthorInv(p) /\ BranchInv(p) /\ LessonInv(p) /\ RowInv(p)
      /\ Accepted(p) => Accepted(p)'
      /\ OnMain(p)' = OnMain(p) /\ (Reverted)' = Reverted
      /\ UNCHANGED <<origin, main, undone, granted>>
  BY RunFrame, RunTyped, AcceptedStays DEF IInv, OnMain, Reverted
<1>t. /\ author \in [Proposals -> {"idle", "writing", "refused", "committed", "vetted",
                                   "recorded", "remembered", "done", "raised", "dead"}]
      /\ row \in [Proposals -> [outcome : Outcomes, by : Humans \cup {NoProposal}, sha : Nat]]
      /\ lesson \in [Proposals -> {"none", "bug_fix", "failed_experiment"}]
      /\ guarded \in [Proposals -> BOOLEAN] /\ origin \in [Proposals -> Origins]
      /\ results \in [Proposals -> Seq([gate : AllGates, status : Statuses])]
  BY <1>0 DEF Typed, TypeOK
<1> USE <1>0, <1>t DEF Unrecorded, Underway, gitVars, AuthorTo
<1>1. CASE DetectionRefuses(p)
  <2>1. /\ author[p] = "idle" /\ author'[p] = "done" /\ origin[p] = "dev_agent"
        /\ row'[p] = [row[p] EXCEPT !.outcome = "rejected"]
        /\ UNCHANGED <<branches, trees, guarded, results, lesson>>
    BY <1>1 DEF DetectionRefuses, RecordRow
  <2> QED  BY <2>1 DEF ProposalInv, AuthorInv, BranchInv, LessonInv, RowInv
<1>2. CASE OpenTree(p)
  <2>1. /\ author[p] = "idle" /\ author'[p] = (IF origin[p] = "human" THEN "committed" ELSE "writing")
        /\ p \in branches' /\ p \in trees'
        /\ UNCHANGED <<row, guarded, results, lesson>>
    BY <1>2 DEF OpenTree
  <2> QED  BY <2>1 DEF ProposalInv, AuthorInv, BranchInv, LessonInv, RowInv
<1>3. CASE CommitChange(p)
  <2>1. /\ author[p] = "writing" /\ author'[p] = "committed"
        /\ UNCHANGED <<branches, trees, row, results, lesson>>
    BY <1>3 DEF CommitChange
  <2> QED  BY <2>1 DEF ProposalInv, AuthorInv, BranchInv, LessonInv, RowInv
<1>4. CASE PatchFails(p)
  <2>1. /\ author[p] = "writing" /\ author'[p] = "refused"
        /\ p \notin branches' \cup trees'
        /\ UNCHANGED <<row, guarded, results, lesson>>
    BY <1>4 DEF PatchFails, RemoveTree
  <2> QED  BY <2>1 DEF ProposalInv, AuthorInv, BranchInv, LessonInv, RowInv
<1>5. CASE RecordRefusal(p)
  <2>1. /\ author[p] = "refused" /\ author'[p] = "done"
        /\ row'[p] = [row[p] EXCEPT !.outcome = "rejected"]
        /\ lesson'[p] \in {"none", "failed_experiment"}
        /\ UNCHANGED <<branches, trees, guarded, results>>
    BY <1>5 DEF RecordRefusal, RecordRow
  <2> QED  BY <2>1 DEF ProposalInv, AuthorInv, BranchInv, LessonInv, RowInv
<1>6. CASE Vet(p)
  <2>1. PICK report \in Reports : results' = [results EXCEPT ![p] = Judged(p, report)]
    BY <1>6 DEF Vet
  <2>2. /\ author[p] = "committed" /\ author'[p] = "vetted"
        /\ UNCHANGED <<branches, trees, row, guarded, lesson>>
    BY <1>6 DEF Vet
  <2>3. results'[p] = Judged(p, report)
    BY <2>1
  <2>4. RequiredGates(p)' = RequiredGates(p) /\ Decision(p)' = Decide(results'[p], guarded[p])
    BY <2>2 DEF RequiredGates, Decision
  <2>5. Decision(p)' = "REJECTED" \/ Sound(p)'
    <3>1. Decide(results'[p], guarded[p]) # "REJECTED" => ~guarded[p]
      BY DEF Decide
    <3> QED  BY <2>2, <2>3, <2>4, <3>1, JudgedIsSound DEF Sound
  <2> QED  BY <2>2, <2>5 DEF ProposalInv, AuthorInv, BranchInv, LessonInv, RowInv
<1>7. CASE RecordProposal(p)
  <2>1. /\ author[p] = "vetted" /\ author'[p] = "recorded"
        /\ row'[p] = [row[p] EXCEPT !.outcome = IF Decision(p) = "REJECTED" THEN "rejected" ELSE "pending_approval"]
        /\ UNCHANGED <<branches, trees, guarded, results, lesson, raised>>
    BY <1>7 DEF RecordProposal, RecordRow
  <2>2. Decision(p)' = Decision(p) /\ (Sound(p) => Sound(p)')
    BY <2>1, SoundStays DEF Decision
  <2>3. AuthorInv(p)' /\ BranchInv(p)' /\ LessonInv(p)'
    BY <2>1, <2>2 DEF AuthorInv, BranchInv, LessonInv
  <2>4. row'[p].outcome = "pending_approval" => Accepted(p)'
    BY <2>1, <2>2 DEF Accepted, AuthorInv, BranchInv
  <2>5. RowInv(p)'
    BY <2>1, <2>2, <2>4 DEF RowInv, AuthorInv
  <2> QED  BY <2>3, <2>5 DEF ProposalInv
<1>8. CASE Remember(p)
  <2>1. /\ author[p] = "recorded" /\ author'[p] = "remembered"
        /\ lesson'[p] = IF guarded[p] \/ origin[p] = "human" THEN lesson[p]
                        ELSE IF Decision(p) = "REJECTED" THEN "failed_experiment" ELSE "bug_fix"
        /\ UNCHANGED <<branches, trees, row, guarded, results>>
    BY <1>8 DEF Remember
  <2>2. Decision(p)' = Decision(p) /\ (Sound(p) => Sound(p)')
    BY <2>1, SoundStays DEF Decision
  <2> QED  BY <2>1, <2>2 DEF ProposalInv, AuthorInv, BranchInv, LessonInv, RowInv
<1>9. CASE FinishRun(p)
  <2>1. /\ author[p] = "remembered" /\ author'[p] = "done"
        /\ IF Decision(p) = "REJECTED" THEN p \notin branches' \cup trees' ELSE UNCHANGED <<branches, trees>>
        /\ UNCHANGED <<row, guarded, results, lesson>>
    BY <1>9 DEF FinishRun, RemoveTree
  <2>2. Decision(p)' = Decision(p)
    BY <2>1 DEF Decision
  <2> QED  BY <2>1, <2>2 DEF ProposalInv, AuthorInv, BranchInv, LessonInv, RowInv
<1>10. CASE RunRaises(p)
  <2>1. /\ author[p] \in {"writing", "committed", "vetted", "recorded", "remembered"}
        /\ author'[p] = "raised" /\ p \notin branches' \cup trees'
        /\ UNCHANGED <<row, guarded, results, lesson>>
    BY <1>10 DEF RunRaises, RemoveTree
  <2>2. Decision(p)' = Decision(p)
    BY <2>1 DEF Decision
  <2> QED  BY <2>1, <2>2 DEF ProposalInv, AuthorInv, BranchInv, LessonInv, RowInv
<1>11. CASE RunDies(p)
  <2>1. /\ author[p] \notin {"idle", "done", "raised", "dead"} /\ author'[p] = "dead"
        /\ UNCHANGED <<branches, trees, row, guarded, results, lesson>>
    BY <1>11 DEF RunDies
  <2>2. Decision(p)' = Decision(p)
    BY <2>1 DEF Decision
  <2> QED  BY <2>1, <2>2 DEF ProposalInv, AuthorInv, BranchInv, LessonInv, RowInv
<1> QED  BY <1>1, <1>2, <1>3, <1>4, <1>5, <1>6, <1>7, <1>8, <1>9, <1>10, <1>11 DEF RunStep

\* A proposal that a step does not touch stays as it is.
LEMMA OtherRun ==
    ASSUME ConstantsFit, IInv, Next, NEW q \in Proposals, RunStep(q), NEW p \in Proposals, p # q
    PROVE  ProposalInv(p)'
<1>0. /\ AuthorInv(p) /\ BranchInv(p) /\ LessonInv(p) /\ RowInv(p)
      /\ Accepted(p) => Accepted(p)'
      /\ OnMain(p)' = OnMain(p) /\ (Reverted)' = Reverted
      /\ UNCHANGED <<origin, main, undone, granted>>
      /\ guarded'[p] = guarded[p] /\ results'[p] = results[p]
      /\ author'[p] = author[p] /\ row'[p] = row[p] /\ lesson'[p] = lesson[p]
      /\ p \in branches' <=> p \in branches
      /\ p \in trees' <=> p \in trees
  BY RunFrame, AcceptedStays DEF IInv, OnMain, Reverted
<1>1. Decision(p)' = Decision(p) /\ (Sound(p) => Sound(p)')
  BY <1>0, SoundStays DEF Decision
<1> QED  BY <1>0, <1>1 DEF ProposalInv, AuthorInv, BranchInv, LessonInv, RowInv

\* What a person's step keeps of every proposal.
LEMMA ReviewStep ==
    ASSUME ConstantsFit, IInv, Next, NEW h \in Humans, HumanStep(h), NEW p \in Proposals
    PROVE  ProposalInv(p)'
<1>0. /\ Typed /\ AuthorInv(p) /\ BranchInv(p) /\ LessonInv(p) /\ RowInv(p) /\ HumanInv(h)
      /\ UNCHANGED <<origin, base, guarded, results, author, lesson, raised>>
      /\ branches' \subseteq branches /\ granted \subseteq granted' /\ undone[p] \subseteq undone'[p]
      /\ Accepted(p) => Accepted(p)'
  BY HumanFrame, AcceptedStays DEF IInv
<1>t. /\ row[p] \in [outcome : Outcomes, by : Humans \cup {NoProposal}, sha : Nat]
      /\ human[h] \in [at : Places, on : Proposals \cup {NoProposal}, sha : Nat]
      /\ author[p] \in {"idle", "writing", "refused", "committed", "vetted",
                        "recorded", "remembered", "done", "raised", "dead"}
      /\ h # NoProposal
  BY <1>0 DEF Typed, TypeOK, Places, ConstantsFit
<1>m. /\ Len(main) <= Len(main') /\ Len(main') \in Nat /\ Len(main) \in Nat
      /\ OnMain(p) => OnMain(p)'
      /\ Reverted => Reverted'
  <2>1. main \in Seq(Commits)
    BY <1>0 DEF Typed, TypeOK
  <2>2. Len(main) \in Nat
    BY <2>1
  <2> QED  BY <1>0, <2>2, MainGrows
<1>1. Decision(p)' = Decision(p) /\ (Sound(p) => Sound(p)')
  BY <1>0, SoundStays DEF Decision
<1>2. /\ row'[p].outcome = "none" <=> row[p].outcome = "none"
      /\ row'[p].outcome = "rejected" /\ row'[p].by = NoProposal =>
            row[p].outcome = "rejected" /\ row[p].by = NoProposal
      /\ row'[p].outcome \notin {"none", "rejected"} => Accepted(p)
      /\ row'[p].outcome \in {"approved", "applied", "rolled_back"} => p \in granted'
      /\ row'[p].outcome \in {"applied", "rolled_back"} => OnMain(p) /\ row'[p].sha # 0
      /\ row'[p].outcome = "rolled_back" => "rolled_back" \in undone[p] /\ Reverted
      /\ row'[p].sha <= Len(main)
  <2>1. CASE row'[p] = row[p]
    BY <1>0, <1>t, <2>1 DEF RowInv
  <2> USE <1>0, <1>t DEF Wrote, HumanInv, Deciding, AfterGrant, AfterMerge, RollingBack, Accepted, RowInv
  <2>2. CASE Wrote(h, p, "approve", "approved", h, row[p].sha) /\ p \in granted'
    BY <2>2
  <2>3. CASE Wrote(h, p, "reject", "rejected", h, row[p].sha)
    BY <2>3
  <2>4. CASE Wrote(h, p, "apply", "applied", h, IF human[h].sha = 0 THEN row[p].sha ELSE human[h].sha)
    BY <2>4
  <2>5. CASE Wrote(h, p, "undo", "rolled_back", NoProposal, row[p].sha)
    BY <2>5
  <2> QED  BY <2>1, <2>2, <2>3, <2>4, <2>5, RowsOfHumans
<1>3. AuthorInv(p)'
  BY <1>0, <1>1, <1>2 DEF AuthorInv
<1>4. BranchInv(p)'
  <2>1. CASE \E q \in Proposals : VerifyStart(h, q)
    <3>1. /\ UNCHANGED <<branches, row>>
          /\ p \in trees' => p \in trees \/ p \in branches \ trees
      BY <2>1 DEF VerifyStart
    <3>2. p \in trees' => p \in trees \/ (author[p] = "idle" /\ origin[p] = "human")
      <4>1. p \in branches \ trees => author[p] = "idle" /\ origin[p] = "human"
        BY <1>0 DEF BranchInv
      <4> QED  BY <3>1, <4>1
    <3>3. trees \subseteq trees'
      BY <2>1 DEF VerifyStart
    <3> QED  BY <1>0, <3>1, <3>2, <3>3 DEF BranchInv, Underway
  <2>2. CASE VerifyEnd(h)
    <3>1. /\ human[h].at = "verify" /\ branches' = branches \ {human[h].on} /\ trees' = trees \ {human[h].on}
          /\ UNCHANGED row
      BY <2>2 DEF VerifyEnd, Goes, RemoveTree
    <3> QED  BY <1>0, <3>1 DEF BranchInv, Underway, HumanInv
  <2>3. CASE ~(\E q \in Proposals : VerifyStart(h, q)) /\ ~VerifyEnd(h)
    <3>1. UNCHANGED <<branches, trees>>
      BY <2>3 DEF HumanStep, ApproveCheck, RejectCheck, ApplyCheck, RollbackCheck, Starts,
                ApproveWrite, RejectWrite, SetOutcome, MergeableCheck, Merge, MergeFails, RevParse, ApplyWrite,
                Revert, LogRollback, RollbackWrite, HumanDies, gitVars
    <3> QED  BY <1>0, <1>2, <3>1 DEF BranchInv
  <2> QED  BY <2>1, <2>2, <2>3
<1>5. LessonInv(p)'
  BY <1>0, <1>1, <1>2 DEF LessonInv
<1>6. RowInv(p)'
  <2>1. row'[p].sha \in Nat /\ row'[p].sha <= Len(main')
    <3>1. Typed'
      BY HumanTyped, <1>0
    <3>2. row'[p].sha \in Nat
      BY <3>1 DEF Typed, TypeOK
    <3> QED  BY <3>2, <1>m, <1>2
  <2>2. row'[p].outcome = "rejected" /\ row'[p].by = NoProposal /\ author'[p] \in {"recorded", "remembered"}
            => Decision(p)' = "REJECTED"
    BY <1>0, <1>1, <1>2 DEF RowInv
  <2> QED  BY <1>0, <1>m, <1>2, <2>1, <2>2 DEF RowInv
<1> QED  BY <1>3, <1>4, <1>5, <1>6 DEF ProposalInv

-----------------------------------------------------------------------------
(* People at work.                                                         *)

\* What a person knows stays true while others act.
LEMMA HumanWaits ==
    ASSUME ConstantsFit, IInv, Next, NEW k \in Humans, human'[k] = human[k],
           granted \subseteq granted', UNCHANGED origin,
           \A p \in Proposals : row[p].sha # 0 => row'[p].sha # 0,
           \A p \in Proposals : undone[p] \subseteq undone'[p],
           human[k].at = "verify" => /\ human[k].on \in trees'
                                     /\ author'[human[k].on] = author[human[k].on]
    PROVE  HumanInv(k)'
<1> DEFINE p == human[k].on
<1>0. HumanInv(k) /\ Typed
  BY DEF IInv
<1>1. main \in Seq(Commits) /\ human[k].sha \in Nat
  BY <1>0 DEF Typed, TypeOK
<1>2. Len(main) \in Nat
  BY <1>1
<1>3. human'[k].sha <= Len(main')
  BY <1>0, <1>1, <1>2, MainGrows DEF HumanInv
<1>4. human[k].at \in Deciding => p \in Proposals /\ Accepted(p)'
  BY <1>0, AcceptedStays DEF HumanInv
<1>5. human[k].at \in AfterMerge => OnMain(p)'
  BY <1>0, MainGrows DEF HumanInv
<1>6. human[k].at \in {"log", "undo"} => (Reverted)'
  BY <1>0, MainGrows DEF HumanInv
<1> QED  BY <1>0, <1>3, <1>4, <1>5, <1>6 DEF HumanInv, Deciding, AfterGrant, AfterMerge, RollingBack

\* No pipeline takes a branch that a person has checked out.
LEMMA RunKeepsHumans ==
    ASSUME ConstantsFit, IInv, Next, NEW q \in Proposals, RunStep(q)
    PROVE  ApartInv' /\ \A k \in Humans : HumanInv(k)'
<1>0. Typed /\ UNCHANGED <<origin, main, human, undone, granted>>
  BY RunFrame DEF IInv
<1>1. \A p \in Proposals : row[p].sha # 0 => row'[p].sha # 0
  <2>1. \A p \in Proposals : row'[p].sha = row[p].sha
    <3>1. row' = row \/ \E outcome : RecordRow(q, outcome)
      BY DEF RunStep, DetectionRefuses, OpenTree, CommitChange, PatchFails, RecordRefusal, Vet, RecordProposal,
             Remember, FinishRun, RunRaises, RunDies
    <3>2. row \in [Proposals -> [outcome : Outcomes, by : Humans \cup {NoProposal}, sha : Nat]]
      BY <1>0 DEF Typed, TypeOK
    <3>3. ASSUME NEW outcome, RecordRow(q, outcome) PROVE \A p \in Proposals : row'[p].sha = row[p].sha
      BY <3>2, <3>3 DEF RecordRow
    <3> QED  BY <3>1, <3>3
  <2> QED  BY <2>1
<1>2. ASSUME NEW k \in Humans, human[k].at = "verify"
      PROVE  human[k].on \in trees' /\ author'[human[k].on] = author[human[k].on]
  <2>1. human[k].on \in Proposals \cap trees /\ author[human[k].on] = "idle" /\ origin[human[k].on] = "human"
    BY <1>2 DEF IInv, HumanInv
  <2>2. q # human[k].on
    BY <2>1 DEF RunStep, DetectionRefuses, OpenTree, CommitChange, PatchFails, RecordRefusal, Vet,
                RecordProposal, Remember, FinishRun, RunRaises, RunDies, AuthorTo
  <2> QED  BY <1>0, <2>1, <2>2, RunFrame
<1>3. \A k \in Humans : HumanInv(k)'
  BY <1>0, <1>1, <1>2, HumanWaits
<1>4. ApartInv'
  BY <1>0 DEF IInv, ApartInv
<1> QED  BY <1>3, <1>4

\* Nor does another person.
LEMMA ReviewKeepsOthers ==
    ASSUME ConstantsFit, IInv, Next, NEW h \in Humans, HumanStep(h), NEW k \in Humans, k # h
    PROVE  HumanInv(k)'
<1>0. /\ Typed /\ UNCHANGED <<origin, author>> /\ granted \subseteq granted'
      /\ human'[k] = human[k]
      /\ \A q \in Proposals : undone[q] \subseteq undone'[q]
      /\ \A q \in Proposals : row[q].sha # 0 => row'[q].sha # 0
  BY HumanFrame DEF IInv
<1>1. ASSUME human[k].at = "verify" PROVE human[k].on \in trees'
  <2>1. human[k].on \in trees
    BY <1>1 DEF IInv, HumanInv
  <2>2. CASE VerifyEnd(h)
    <3>1. human[h].at = "verify" /\ trees' = trees \ {human[h].on}
      BY <2>2 DEF VerifyEnd, Goes, RemoveTree
    <3>2. human[h].on # human[k].on
      BY <1>1, <3>1 DEF IInv, ApartInv
    <3> QED  BY <2>1, <3>1, <3>2
  <2>3. CASE ~VerifyEnd(h)
    BY <2>1, <2>3 DEF HumanStep, ApproveCheck, RejectCheck, ApplyCheck, RollbackCheck, Starts, VerifyStart,
                ApproveWrite, RejectWrite, SetOutcome, MergeableCheck, Merge, MergeFails, RevParse, ApplyWrite,
                Revert, LogRollback, RollbackWrite, HumanDies, gitVars
  <2> QED  BY <2>2, <2>3
<1> QED  BY <1>0, <1>1, HumanWaits

\* A person who is idle claims nothing.
LEMMA IdleKnowsNothing ==
    ASSUME ConstantsFit, Typed', NEW h \in Humans, human'[h] = Idle
    PROVE  HumanInv(h)'
<1>1. Len(main') \in Nat
  BY DEF Typed, TypeOK
<1> QED  BY <1>1 DEF HumanInv, Idle, Deciding, AfterGrant, AfterMerge, RollingBack

\* The commit that a merge puts on main, and the tip it leaves.
LEMMA MergePutsOnMain ==
    ASSUME Typed, NEW h \in Humans, Merge(h), NEW p, p = human[h].on
    PROVE  OnMain(p)'
<1>1. main \in Seq(Commits) /\ p \in Proposals
  BY DEF Merge, FastForwardable, Typed, TypeOK
<1>2. CASE AlreadyMerged(p)
  <2>1. main' = main /\ main[Len(main)] = Change(p) /\ Len(main) = base[p] + 1 /\ base[p] \in Nat
    BY <1>1, <1>2 DEF Merge, AlreadyMerged, Typed, TypeOK
  <2>2. Len(main) \in DOMAIN main
    BY <1>1, <2>1
  <2> QED  BY <2>1, <2>2 DEF OnMain, Change
<1>3. CASE ~AlreadyMerged(p)
  <2>1. main' = Append(main, Change(p)) /\ Change(p) \in Commits
    BY <1>1, <1>3 DEF Merge, Change, Commits
  <2>2. Len(main) + 1 \in DOMAIN Append(main, Change(p)) /\ Append(main, Change(p))[Len(main) + 1] = Change(p)
    BY <1>1, <2>1
  <2> QED  BY <2>1, <2>2 DEF OnMain, Change
<1> QED  BY <1>2, <1>3

\* A revert names a commit that main had before it.
LEMMA RevertIsOfMain ==
    ASSUME Typed, NEW h \in Humans, main' = Append(main, <<"revert", human[h].sha>>),
           human[h].sha # 0, human[h].sha <= Len(main)
    PROVE  (Reverted)'
<1> DEFINE c == <<"revert", human[h].sha>>
<1>1. main \in Seq(Commits) /\ human[h].sha \in Nat
  BY DEF Typed, TypeOK
<1>2. c \in Commits /\ c[1] = "revert" /\ c[2] = human[h].sha
  BY <1>1 DEF Commits
<1> HIDE DEF c
<1>3. Len(main) + 1 \in DOMAIN Append(main, c) /\ Append(main, c)[Len(main) + 1] = c /\ Len(main) \in Nat
  BY <1>1, <1>2
<1>4. main' = Append(main, c) /\ human[h].sha \in 1..((Len(main) + 1) - 1)
  BY <1>1, <1>3 DEF c
<1> QED  BY <1>2, <1>3, <1>4 DEF Reverted

\* A person's own step: what is known at the next place.
LEMMA OwnReview ==
    ASSUME ConstantsFit, IInv, Next, NEW h \in Humans, HumanStep(h)
    PROVE  HumanInv(h)'
<1>0. /\ Typed /\ Typed' /\ HumanInv(h) /\ UNCHANGED <<origin, author>>
      /\ granted \subseteq granted'
      /\ \A q \in Proposals : undone[q] \subseteq undone'[q]
      /\ \A q \in Proposals : row[q].sha # 0 => row'[q].sha # 0
      /\ \A q \in Proposals : Accepted(q) => Accepted(q)'
      /\ \A q : OnMain(q) => OnMain(q)'
      /\ Reverted => Reverted'
  BY HumanFrame, HumanTyped, AcceptedStays, MainGrows DEF IInv
<1>t. /\ human \in [Humans -> [at : Places, on : Proposals \cup {NoProposal}, sha : Nat]]
      /\ human[h].sha \in Nat
      /\ Len(main) \in Nat /\ Len(main) <= Len(main') /\ Len(main') \in Nat /\ Len(main) >= 1
  <2>1. main \in Seq(Commits)
    BY <1>0 DEF Typed, TypeOK
  <2>2. Len(main) \in Nat
    BY <2>1
  <2> QED  BY <1>0, <2>2, MainGrows DEF Typed, TypeOK, Places, IInv, MainInv
<1>r. \A q \in Proposals : RowInv(q)
  BY DEF IInv
<1> DEFINE Sets == /\ Deciding = {"approve", "reject", "mergeable", "merge", "revparse", "apply",
                                  "revert", "log", "log_failed", "undo"}
                   /\ AfterGrant = {"mergeable", "merge", "revparse", "apply",
                                    "revert", "log", "log_failed", "undo"}
                   /\ AfterMerge = {"revparse", "apply", "revert", "log", "log_failed", "undo"}
                   /\ RollingBack = {"revert", "log", "log_failed", "undo"}
<1>n. Sets
  BY DEF Deciding, AfterGrant, AfterMerge, RollingBack
<1> USE <1>0, <1>t, <1>n
<1>1. ASSUME NEW p \in Proposals, NEW outcome, NEW place, Starts(h, p, outcome, place),
             \/ outcome = "pending_approval" /\ place \in {"approve", "reject"}
             \/ outcome = "approved" /\ place = "mergeable"
             \/ outcome = "applied" /\ place = "revert" /\ row[p].sha # 0
      PROVE  HumanInv(h)'
  <2>1. /\ row[p].outcome = outcome
        /\ human'[h] = [at |-> place, on |-> p, sha |-> row[p].sha]
        /\ UNCHANGED <<row, granted, main>>
    BY <1>1 DEF Starts, gitVars
  <2>2. /\ Accepted(p) /\ row[p].sha <= Len(main)
        /\ place \in AfterGrant => p \in granted
        /\ place = "revert" => OnMain(p)
    BY <1>1, <1>r, <2>1 DEF RowInv
  <2> QED  BY <1>1, <2>1, <2>2 DEF HumanInv
<1>2. ASSUME NEW p \in Proposals,
             ApproveCheck(h, p) \/ RejectCheck(h, p) \/ ApplyCheck(h, p) \/ RollbackCheck(h, p)
      PROVE  HumanInv(h)'
  BY <1>1, <1>2 DEF ApproveCheck, RejectCheck, ApplyCheck, RollbackCheck
<1>3. ASSUME NEW p \in Proposals, VerifyStart(h, p)
      PROVE  HumanInv(h)'
  <2>1. /\ p \in branches \ trees /\ p \in trees'
        /\ human'[h] = [at |-> "verify", on |-> p, sha |-> 0]
    BY <1>3 DEF VerifyStart
  <2>2. author[p] = "idle" /\ origin[p] = "human"
    BY <2>1 DEF IInv, BranchInv
  <2> QED  BY <2>1, <2>2 DEF HumanInv
<1>4. CASE ApproveWrite(h) \/ RejectWrite(h) \/ MergeFails(h) \/ ApplyWrite(h) \/ RollbackWrite(h)
           \/ VerifyEnd(h) \/ HumanDies(h)
  <2>1. human'[h] = Idle
    BY <1>4 DEF ApproveWrite, RejectWrite, MergeFails, ApplyWrite, RollbackWrite, VerifyEnd, HumanDies, Goes
  <2> QED  BY <2>1, IdleKnowsNothing
<1>5. CASE MergeableCheck(h)
  <2>1. /\ human[h].at = "mergeable"
        /\ human'[h] = Idle \/ human'[h] = [human[h] EXCEPT !.at = "merge"]
    BY <1>5 DEF MergeableCheck, Goes
  <2>2. CASE human'[h] = [human[h] EXCEPT !.at = "merge"]
    BY <2>1, <2>2 DEF HumanInv
  <2> QED  BY <2>1, <2>2, IdleKnowsNothing
<1>6. CASE Merge(h)
  <2>1. /\ human[h].at = "merge"
        /\ human'[h] = [human[h] EXCEPT !.at = "revparse"]
    BY <1>6 DEF Merge, Goes
  <2>2. ASSUME NEW p, p = human[h].on PROVE OnMain(p)'
    BY <1>6, <2>2, MergePutsOnMain
  <2> QED  BY <2>1, <2>2 DEF HumanInv
<1>7. CASE RevParse(h)
  <2>1. /\ human[h].at = "revparse"
        /\ human'[h] = [human[h] EXCEPT !.at = "apply", !.sha = Len(main)]
        /\ main' = main
    BY <1>7 DEF RevParse, gitVars
  <2> QED  BY <2>1 DEF HumanInv
<1>8. CASE Revert(h)
  <2>1. human[h].at = "revert"
    BY <1>8 DEF Revert, Goes
  <2>2. CASE human'[h] = [human[h] EXCEPT !.at = "log_failed"]
    BY <2>1, <2>2 DEF HumanInv
  <2>3. CASE human'[h] = [human[h] EXCEPT !.at = "log"] /\ main' = Append(main, <<"revert", human[h].sha>>)
    <3>1. (Reverted)'
      BY <2>1, <2>3, RevertIsOfMain DEF HumanInv
    <3> QED  BY <2>1, <2>3, <3>1 DEF HumanInv
  <2> QED  BY <1>8, <2>2, <2>3 DEF Revert, Goes
<1>9. CASE LogRollback(h)
  <2>1. CASE human[h].at = "log" /\ human'[h] = [human[h] EXCEPT !.at = "undo"]
                /\ undone' = [undone EXCEPT ![human[h].on] = @ \cup {"rolled_back"}]
    <3>1. human[h].on \in Proposals
      BY <2>1 DEF HumanInv
    <3>2. "rolled_back" \in undone'[human[h].on]
      BY <2>1, <3>1 DEF Typed, TypeOK
    <3> QED  BY <2>1, <3>2 DEF HumanInv
  <2>2. CASE human'[h] = Idle
    BY <2>2, IdleKnowsNothing
  <2> QED  BY <1>9, <2>1, <2>2 DEF LogRollback, Goes
<1> QED  BY <1>2, <1>3, <1>4, <1>5, <1>6, <1>7, <1>8, <1>9 DEF HumanStep

\* Two people never have the same branch checked out.
LEMMA ApartStep ==
    ASSUME ConstantsFit, IInv, Next, NEW h \in Humans, HumanStep(h)
    PROVE  ApartInv'
<1>0. Typed /\ ApartInv /\ \A k \in Humans \ {h} : human'[k] = human[k]
  BY HumanFrame DEF IInv
<1>t. human \in [Humans -> [at : Places, on : Proposals \cup {NoProposal}, sha : Nat]]
  BY <1>0 DEF Typed, TypeOK, Places
<1>1. ASSUME NEW p \in Proposals, VerifyStart(h, p)
      PROVE  ApartInv'
  <2>1. p \notin trees /\ human'[h].on = p
    BY <1>1, <1>t DEF VerifyStart
  <2>2. \A k \in Humans \ {h} : human[k].at = "verify" => human[k].on # p
    BY <2>1 DEF IInv, HumanInv
  <2> QED  BY <1>0, <2>1, <2>2 DEF ApartInv
<1>2. ASSUME \A p \in Proposals : ~VerifyStart(h, p)
      PROVE  ApartInv'
  <2>1. human'[h].at # "verify"
    BY <1>t, <1>2 DEF HumanStep, ApproveCheck, RejectCheck, ApplyCheck, RollbackCheck, Starts,
                ApproveWrite, RejectWrite, MergeableCheck, Merge, MergeFails, RevParse, ApplyWrite,
                Revert, LogRollback, RollbackWrite, VerifyEnd, HumanDies, Goes, Idle
  <2> QED  BY <1>0, <2>1 DEF ApartInv
<1> QED  BY <1>1, <1>2

-----------------------------------------------------------------------------
(* The main branch.                                                        *)

\* A commit that is new on main is an accepted and granted change, on the tree it was tested on,
\* or no change at all.
LEMMA NewCommit ==
    ASSUME ConstantsFit, IInv, Next, NEW p \in Proposals, NEW i \in DOMAIN main',
           main'[i] = Change(p), i \notin DOMAIN main
    PROVE  /\ Accepted(p) /\ p \in granted
           /\ i = base[p] + 1 /\ base' = base
<1>0. /\ Typed /\ main \in Seq(Commits)
      /\ \A h \in Humans : human[h].on \in Proposals \cup {NoProposal}
      /\ \A h \in Humans : HumanInv(h)
  BY DEF IInv, Typed, TypeOK
<1>1. main' # main
  OBVIOUS
<1>2. ASSUME NEW c, main' = Append(main, c) PROVE i = Len(main) + 1 /\ c = Change(p)
  BY <1>0, <1>2
<1>3. ~DirectCommit
  <2>1. Direct # Change(p)
    BY DEF Direct, Change
  <2> QED  BY <1>2, <2>1 DEF DirectCommit
<1>4. PICK h \in Humans : HumanStep(h)
  BY <1>1, <1>3, <1>0, RunFrame DEF Next
<1>5. ~Revert(h)
  <2>1. <<"revert", human[h].sha>> # Change(p)
    BY DEF Change
  <2> QED  BY <1>1, <1>2, <2>1 DEF Revert
<1>6. Merge(h)
  BY <1>1, <1>4, <1>5 DEF HumanStep, ApproveCheck, RejectCheck, ApplyCheck, RollbackCheck, Starts, VerifyStart,
                ApproveWrite, RejectWrite, SetOutcome, MergeableCheck, MergeFails, RevParse, ApplyWrite,
                LogRollback, RollbackWrite, VerifyEnd, RemoveTree, HumanDies, gitVars
<1>7. main' = Append(main, Change(human[h].on)) /\ Len(main) = base[human[h].on]
      /\ human[h].at = "merge" /\ base' = base
  BY <1>1, <1>6 DEF Merge, FastForwardable, Goes
<1>8. human[h].on = p
  BY <1>2, <1>7 DEF Change
<1> QED  BY <1>0, <1>2, <1>7, <1>8 DEF HumanInv, Deciding, AfterGrant

\* The base of a change that was accepted is settled.
LEMMA BaseStays ==
    ASSUME ConstantsFit, IInv, Next, NEW p \in Proposals, Accepted(p)
    PROVE  base'[p] = base[p]
<1>0. Typed /\ author[p] # "idle"
  BY DEF IInv, AuthorInv, Accepted, Unrecorded
<1>1. ASSUME NEW q \in Proposals, RunStep(q), q # p PROVE base'[p] = base[p]
  BY <1>0, <1>1, RunFrame
<1>2. ASSUME RunStep(p) PROVE base'[p] = base[p]
  BY <1>0, <1>2 DEF RunStep, DetectionRefuses, OpenTree, CommitChange, PatchFails, RecordRefusal, Vet,
                RecordProposal, Remember, FinishRun, RunRaises, RunDies, AuthorTo, RemoveTree, gitVars
<1>3. ASSUME NEW h \in Humans, HumanStep(h) PROVE base' = base
  BY <1>0, <1>3, HumanFrame
<1>4. DirectCommit => base' = base
  BY DEF DirectCommit
<1> QED  BY <1>1, <1>2, <1>3, <1>4 DEF Next

\* granted only grows.
LEMMA GrantedGrows ==
    ASSUME Typed, Next
    PROVE  granted \subseteq granted'
BY RunFrame, HumanFrame DEF Next, DirectCommit

LEMMA MainStep ==
    ASSUME ConstantsFit, IInv, Next
    PROVE  MainInv'
<1>0. Typed /\ MainInv /\ main \in Seq(Commits) /\ granted \subseteq granted'
  BY GrantedGrows DEF IInv, Typed, TypeOK
<1>1. Len(main') >= 1
  <2>1. Len(main) \in Nat
    BY <1>0
  <2> QED  BY <1>0, <2>1, MainGrows DEF MainInv
<1>2. ASSUME NEW p \in Proposals, NEW i \in DOMAIN main', main'[i] = Change(p)
      PROVE  Accepted(p)' /\ p \in granted' /\ i = base'[p] + 1
  <2>1. CASE i \notin DOMAIN main
    BY <1>0, <1>2, <2>1, NewCommit, AcceptedStays
  <2>2. CASE i \in DOMAIN main
    <3>1. main[i] = Change(p)
      BY <1>0, <1>2, <2>2, MainGrows
    <3>2. Accepted(p) /\ p \in granted /\ i = base[p] + 1
      BY <1>0, <2>2, <3>1 DEF MainInv, OnMain, MergedAsTested
    <3> QED  BY <1>0, <3>2, AcceptedStays, BaseStays
  <2> QED  BY <2>1, <2>2
<1>3. ASSUME NEW p \in Proposals, OnMain(p)'
      PROVE  Accepted(p)' /\ p \in granted'
  <2>1. PICK i \in DOMAIN main' : main'[i] = Change(p)
    BY <1>3 DEF OnMain, Change
  <2> QED  BY <1>2, <2>1
<1>4. MergedAsTested'
  BY <1>2 DEF MergedAsTested, Change
<1> QED  BY <1>1, <1>3, <1>4 DEF MainInv

-----------------------------------------------------------------------------
(* The theorem.                                                            *)

\* A commit that nobody proposed touches no proposal.
LEMMA DirectStep ==
    ASSUME ConstantsFit, IInv, DirectCommit
    PROVE  IInv'
<1>0. /\ Typed /\ Next /\ main \in Seq(Commits)
      /\ UNCHANGED <<origin, branches, trees, base, guarded, results, author, lesson, raised, row, human, undone,
                     granted, crashes>>
  BY DEF IInv, Typed, TypeOK, DirectCommit, pipelineVars, Next
<1>1. Typed'
  <2>1. main' \in Seq(Commits)
    BY <1>0 DEF DirectCommit, Commits
  <2> QED  BY <1>0, <2>1 DEF Typed, TypeOK
<1>2. \A k \in Humans : HumanInv(k)'
  <2>1. ASSUME NEW k \in Humans, human[k].at = "verify" PROVE human[k].on \in trees'
    BY <1>0, <2>1 DEF IInv, HumanInv
  <2> QED  BY <1>0, <2>1, HumanWaits
<1>3. ASSUME NEW p \in Proposals PROVE ProposalInv(p)'
  <2>1. Decision(p)' = Decision(p) /\ (Sound(p) => Sound(p)')
    BY <1>0, SoundStays DEF Decision
  <2>2. /\ OnMain(p) => OnMain(p)'
        /\ Reverted => Reverted'
        /\ row[p].sha <= Len(main')
    <3>1. Len(main) \in Nat /\ row[p].sha \in Nat /\ row[p].sha <= Len(main)
      BY <1>0 DEF Typed, TypeOK, IInv, RowInv
    <3> QED  BY <1>0, <3>1, MainGrows
  <2>3. Accepted(p) => Accepted(p)'
    BY <1>0, AcceptedStays
  <2>4. AuthorInv(p) /\ BranchInv(p) /\ LessonInv(p) /\ RowInv(p)
    BY DEF IInv
  <2> QED  BY <1>0, <2>1, <2>2, <2>3, <2>4 DEF ProposalInv, AuthorInv, BranchInv, LessonInv, RowInv
<1>4. ApartInv'
  BY <1>0 DEF IInv, ApartInv
<1> QED  BY <1>0, <1>1, <1>2, <1>3, <1>4, MainStep DEF IInv, ProposalInv

LEMMA NextKeepsIInv ==
    ASSUME ConstantsFit, IInv, Next
    PROVE  IInv'
<1>0. Typed /\ MainInv'
  BY MainStep DEF IInv
<1>1. ASSUME NEW p \in Proposals, RunStep(p) PROVE IInv'
  <2>1. Typed'
    BY <1>0, <1>1, RunTyped
  <2>2. \A q \in Proposals : ProposalInv(q)'
    BY <1>1, OwnRun, OtherRun
  <2>3. ApartInv' /\ \A k \in Humans : HumanInv(k)'
    BY <1>1, RunKeepsHumans
  <2> QED  BY <1>0, <2>1, <2>2, <2>3 DEF IInv, ProposalInv
<1>2. ASSUME NEW h \in Humans, HumanStep(h) PROVE IInv'
  <2>1. Typed'
    BY <1>0, <1>2, HumanTyped
  <2>2. \A q \in Proposals : ProposalInv(q)'
    BY <1>2, ReviewStep
  <2>3. \A k \in Humans : HumanInv(k)'
    BY <1>2, OwnReview, ReviewKeepsOthers
  <2>4. ApartInv'
    BY <1>2, ApartStep
  <2> QED  BY <1>0, <2>1, <2>2, <2>3, <2>4 DEF IInv, ProposalInv
<1> QED  BY <1>1, <1>2, DirectStep DEF Next

LEMMA StutterKeepsIInv ==
    ASSUME IInv, UNCHANGED vars
    PROVE  IInv'
<1>0. UNCHANGED <<origin, main, branches, trees, base, guarded, results, author, row, lesson, human,
                  undone, granted, raised, crashes>>
  BY DEF vars
<1>1. Typed' = Typed
  BY <1>0 DEF Typed, TypeOK
<1>2. \A p : Accepted(p)' = Accepted(p) /\ OnMain(p)' = OnMain(p)
  BY <1>0 DEF Accepted, Sound, Decision, RequiredGates, OnMain
<1>3. (Reverted)' = Reverted
  BY <1>0 DEF Reverted
<1>4. MainInv' = MainInv
  BY <1>0, <1>2 DEF MainInv, MergedAsTested
<1>5. \A p : AuthorInv(p)' = AuthorInv(p) /\ BranchInv(p)' = BranchInv(p) /\ LessonInv(p)' = LessonInv(p)
  BY <1>0 DEF AuthorInv, BranchInv, LessonInv, Decision, Sound, RequiredGates
<1>6. \A p : RowInv(p)' = RowInv(p)
  BY <1>0, <1>2, <1>3 DEF RowInv, Decision
<1>7. \A h \in Humans : HumanInv(h)' = HumanInv(h)
  <2> SUFFICES ASSUME NEW h \in Humans PROVE HumanInv(h)' = HumanInv(h)
    OBVIOUS
  <2>1. Accepted(human[h].on)' = Accepted(human[h].on) /\ OnMain(human[h].on)' = OnMain(human[h].on)
    BY <1>0 DEF Accepted, Sound, Decision, RequiredGates, OnMain
  <2> QED  BY <1>0, <1>3, <2>1 DEF HumanInv
<1>8. ApartInv' = ApartInv
  BY <1>0 DEF ApartInv
<1> QED  BY <1>1, <1>4, <1>5, <1>6, <1>7, <1>8 DEF IInv

\* What the invariant says of a proposal a reader cares for.
LEMMA InvariantGivesProperties ==
    ASSUME IInv
    PROVE  ChangesAreVetted
<1>1. TypeOK /\ MergedAsTested
  BY DEF IInv, Typed, MainInv
<1>2. OnlyVettedIsMerged
  BY DEF IInv, MainInv, OnlyVettedIsMerged, Accepted, Sound
<1>3. AppliedIsMerged
  BY DEF IInv, RowInv, AppliedIsMerged, Reverted
<1>4. LostBranchExplained
  BY DEF IInv, RowInv, Accepted, LostBranchExplained
<1>5. NoLitter
  BY DEF IInv, BranchInv, NoLitter
<1>6. LessonsMatchVerdict
  BY DEF IInv, LessonInv, LessonsMatchVerdict
<1> QED  BY <1>1, <1>2, <1>3, <1>4, <1>5, <1>6 DEF ChangesAreVetted

\* For any number of proposals, people, direct commits and deaths of processes: a change on main
\* was approved, stays out of agents/, passed every gate of its pipeline and sits on the very
\* commit it was tested on; rows, branches, rollbacks and lessons tell what happened to it.
THEOREM OnlyVettedChangesLand == Spec => []ChangesAreVetted
<1>1. Init => IInv
  BY ProposalAssumption, InitHolds
<1>2. IInv /\ [Next]_vars => IInv'
  BY ProposalAssumption, NextKeepsIInv, StutterKeepsIInv
<1>3. IInv => ChangesAreVetted
  BY InvariantGivesProperties
<1> QED  BY <1>1, <1>2, <1>3, PTL DEF Spec

-----------------------------------------------------------------------------
(* The other way a tuned parameter goes live: the profiles of the S/R engine *)
(* (LiveProfiles).                                                           *)
CONSTANTS ProfileIds, Params, Defaults, Requests
VARIABLES profiles_row, cache, reading, request, excused

Profiles == INSTANCE LiveProfiles WITH row <- profiles_row, Profiles <- ProfileIds

\* What a row of the table and a request may be.
ProfileRow == [params : Params, live : BOOLEAN] \cup {Profiles!NoRow}
Committed  == [does |-> "nothing", at |-> "committed"]
Found      == [does : Profiles!Routes, at : {"found"}, profile : ProfileIds, live : BOOLEAN]

\* But for what excuses it, a reading in flight is what the table says now, and so is the cache
\* unless a request that has committed is about to empty it.
ReadingFollows == ~excused /\ reading # Profiles!Held(Profiles!Empty) => reading = Profiles!Held(Profiles!ParamsOf(profiles_row))

ProfilesInv ==
    /\ profiles_row \in [ProfileIds -> ProfileRow]
    /\ request \in [Requests -> {Profiles!Ready, Committed} \cup Found]
    /\ \A p, q \in ProfileIds : profiles_row[p].live /\ profiles_row[q].live => p = q
    /\ ReadingFollows
    /\ Profiles!NextCycleFollows

LEMMA RowFacts ==
    ASSUME NEW r \in ProfileRow
    PROVE  r.live \in BOOLEAN /\ [r EXCEPT !.live = FALSE] \in ProfileRow /\ [r EXCEPT !.live = FALSE].live = FALSE
           /\ (r # Profiles!NoRow => [r EXCEPT !.live = TRUE] \in ProfileRow)
           /\ \A v \in Params : [r EXCEPT !.params = v] \in ProfileRow /\ [r EXCEPT !.params = v].live = r.live
<1>1. CASE r \in [params : Params, live : BOOLEAN]
  <2>1. /\ r.live \in BOOLEAN /\ [r EXCEPT !.live = FALSE] \in [params : Params, live : BOOLEAN]
        /\ [r EXCEPT !.live = TRUE] \in [params : Params, live : BOOLEAN]
        /\ [r EXCEPT !.live = FALSE].live = FALSE
    BY <1>1
  <2>2. \A v \in Params : /\ [r EXCEPT !.params = v] \in [params : Params, live : BOOLEAN]
                          /\ [r EXCEPT !.params = v].live = r.live
    BY <1>1
  <2> QED BY <2>1, <2>2 DEF ProfileRow
<1>2. CASE r = Profiles!NoRow
  <2>0. r = [params |-> Defaults, live |-> FALSE]
    BY <1>2 DEF Profiles!NoRow
  <2>1. r.live = FALSE /\ [r EXCEPT !.live = FALSE] = r
    <3>1. r.live = FALSE
      BY <2>0
    <3>2. r \in [params : {Defaults}, live : {FALSE}]
      BY <2>0
    <3>3. [r EXCEPT !.live = FALSE] = [f \in DOMAIN r |-> r[f]]
      BY <3>1, <3>2
    <3> QED BY <3>1, <3>2, <3>3
  <2>2. r \in [params : {Defaults}, live : {FALSE}]
    BY <2>0
  <2>3. \A v \in Params : [r EXCEPT !.params = v] \in [params : Params, live : BOOLEAN] /\ [r EXCEPT !.params = v].live = r.live
    BY <2>1, <2>2
  <2> QED BY <1>2, <2>1, <2>2, <2>3 DEF ProfileRow
<1> QED BY <1>1, <1>2 DEF ProfileRow

\* What the engine is to use depends on the live rows only.
LEMMA ParamsStay ==
    ASSUME NEW rows, NEW others,
           \A p \in ProfileIds : /\ rows[p].live \in BOOLEAN /\ others[p].live = rows[p].live
                                 /\ rows[p].live => others[p].params = rows[p].params
    PROVE  Profiles!ParamsOf(others) = Profiles!ParamsOf(rows)
<1>1. {p \in ProfileIds : others[p].live} = {p \in ProfileIds : rows[p].live}
  OBVIOUS
<1>2. CASE {p \in ProfileIds : rows[p].live} = {}
  BY <1>1, <1>2 DEF Profiles!ParamsOf
<1>3. CASE {p \in ProfileIds : rows[p].live} # {}
  <2> DEFINE q == CHOOSE p \in {p \in ProfileIds : rows[p].live} : TRUE
  <2>1. q \in ProfileIds /\ rows[q].live
    BY <1>3
  <2>2. Profiles!ParamsOf(rows) = rows[q].params /\ Profiles!ParamsOf(others) = others[q].params
    BY <1>1, <1>3 DEF Profiles!ParamsOf
  <2> QED BY <2>1, <2>2
<1> QED BY <1>2, <1>3

LEMMA ProfilesBegin ==
    ASSUME Profiles!Init
    PROVE  ProfilesInv
BY DEF Profiles!Init, ProfilesInv, ReadingFollows, Profiles!NextCycleFollows, ProfileRow, Profiles!NoRow

LEMMA ProfilesGoOn ==
    ASSUME ProfilesInv, [Profiles!Next]_(Profiles!profiles)
    PROVE  ProfilesInv'
<1> DEFINE Nobody == \A r \in Requests : request[r].at # "committed"
           None   == Profiles!Held(Profiles!Empty)
<1>0. /\ profiles_row \in [ProfileIds -> ProfileRow]
      /\ request \in [Requests -> {Profiles!Ready, Committed} \cup Found]
      /\ \A p, q \in ProfileIds : profiles_row[p].live /\ profiles_row[q].live => p = q
      /\ ~excused /\ reading # None => reading = Profiles!Held(Profiles!ParamsOf(profiles_row))
      /\ Nobody /\ ~excused /\ cache # None => cache = Profiles!Held(Profiles!ParamsOf(profiles_row))
      /\ Profiles!Ready.at = "idle"
      /\ \A p \in ProfileIds : profiles_row[p].live \in BOOLEAN
  BY RowFacts DEF ProfilesInv, ReadingFollows, Profiles!NextCycleFollows, Profiles!Ready
<1>s. ASSUME profiles_row' \in [ProfileIds -> ProfileRow],
             request' \in [Requests -> {Profiles!Ready, Committed} \cup Found],
             \A p, q \in ProfileIds : profiles_row'[p].live /\ profiles_row'[q].live => p = q,
             ~excused' /\ reading' # None => reading' = Profiles!Held(Profiles!ParamsOf(profiles_row')),
             Nobody' /\ ~excused' /\ cache' # None => cache' = Profiles!Held(Profiles!ParamsOf(profiles_row'))
      PROVE  ProfilesInv'
  BY <1>s DEF ProfilesInv, ReadingFollows, Profiles!NextCycleFollows
<1>1. ASSUME NEW p \in ProfileIds, Profiles!Save(p)
      PROVE  ProfilesInv'
  <2>1. PICK v \in Params :
            /\ profiles_row' = [profiles_row EXCEPT ![p] = [profiles_row[p] EXCEPT !.params = v]]
            /\ excused' = (excused \/ (profiles_row[p].live /\ (cache # None \/ reading # None)))
    BY <1>1 DEF Profiles!Save
  <2>2. UNCHANGED <<cache, reading, request>>
    BY <1>1 DEF Profiles!Save
  <2>3. /\ profiles_row' \in [ProfileIds -> ProfileRow]
        /\ profiles_row'[p].live = profiles_row[p].live
        /\ \A q \in ProfileIds \ {p} : profiles_row'[q] = profiles_row[q]
    BY <1>0, <2>1, RowFacts
  <2>4. \A q, r \in ProfileIds : profiles_row'[q].live /\ profiles_row'[r].live => q = r
    BY <1>0, <2>3
  <2>5. CASE profiles_row[p].live
    BY <1>0, <1>s, <2>1, <2>2, <2>3, <2>4, <2>5
  <2>6. CASE ~profiles_row[p].live
    <3>1. Profiles!ParamsOf(profiles_row') = Profiles!ParamsOf(profiles_row)
      BY <1>0, <2>3, <2>6, ParamsStay
    <3> QED BY <1>0, <1>s, <2>1, <2>2, <2>3, <2>4, <2>6, <3>1
  <2> QED BY <2>5, <2>6
<1>2. ASSUME NEW p \in ProfileIds, NEW r \in Requests, NEW how \in Profiles!Routes, Profiles!LookUp(r, how, p)
      PROVE  ProfilesInv'
  <2>1. /\ UNCHANGED <<profiles_row, cache, reading, excused>> /\ request[r] = Profiles!Ready
        /\ request' = [request EXCEPT ![r] =
               [does |-> how, at |-> "found", profile |-> p, live |-> profiles_row[p].live]]
    BY <1>2 DEF Profiles!LookUp
  <2>2. [does |-> how, at |-> "found", profile |-> p, live |-> profiles_row[p].live] \in Found
    BY <1>0 DEF Found
  <2>3. request' \in [Requests -> {Profiles!Ready, Committed} \cup Found]
    BY <1>0, <2>1, <2>2
  <2>4. Nobody' => Nobody
    BY <1>0, <2>1
  <2> QED BY <1>0, <1>s, <2>1, <2>3, <2>4
<1>3. ASSUME NEW r \in Requests, Profiles!Commit(r)
      PROVE  ProfilesInv'
  <2> DEFINE p == request[r].profile
             how == request[r].does
             seen == request[r].live
             Cleared == [q \in ProfileIds |-> [profiles_row[q] EXCEPT !.live = FALSE]]
  <2>1. /\ request[r] \in Found /\ p \in ProfileIds /\ how \in Profiles!Routes /\ seen \in BOOLEAN
    BY <1>0, <1>3 DEF Profiles!Commit, Profiles!Ready, Committed, Found
  <2>2. /\ UNCHANGED <<cache, reading>>
        /\ request' = [request EXCEPT ![r] = IF how # "delete" \/ seen THEN Committed ELSE Profiles!Ready]
        /\ excused' = \/ excused
                      \/ reading # None /\ reading # Profiles!Held(Profiles!ParamsOf(profiles_row'))
                      \/ how = "delete" /\ profiles_row[p].live /\ ~seen
    BY <1>3 DEF Profiles!Commit, Profiles!Concerned, Committed
  <2>3. ASSUME how = "activate"
      PROVE  /\ profiles_row' \in [ProfileIds -> ProfileRow]
             /\ \A q, s \in ProfileIds : profiles_row'[q].live /\ profiles_row'[s].live => q = s
    <3>1. profiles_row' = IF Cleared[p] = Profiles!NoRow THEN Cleared ELSE [Cleared EXCEPT ![p] = [Cleared[p] EXCEPT !.live = TRUE]]
      BY <1>3, <2>3 DEF Profiles!Commit, Profiles!Marked, Profiles!Cleared
    <3>2. Cleared \in [ProfileIds -> ProfileRow] /\ \A q \in ProfileIds : ~Cleared[q].live
      BY <1>0, RowFacts
    <3> HIDE DEF Cleared
    <3>3. profiles_row' \in [ProfileIds -> ProfileRow] /\ \A q \in ProfileIds : q # p => ~profiles_row'[q].live
      BY <2>1, <3>1, <3>2, RowFacts
    <3> QED BY <3>3
  <2>4. ASSUME how = "deactivate"
      PROVE  /\ profiles_row' \in [ProfileIds -> ProfileRow]
             /\ \A q, s \in ProfileIds : profiles_row'[q].live /\ profiles_row'[s].live => q = s
    <3>1. profiles_row' = IF profiles_row[p] = Profiles!NoRow THEN profiles_row
                         ELSE [profiles_row EXCEPT ![p] = [profiles_row[p] EXCEPT !.live = FALSE]]
      BY <1>3, <2>4 DEF Profiles!Commit, Profiles!Marked
    <3>2. /\ profiles_row' \in [ProfileIds -> ProfileRow]
          /\ \A q \in ProfileIds : profiles_row'[q].live => profiles_row[q].live
      BY <1>0, <2>1, <3>1, RowFacts
    <3> QED BY <1>0, <3>2
  <2>5. ASSUME how = "delete"
      PROVE  /\ profiles_row' \in [ProfileIds -> ProfileRow]
             /\ \A q, s \in ProfileIds : profiles_row'[q].live /\ profiles_row'[s].live => q = s
             /\ ~profiles_row[p].live => Profiles!ParamsOf(profiles_row') = Profiles!ParamsOf(profiles_row)
    <3>1. profiles_row' = [profiles_row EXCEPT ![p] = Profiles!NoRow]
      BY <1>3, <2>5 DEF Profiles!Commit
    <3>2. Profiles!NoRow \in ProfileRow /\ Profiles!NoRow.live = FALSE
      BY DEF ProfileRow, Profiles!NoRow
    <3>3. /\ profiles_row' \in [ProfileIds -> ProfileRow] /\ profiles_row'[p].live = FALSE
          /\ \A q \in ProfileIds \ {p} : profiles_row'[q] = profiles_row[q]
      BY <1>0, <2>1, <3>1, <3>2
    <3>4. ~profiles_row[p].live => Profiles!ParamsOf(profiles_row') = Profiles!ParamsOf(profiles_row)
      BY <1>0, <3>3, ParamsStay
    <3> QED BY <1>0, <3>3, <3>4
  <2>6. /\ profiles_row' \in [ProfileIds -> ProfileRow]
        /\ \A q, s \in ProfileIds : profiles_row'[q].live /\ profiles_row'[s].live => q = s
        /\ how = "delete" /\ ~profiles_row[p].live => Profiles!ParamsOf(profiles_row') = Profiles!ParamsOf(profiles_row)
    BY <2>1, <2>3, <2>4, <2>5 DEF Profiles!Routes
  <2> HIDE DEF p, how, seen, Cleared
  <2>7. /\ request' \in [Requests -> {Profiles!Ready, Committed} \cup Found]
        /\ how # "delete" \/ seen => ~Nobody'
        /\ Nobody' => Nobody
    BY <1>0, <2>1, <2>2 DEF Committed, Found
  <2> QED BY <1>0, <1>s, <2>2, <2>6, <2>7
<1>4. ASSUME NEW r \in Requests, Profiles!Pop(r)
      PROVE  ProfilesInv'
  <2>1. /\ request' = [request EXCEPT ![r] = Profiles!Ready] /\ cache' = None
        /\ UNCHANGED <<profiles_row, reading>> /\ excused' = (excused /\ reading # None)
    BY <1>4 DEF Profiles!Pop
  <2>2. request' \in [Requests -> {Profiles!Ready, Committed} \cup Found]
    BY <1>0, <2>1
  <2> QED BY <1>0, <1>s, <2>1, <2>2
<1>5. CASE Profiles!ReadTable
  <2>1. reading' = Profiles!Held(Profiles!ParamsOf(profiles_row)) /\ UNCHANGED <<profiles_row, cache, request, excused>>
    BY <1>5 DEF Profiles!ReadTable
  <2> QED BY <1>0, <1>s, <2>1
<1>6. CASE Profiles!Fill
  <2>1. /\ reading # None /\ cache' = reading /\ reading' = None
        /\ UNCHANGED <<profiles_row, request, excused>>
    BY <1>6 DEF Profiles!Fill
  <2> QED BY <1>0, <1>s, <2>1
<1>7. CASE Profiles!Restart
  <2>1. /\ cache' = None /\ reading' = None /\ profiles_row' = profiles_row
        /\ request' = [r \in Requests |-> Profiles!Ready]
    BY <1>7 DEF Profiles!Restart
  <2> QED BY <1>0, <1>s, <2>1
<1>8. CASE UNCHANGED Profiles!profiles
  <2>1. UNCHANGED <<profiles_row, cache, reading, request, excused>>
    BY <1>8 DEF Profiles!profiles
  <2> QED BY <1>0, <1>s, <2>1
<1> QED BY <1>1, <1>2, <1>3, <1>4, <1>5, <1>6, <1>7, <1>8 DEF Profiles!Next

\* What is cached or read is what some table says, or nothing.
CacheTyped ==
    /\ {cache, reading} \subseteq {Profiles!Held(v) : v \in Params \cup {Defaults, Profiles!Empty}}
    /\ excused \in BOOLEAN

LEMMA ParamsKnown ==
    ASSUME profiles_row \in [ProfileIds -> ProfileRow]
    PROVE  Profiles!ParamsOf(profiles_row) \in Params \cup {Defaults}
<1>1. \A p \in ProfileIds : profiles_row[p].params \in Params \cup {Defaults}
  <2> SUFFICES ASSUME NEW r \in ProfileRow PROVE r.params \in Params \cup {Defaults}
    OBVIOUS
  <2> QED BY DEF ProfileRow, Profiles!NoRow
<1>2. CASE {p \in ProfileIds : profiles_row[p].live} = {}
  BY <1>2 DEF Profiles!ParamsOf
<1>3. CASE {p \in ProfileIds : profiles_row[p].live} # {}
  <2> DEFINE q == CHOOSE p \in {p \in ProfileIds : profiles_row[p].live} : TRUE
  <2>1. q \in ProfileIds
    BY <1>3
  <2>2. Profiles!ParamsOf(profiles_row) = profiles_row[q].params
    BY <1>3 DEF Profiles!ParamsOf
  <2> QED BY <1>1, <2>1, <2>2
<1> QED BY <1>2, <1>3

LEMMA CacheStaysTyped ==
    ASSUME ProfilesInv, CacheTyped, [Profiles!Next]_(Profiles!profiles)
    PROVE  CacheTyped'
<1> DEFINE Known == {Profiles!Held(v) : v \in Params \cup {Defaults, Profiles!Empty}}
           None  == Profiles!Held(Profiles!Empty)
           Moves == /\ cache' \in {cache, reading, None}
                    /\ reading' \in {reading, None, Profiles!Held(Profiles!ParamsOf(profiles_row))}
                    /\ excused' \in BOOLEAN
<1>1. cache \in Known /\ reading \in Known /\ excused \in BOOLEAN /\ None \in Known
  BY DEF CacheTyped
<1>2. Profiles!Held(Profiles!ParamsOf(profiles_row)) \in Known
  BY ParamsKnown DEF ProfilesInv
<1>3. Moves
  <2>1. ASSUME NEW p \in ProfileIds, Profiles!Save(p) PROVE Moves
    BY <1>1, <2>1 DEF Profiles!Save
  <2>2. ASSUME NEW p \in ProfileIds, NEW r \in Requests, NEW how \in Profiles!Routes, Profiles!LookUp(r, how, p)
        PROVE  Moves
    BY <1>1, <2>2 DEF Profiles!LookUp
  <2>3. ASSUME NEW r \in Requests, Profiles!Commit(r) PROVE Moves
    BY <1>1, <2>3 DEF Profiles!Commit
  <2>4. ASSUME NEW r \in Requests, Profiles!Pop(r) PROVE Moves
    BY <1>1, <2>4 DEF Profiles!Pop
  <2>5. CASE Profiles!ReadTable \/ Profiles!Fill \/ Profiles!Restart
    BY <1>1, <2>5 DEF Profiles!ReadTable, Profiles!Fill, Profiles!Restart
  <2>6. CASE UNCHANGED Profiles!profiles
    BY <1>1, <2>6 DEF Profiles!profiles
  <2> QED BY <2>1, <2>2, <2>3, <2>4, <2>5, <2>6 DEF Profiles!Next
<1>4. cache' \in Known /\ reading' \in Known
  <2> HIDE DEF Known, None
  <2> QED BY <1>1, <1>2, <1>3
<1> QED BY <1>3, <1>4 DEF CacheTyped

LEMMA ProfilesSay ==
    ASSUME ProfilesInv, CacheTyped
    PROVE  Profiles!TypeOK /\ Profiles!OneLiveProfile /\ Profiles!NextCycleFollows
<1> DEFINE live == {p \in ProfileIds : profiles_row[p].live}
<1>1. \A S : Profiles!Cardinality(S) = Cardinality(S)
  BY DEF Profiles!Cardinality, Cardinality
<1>2. ASSUME live = {} PROVE Profiles!OneLiveProfile
  BY <1>1, <1>2, FS_EmptySet DEF Profiles!OneLiveProfile
<1>3. ASSUME live # {} PROVE Profiles!OneLiveProfile
  <2>1. PICK p \in live : live = {p}
    BY <1>3 DEF ProfilesInv
  <2>2. Cardinality(live) = 1
    BY <2>1, FS_Singleton
  <2> QED BY <1>1, <2>2 DEF Profiles!OneLiveProfile
<1>4. Profiles!OneLiveProfile
  BY <1>2, <1>3
<1>5. Profiles!TypeOK
  BY DEF ProfilesInv, CacheTyped, ProfileRow, Committed, Found, Profiles!TypeOK
<1> QED BY <1>4, <1>5 DEF ProfilesInv

\* For any number of profiles and of requests under way: at most one profile is live, and the next cycle
\* of the loop uses what the table says, unless a commit overtook a reading or a lookup (excused).
THEOREM ProfilesAreFollowed ==
    Profiles!Init /\ [][Profiles!Next]_(Profiles!profiles) =>
        [](Profiles!TypeOK /\ Profiles!OneLiveProfile /\ Profiles!NextCycleFollows)
<1>1. Profiles!Init => ProfilesInv /\ CacheTyped
  <2>1. Profiles!Init => CacheTyped
    BY DEF Profiles!Init, CacheTyped
  <2> QED BY <2>1, ProfilesBegin
<1>2. ProfilesInv /\ CacheTyped /\ [Profiles!Next]_(Profiles!profiles) => ProfilesInv' /\ CacheTyped'
  BY ProfilesGoOn, CacheStaysTyped
<1>3. ProfilesInv /\ CacheTyped => Profiles!TypeOK /\ Profiles!OneLiveProfile /\ Profiles!NextCycleFollows
  BY ProfilesSay
<1> QED BY <1>1, <1>2, <1>3, PTL

-----------------------------------------------------------------------------
(* The backtest job that a profile comes from (BacktestJobs).                *)
CONSTANTS Forms, SelfEnding, MaxJobs,
          Nothing \* no form, no record, no agent
VARIABLES jobs_job, thread, asked, twin, raced

Jobs == INSTANCE BacktestJobs WITH
    job <- jobs_job, Early <- SelfEnding, NoForm <- Nothing

\* Threads start in their order, and a token is at most the number of threads that have started.  While
\* nothing raced, every thread has a token of its own, and one that has passed its look at the token
\* still holds the job's.
Unstarted(i) == thread[i].at = "unborn"
JobsInv ==
    /\ Jobs!TypeOK
    /\ \A i \in Jobs!Ids : Unstarted(i) => jobs_job.token < i /\ \A k \in Jobs!Ids : k > i => Unstarted(k)
    /\ \A i \in Jobs!Ids : ~Unstarted(i) => thread[i].token <= jobs_job.token
    /\ ~raced => \A i, k \in Jobs!Ids :
                    ~Unstarted(i) /\ ~Unstarted(k) /\ thread[i].token = thread[k].token => i = k
    /\ ~raced => \A i \in Jobs!Ids : thread[i].at \in {"current", "stored"} => Jobs!Current(i)
    /\ Jobs!LiveJobIsShown

LEMMA JobsBegin ==
    ASSUME MaxJobs \in Nat, Jobs!Init
    PROVE  JobsInv
<1>1. /\ jobs_job.token = 0 /\ ~raced /\ \A i \in Jobs!Ids : i \in Nat /\ i > 0 /\ thread[i] = Jobs!Unborn
      /\ \A i \in Jobs!Ids : thread[i].at = "unborn"
  BY DEF Jobs!Init, Jobs!Unborn, Jobs!Ids
<1>2. /\ jobs_job \in [running : BOOLEAN, stuck : BOOLEAN, token : 0..MaxJobs, form : Forms \cup {Nothing},
                 result : Forms \cup {Nothing}, error : BOOLEAN]
      /\ asked \in [Forms -> 0..2] /\ twin \in BOOLEAN /\ raced \in BOOLEAN
  <2>1. 0 \in 0..MaxJobs /\ 0 \in 0..2
    OBVIOUS
  <2> QED BY <2>1 DEF Jobs!Init
<1>3. thread \in [Jobs!Ids -> [at : Jobs!Alive \cup {"unborn", "ended"}, token : 0..MaxJobs,
                             form : Forms \cup {Nothing}]]
  BY DEF Jobs!Init, Jobs!Unborn
<1>4. Jobs!TypeOK
  BY <1>2, <1>3 DEF Jobs!TypeOK
<1>5. Jobs!LiveJobIsShown
  BY <1>1 DEF Jobs!LiveJobIsShown
<1> QED BY <1>1, <1>4, <1>5 DEF JobsInv, Unstarted

\* A thread's step to another place, which leaves its token and the others alone.
LEMMA ThreadMoves ==
    ASSUME JobsInv, NEW i \in Jobs!Ids, NEW to \in {"current", "stored", "closing", "ended"},
           ~Unstarted(i), Jobs!GoesTo(i, to)
    PROVE  /\ thread' \in [Jobs!Ids -> [at : Jobs!Alive \cup {"unborn", "ended"}, token : 0..MaxJobs,
                                       form : Forms \cup {Nothing}]]
           /\ thread'[i].at = to
           /\ \A k \in Jobs!Ids : /\ thread'[k].token = thread[k].token
                                  /\ k # i => thread'[k] = thread[k]
BY DEF JobsInv, Jobs!TypeOK, Jobs!GoesTo, Jobs!Alive, Unstarted

\* A job's page may stop to show a job when it is that of the thread that ends.
LEMMA WorkKeeps ==
    ASSUME MaxJobs \in Nat, JobsInv, NEW i \in Jobs!Ids, NEW to \in {"current", "stored", "closing", "ended"},
           thread[i].at \in {"running", "current", "stored", "closing"}, Jobs!GoesTo(i, to),
           UNCHANGED <<asked, twin, raced>>,
           jobs_job' \in [running : BOOLEAN, stuck : BOOLEAN, token : 0..MaxJobs, form : Forms \cup {Nothing},
                     result : Forms \cup {Nothing}, error : BOOLEAN],
           jobs_job'.token = jobs_job.token,
           to \in {"current", "stored"} => Jobs!Current(i) \/ thread[i].at = "current",
           to = "current" => jobs_job'.running = jobs_job.running /\ thread[i].at = "running",
           jobs_job'.running = jobs_job.running \/ (~raced => Jobs!Current(i) /\ to \in {"closing", "ended"})
    PROVE  JobsInv'
<1>1. ~Unstarted(i)
  BY DEF Unstarted
<1>2. /\ thread' \in [Jobs!Ids -> [at : Jobs!Alive \cup {"unborn", "ended"}, token : 0..MaxJobs,
                                  form : Forms \cup {Nothing}]]
      /\ thread'[i].at = to
      /\ \A k \in Jobs!Ids : /\ thread'[k].token = thread[k].token
                             /\ k # i => thread'[k] = thread[k]
  BY <1>1, ThreadMoves
<1>11. thread \in [Jobs!Ids -> [at : Jobs!Alive \cup {"unborn", "ended"}, token : 0..MaxJobs,
                             form : Forms \cup {Nothing}]]
  BY DEF JobsInv, Jobs!TypeOK
<1>10. \A k \in Jobs!Ids : Unstarted(k)' <=> Unstarted(k)
  BY <1>1, <1>2, <1>11 DEF Unstarted
<1>3. \A k \in Jobs!Ids : Jobs!Current(k)' <=> Jobs!Current(k)
  <2> SUFFICES ASSUME NEW k \in Jobs!Ids PROVE Jobs!Current(k)' <=> Jobs!Current(k)
    OBVIOUS
  <2>1. thread'[k].token = thread[k].token
    BY <1>2, <1>11
  <2> QED BY <2>1 DEF Jobs!Current
<1>4. Jobs!TypeOK'
  BY <1>2 DEF JobsInv, Jobs!TypeOK
<1>5. ~raced => \A k \in Jobs!Ids : thread'[k].at \in {"current", "stored"} => Jobs!Current(k)'
  <2> SUFFICES ASSUME ~raced, NEW k \in Jobs!Ids, thread'[k].at \in {"current", "stored"} PROVE Jobs!Current(k)
    BY <1>3
  <2>1. CASE k = i
    BY <1>2, <2>1 DEF JobsInv
  <2>2. CASE k # i
    <3>1. thread'[k] = thread[k]
      BY <1>2, <1>11, <2>2
    <3> QED BY <3>1 DEF JobsInv
  <2> QED BY <2>1, <2>2
<1>6. Jobs!LiveJobIsShown'
  <2> SUFFICES ASSUME ~raced, NEW k \in Jobs!Ids, thread'[k].at \in {"running", "current"}, Jobs!Current(k)
               PROVE  jobs_job'.running
    BY <1>3 DEF Jobs!LiveJobIsShown
  <2>1. CASE k = i
    BY <1>2, <2>1 DEF JobsInv, Jobs!LiveJobIsShown
  <2>2. CASE k # i
    <3>1. thread[k].at \in {"running", "current"} /\ jobs_job.running /\ ~Unstarted(k)
      <4>1. thread'[k] = thread[k]
        BY <1>2, <1>11, <2>2
      <4> QED BY <4>1 DEF JobsInv, Jobs!LiveJobIsShown, Unstarted
    <3>2. ~Jobs!Current(i)
      BY <1>1, <2>2, <3>1 DEF JobsInv, Jobs!Current
    <3> QED BY <3>1, <3>2
  <2> QED BY <2>1, <2>2
<1>7. \A k \in Jobs!Ids : Unstarted(k)' => jobs_job'.token < k /\ \A n \in Jobs!Ids : n > k => Unstarted(n)'
  <2>1. \A k \in Jobs!Ids : Unstarted(k) => jobs_job.token < k /\ \A n \in Jobs!Ids : n > k => Unstarted(n)
    BY DEF JobsInv
  <2> QED BY <1>10, <2>1
<1>8. \A k \in Jobs!Ids : ~Unstarted(k)' => thread'[k].token <= jobs_job'.token
  <2>1. \A k \in Jobs!Ids : ~Unstarted(k) => thread[k].token <= jobs_job.token
    BY DEF JobsInv
  <2> QED BY <1>2, <1>10, <1>11, <2>1
<1>9. ~raced => \A k, n \in Jobs!Ids :
         ~Unstarted(k)' /\ ~Unstarted(n)' /\ thread'[k].token = thread'[n].token => k = n
  <2>1. ~raced => \A k, n \in Jobs!Ids :
           ~Unstarted(k) /\ ~Unstarted(n) /\ thread[k].token = thread[n].token => k = n
    BY DEF JobsInv
  <2> QED BY <1>2, <1>10, <1>11, <2>1
<1> QED BY <1>4, <1>5, <1>6, <1>7, <1>8, <1>9 DEF JobsInv

LEMMA StartKeeps ==
    ASSUME MaxJobs \in Nat, JobsInv, NEW f \in Forms, NEW i \in Jobs!Ids,
           Jobs!Start(f, i) \/ Jobs!StartTwin(f, i)
    PROVE  JobsInv'
<1>1. /\ asked[f] > 0 /\ Unstarted(i) /\ twin' = twin /\ asked' = [asked EXCEPT ![f] = asked[f] - 1]
      /\ raced => raced'
  BY DEF Jobs!Start, Jobs!StartTwin, Jobs!Newest, Unstarted
<1>2. PICK token : /\ token \in {jobs_job.token, jobs_job.token + 1}
                   /\ jobs_job'.token = token /\ jobs_job'.running
                   /\ thread' = [thread EXCEPT ![i] = [at |-> "running", token |-> token, form |-> f]]
                   /\ jobs_job' \in [running : BOOLEAN, stuck : BOOLEAN, token : {token}, form : Forms \cup {Nothing},
                               result : Forms \cup {Nothing}, error : BOOLEAN]
                   /\ ~raced' => /\ token = jobs_job.token + 1 /\ raced' = raced
                                 /\ \A k \in Jobs!Ids : thread[k].at \notin {"current", "stored"}
  <2>1. jobs_job \in [running : BOOLEAN, stuck : BOOLEAN, token : 0..MaxJobs, form : Forms \cup {Nothing},
                 result : Forms \cup {Nothing}, error : BOOLEAN]
    BY DEF JobsInv, Jobs!TypeOK
  <2>2. CASE Jobs!Start(f, i)
    <3>1. /\ jobs_job' = [running |-> TRUE, stuck |-> FALSE, token |-> jobs_job.token + 1, form |-> f,
                     result |-> Nothing, error |-> FALSE]
          /\ thread' = [thread EXCEPT ![i] = [at |-> "running", token |-> jobs_job.token + 1, form |-> f]]
          /\ raced' = (raced \/ \E k \in Jobs!Ids : thread[k].at \in {"current", "stored"})
          /\ raced \in BOOLEAN
      BY <2>2 DEF Jobs!Start, JobsInv, Jobs!TypeOK
    <3> DEFINE next == jobs_job.token + 1
    <3>2. jobs_job' \in [running : BOOLEAN, stuck : BOOLEAN, token : {next}, form : Forms \cup {Nothing},
                    result : Forms \cup {Nothing}, error : BOOLEAN]
      BY <3>1
    <3>3. next \in {jobs_job.token, jobs_job.token + 1} /\ jobs_job'.token = next /\ jobs_job'.running
      BY <3>1
    <3>4. ~raced' => next = jobs_job.token + 1 /\ raced' = raced
                     /\ \A k \in Jobs!Ids : thread[k].at \notin {"current", "stored"}
      BY <3>1
    <3>5. thread' = [thread EXCEPT ![i] = [at |-> "running", token |-> next, form |-> f]]
      BY <3>1
    <3> HIDE DEF next
    <3> QED BY <3>2, <3>3, <3>4, <3>5
  <2>3. CASE Jobs!StartTwin(f, i)
    BY <2>1, <2>3 DEF Jobs!StartTwin
  <2> QED BY <2>2, <2>3
<1>3. jobs_job.token \in Nat /\ i \in 1..MaxJobs /\ jobs_job.token < i /\ token \in 0..MaxJobs
      /\ \A k \in Jobs!Ids : k > i => Unstarted(k)
  BY <1>1, <1>2 DEF JobsInv, Jobs!TypeOK, Jobs!Ids
<1>4. /\ thread' \in [Jobs!Ids -> [at : Jobs!Alive \cup {"unborn", "ended"}, token : 0..MaxJobs,
                                  form : Forms \cup {Nothing}]]
      /\ thread'[i].at = "running" /\ thread'[i].token = token
      /\ \A k \in Jobs!Ids : k # i => thread'[k] = thread[k]
  BY <1>2, <1>3 DEF JobsInv, Jobs!TypeOK, Jobs!Alive
<1>5. \A k \in Jobs!Ids : k \in Nat /\ (k # i => (Unstarted(k)' <=> Unstarted(k))) /\ ~Unstarted(i)'
  BY <1>4 DEF Unstarted, Jobs!Ids
<1>6. asked' \in [Forms -> 0..2]
  BY <1>1 DEF JobsInv, Jobs!TypeOK
<1>7. Jobs!TypeOK'
  BY <1>1, <1>2, <1>3, <1>4, <1>6 DEF JobsInv, Jobs!TypeOK, Jobs!Start, Jobs!StartTwin
<1>8. \A k \in Jobs!Ids : Unstarted(k)' => jobs_job'.token < k /\ \A n \in Jobs!Ids : n > k => Unstarted(n)'
  <2> SUFFICES ASSUME NEW k \in Jobs!Ids, Unstarted(k)'
               PROVE  jobs_job'.token < k /\ \A n \in Jobs!Ids : n > k => Unstarted(n)'
    OBVIOUS
  <2>1. Unstarted(k) /\ k # i
    BY <1>5
  <2>2. ~(k < i)
    BY <1>1, <1>2, <2>1 DEF Jobs!Start, Jobs!StartTwin, Jobs!Newest, Unstarted, Jobs!Ids
  <2>3. k > i
    BY <1>3, <1>5, <2>1, <2>2
  <2>4. jobs_job'.token < k
    BY <1>2, <1>3, <1>5, <2>3
  <2>5. \A n \in Jobs!Ids : n > k => Unstarted(n)'
    <3>1. \A n \in Jobs!Ids : n > k => Unstarted(n)
      BY <2>1 DEF JobsInv
    <3>2. \A n \in Jobs!Ids : n > k => n # i
      BY <1>3, <1>5, <2>3
    <3> QED BY <1>5, <3>1, <3>2
  <2> QED BY <2>4, <2>5
<1>9. \A k \in Jobs!Ids : thread[k].token \in Nat /\ (~Unstarted(k) => thread[k].token <= jobs_job.token)
  BY DEF JobsInv, Jobs!TypeOK
<1>10. \A k \in Jobs!Ids : ~Unstarted(k)' => thread'[k].token <= jobs_job'.token
  BY <1>2, <1>3, <1>4, <1>5, <1>9
<1>11. ~raced' => \A k, n \in Jobs!Ids :
            ~Unstarted(k)' /\ ~Unstarted(n)' /\ thread'[k].token = thread'[n].token => k = n
  <2> SUFFICES ASSUME ~raced', NEW k \in Jobs!Ids, NEW n \in Jobs!Ids, ~Unstarted(k)', ~Unstarted(n)',
                      thread'[k].token = thread'[n].token
               PROVE  k = n
    OBVIOUS
  <2>1. token = jobs_job.token + 1 /\ ~raced
    BY <1>1, <1>2
  <2>2. CASE k # i /\ n # i
    BY <1>4, <1>5, <2>1, <2>2 DEF JobsInv
  <2>3. CASE k = i \/ n = i
    BY <1>3, <1>4, <1>5, <1>9, <2>1, <2>3
  <2> QED BY <2>2, <2>3
<1>12. ~raced' => \A k \in Jobs!Ids : thread'[k].at \in {"current", "stored"} => Jobs!Current(k)'
  BY <1>2, <1>4
<1>13. Jobs!LiveJobIsShown'
  BY <1>2 DEF Jobs!LiveJobIsShown
<1> QED BY <1>7, <1>8, <1>10, <1>11, <1>12, <1>13 DEF JobsInv

LEMMA JobsGoOn ==
    ASSUME MaxJobs \in Nat, JobsInv, [Jobs!Next]_(Jobs!jobs)
    PROVE  JobsInv'
<1> DEFINE Page == [running : BOOLEAN, stuck : BOOLEAN, token : 0..MaxJobs, form : Forms \cup {Nothing},
                    result : Forms \cup {Nothing}, error : BOOLEAN]
<1>0. jobs_job \in Page
  BY DEF JobsInv, Jobs!TypeOK
\* A step of the page that leaves the threads alone.
<1>1. ASSUME UNCHANGED <<thread, raced>>, jobs_job' \in Page, jobs_job'.token = jobs_job.token, jobs_job'.running = jobs_job.running,
             asked' \in [Forms -> 0..2], twin' \in BOOLEAN
      PROVE  JobsInv'
  <2>1. \A k \in Jobs!Ids : (Unstarted(k)' <=> Unstarted(k)) /\ (Jobs!Current(k)' <=> Jobs!Current(k))
    BY <1>1 DEF Unstarted, Jobs!Current
  <2>2. Jobs!TypeOK' /\ Jobs!LiveJobIsShown'
    BY <1>1, <2>1 DEF JobsInv, Jobs!TypeOK, Jobs!LiveJobIsShown
  <2> QED BY <1>1, <2>1, <2>2 DEF JobsInv
<1>2. ASSUME NEW f \in Forms, Jobs!Ask(f) PROVE JobsInv'
  <2>1. /\ UNCHANGED <<jobs_job, thread, raced>> /\ asked[f] < 2 /\ asked' = [asked EXCEPT ![f] = asked[f] + 1]
        /\ twin' \in BOOLEAN
    BY <1>2 DEF Jobs!Ask, JobsInv, Jobs!TypeOK
  <2>2. asked' \in [Forms -> 0..2]
    BY <2>1 DEF JobsInv, Jobs!TypeOK
  <2> QED BY <1>0, <1>1, <2>1, <2>2
<1>3. ASSUME NEW f \in Forms, Jobs!Load(f) PROVE JobsInv'
  <2>1. UNCHANGED <<thread, asked, twin, raced>> /\ jobs_job' = [jobs_job EXCEPT !.form = f]
    BY <1>3 DEF Jobs!Load
  <2>2. jobs_job' \in Page /\ jobs_job'.token = jobs_job.token /\ jobs_job'.running = jobs_job.running
    BY <1>0, <2>1
  <2> HIDE DEF Page
  <2> QED BY <1>1, <2>1, <2>2 DEF JobsInv, Jobs!TypeOK
<1>4. CASE Jobs!GetsStuck
  <2>1. UNCHANGED <<thread, asked, twin, raced>> /\ jobs_job' = [jobs_job EXCEPT !.stuck = TRUE]
    BY <1>4 DEF Jobs!GetsStuck
  <2>2. jobs_job' \in Page /\ jobs_job'.token = jobs_job.token /\ jobs_job'.running = jobs_job.running
    BY <1>0, <2>1
  <2> HIDE DEF Page
  <2> QED BY <1>1, <2>1, <2>2 DEF JobsInv, Jobs!TypeOK
<1>5. ASSUME NEW i \in Jobs!Ids, Jobs!Simulated(i) PROVE JobsInv'
  <2>1. thread[i].at = "running" /\ UNCHANGED <<asked, twin, raced>>
    BY <1>5 DEF Jobs!Simulated
  <2>2. PICK to \in {"current", "closing"} : Jobs!GoesTo(i, to) /\ (to = "current" => Jobs!Current(i))
    BY <1>5 DEF Jobs!Simulated
  <2>3. jobs_job' \in Page /\ jobs_job'.token = jobs_job.token /\ jobs_job'.running = jobs_job.running
    <3>1. jobs_job' = jobs_job \/ jobs_job' = [jobs_job EXCEPT !.error = jobs_job.error \/ Jobs!Current(i)]
      BY <1>5 DEF Jobs!Simulated
    <3>2. Jobs!Current(i) \in BOOLEAN
      BY DEF Jobs!Current
    <3>3. CASE jobs_job' = jobs_job
      BY <1>0, <3>3
    <3>4. CASE jobs_job' = [jobs_job EXCEPT !.error = jobs_job.error \/ Jobs!Current(i)]
      BY <1>0, <3>2, <3>4
    <3> QED BY <3>1, <3>3, <3>4
  <2> QED BY <2>1, <2>2, <2>3, WorkKeeps
<1>6. ASSUME NEW i \in Jobs!Ids, Jobs!Store(i) PROVE JobsInv'
  <2>1. thread[i].at = "current" /\ UNCHANGED <<asked, twin, raced>>
    BY <1>6 DEF Jobs!Store
  <2>2. PICK to \in {"stored", "closing"} : Jobs!GoesTo(i, to)
    BY <1>6 DEF Jobs!Store
  <2>3. thread[i].form \in Forms \cup {Nothing}
    BY DEF JobsInv, Jobs!TypeOK
  <2>4. jobs_job' \in Page /\ jobs_job'.token = jobs_job.token /\ jobs_job'.running = jobs_job.running
    BY <1>0, <1>6, <2>3 DEF Jobs!Store
  <2> QED BY <2>1, <2>2, <2>4, WorkKeeps
<1>7. ASSUME NEW i \in Jobs!Ids, Jobs!EndEarly(i) PROVE JobsInv'
  <2>1. /\ thread[i].at = "stored" /\ UNCHANGED <<asked, twin, raced>> /\ Jobs!GoesTo(i, "closing")
        /\ jobs_job' = [jobs_job EXCEPT !.running = FALSE, !.stuck = FALSE]
    BY <1>7 DEF Jobs!EndEarly
  <2>2. jobs_job' \in Page /\ jobs_job'.token = jobs_job.token
    BY <1>0, <2>1
  <2>3. ~raced => Jobs!Current(i)
    BY <2>1 DEF JobsInv
  <2> QED BY <2>1, <2>2, <2>3, WorkKeeps
<1>8. ASSUME NEW i \in Jobs!Ids, Jobs!Close(i) PROVE JobsInv'
  <2>1. /\ thread[i].at = "closing" /\ UNCHANGED <<asked, twin, raced>> /\ Jobs!GoesTo(i, "ended")
        /\ jobs_job' = IF Jobs!Current(i) THEN [jobs_job EXCEPT !.running = FALSE, !.stuck = FALSE] ELSE jobs_job
    BY <1>8 DEF Jobs!Close, Jobs!StillMine
  <2>2. jobs_job' \in Page /\ jobs_job'.token = jobs_job.token /\ (~Jobs!Current(i) => jobs_job'.running = jobs_job.running)
    BY <1>0, <2>1
  <2> QED BY <2>1, <2>2, WorkKeeps
<1>9. CASE UNCHANGED Jobs!jobs
  <2>1. UNCHANGED <<jobs_job, thread, asked, twin, raced>>
    BY <1>9 DEF Jobs!jobs
  <2> QED BY <1>0, <1>1, <2>1 DEF JobsInv, Jobs!TypeOK
<1> QED BY <1>2, <1>3, <1>4, <1>5, <1>6, <1>7, <1>8, <1>9, StartKeeps DEF Jobs!Next, Jobs!Work

\* For any number of jobs and forms: while the thread that holds the job's token works, the page shows the
\* job as running, whatever older threads end or fail beside it, unless two threads got one token or a
\* thread was overtaken after its look at the token (raced).
THEOREM JobIsShown ==
    ASSUME MaxJobs \in Nat
    PROVE  Jobs!Init /\ [][Jobs!Next]_(Jobs!jobs) => [](Jobs!TypeOK /\ Jobs!LiveJobIsShown)
<1>1. Jobs!Init => JobsInv
  BY JobsBegin
<1>2. JobsInv /\ [Jobs!Next]_(Jobs!jobs) => JobsInv'
  BY JobsGoOn
<1>3. JobsInv => Jobs!TypeOK /\ Jobs!LiveJobIsShown
  BY DEF JobsInv
<1> QED BY <1>1, <1>2, <1>3, PTL

-----------------------------------------------------------------------------
(* The health of the tick (TickHealth): circuit breaker, heartbeat and       *)
(* watchdog.                                                                 *)
CONSTANTS Threshold, Recovery, StaleAfter, MaxTickFailures
VARIABLES tick, breaker, beat, watch, stopped

Health == INSTANCE TickHealth WITH MaxFailures <- MaxTickFailures

\* Assumed of the constants: a threshold of at least one failure, within the bound of the counters.
HealthConstants ==
    /\ Threshold \in Nat /\ MaxTickFailures \in Nat
    /\ 1 <= Threshold /\ Threshold <= MaxTickFailures
    /\ Recovery \in Nat /\ StaleAfter \in Nat

\* A probe is made of an open circuit, so its failures are enough too, and no tick works while
\* the circuit is open.
HealthInv ==
    /\ Health!TypeOK
    /\ Health!BreakerTellsTheTruth
    /\ Health!StaleMeansFailing
    /\ breaker.state = "half_open" => breaker.failures >= Threshold
    /\ tick = "working" => breaker.state # "open"

LEMMA OfTwo ==
    ASSUME NEW a \in Nat, NEW b \in Nat
    PROVE  /\ Health!Max({a, b}) \in {a, b} /\ Health!Max({a, b}) >= a /\ Health!Max({a, b}) >= b
           /\ Health!Min({a, b}) \in {a, b} /\ Health!Min({a, b}) <= a /\ Health!Min({a, b}) <= b
<1>1. \E x \in {a, b} : \A y \in {a, b} : x >= y
  <2>1. CASE a >= b
    BY <2>1
  <2>2. CASE ~(a >= b)
    BY <2>2
  <2> QED BY <2>1, <2>2
<1>2. \E x \in {a, b} : \A y \in {a, b} : x <= y
  <2>1. CASE a >= b
    BY <2>1
  <2>2. CASE ~(a >= b)
    BY <2>2
  <2> QED BY <2>1, <2>2
<1>3. /\ Health!Max({a, b}) \in {a, b} /\ \A y \in {a, b} : Health!Max({a, b}) >= y
  BY <1>1 DEF Health!Max
<1>4. /\ Health!Min({a, b}) \in {a, b} /\ \A y \in {a, b} : Health!Min({a, b}) <= y
  BY <1>2 DEF Health!Min
<1> QED BY <1>3, <1>4

LEMMA CounterMoves ==
    ASSUME HealthConstants, NEW n \in 0..MaxTickFailures
    PROVE  Health!More(n) \in 1..MaxTickFailures /\ Health!More(n) >= n
<1>1. n + 1 \in Nat /\ MaxTickFailures \in Nat
  BY DEF HealthConstants
<1> QED BY <1>1, OfTwo DEF Health!More, HealthConstants

LEMMA ClockMoves ==
    ASSUME HealthConstants
    PROVE  /\ Health!Never \in Nat /\ Health!Never >= 1 /\ Health!Never > Recovery
           /\ \A age \in 0..Health!Never : Health!Older(age) \in 0..Health!Never
<1>1. Recovery \in Nat /\ StaleAfter + 1 \in Nat
  BY DEF HealthConstants
<1>2. Health!Never \in Nat /\ Health!Never >= 1 /\ Health!Never > Recovery
  BY <1>1, OfTwo DEF Health!Never
<1> QED BY <1>2 DEF Health!Older

LEMMA HealthBegins ==
    ASSUME HealthConstants, Health!Init
    PROVE  HealthInv
<1>1. 0 \in 0..MaxTickFailures /\ 0 \in 0..Health!Never /\ Health!Never \in 0..Health!Never /\ 0 < Threshold
  BY ClockMoves DEF HealthConstants
<1>2. /\ tick = "asleep" /\ breaker = [state |-> "closed", failures |-> 0, age |-> 0]
      /\ beat = [failures |-> 0, age |-> Health!Never] /\ watch = FALSE /\ stopped = FALSE
  BY DEF Health!Init, Health!Fresh
<1> HIDE DEF Health!Init
<1>3. Health!TypeOK
  BY <1>1, <1>2 DEF Health!TypeOK
<1>4. Health!BreakerTellsTheTruth /\ Health!StaleMeansFailing
  BY <1>1, <1>2 DEF Health!BreakerTellsTheTruth, Health!StaleMeansFailing
<1> QED BY <1>2, <1>3, <1>4 DEF HealthInv

LEMMA HealthGoesOn ==
    ASSUME HealthConstants, HealthInv, [Health!Next]_(Health!health)
    PROVE  HealthInv'
<1> USE DEF HealthInv, Health!TypeOK, Health!BreakerTellsTheTruth, Health!StaleMeansFailing
<1>0. Threshold \in Nat /\ MaxTickFailures \in Nat /\ Threshold >= 1 /\ Threshold <= MaxTickFailures
      /\ 0 \in 0..Health!Never
  BY ClockMoves DEF HealthConstants
<1>1. CASE Health!Begin
  BY <1>1 DEF Health!Begin
<1>2. CASE Health!Succeed
  BY <1>0, <1>2 DEF Health!Succeed
<1>3. CASE Health!Fail
  <2> DEFINE failures == Health!More(breaker.failures)
  <2>1. failures \in 1..MaxTickFailures /\ failures >= breaker.failures
    BY CounterMoves
  <2>2. breaker' = IF breaker.state = "half_open" \/ failures >= Threshold
                  THEN [state |-> "open", failures |-> failures, age |-> 0]
                  ELSE [breaker EXCEPT !.failures = failures]
    BY <1>3 DEF Health!Fail
  <2> HIDE DEF failures
  <2> QED BY <1>0, <1>3, <2>1, <2>2 DEF Health!Fail
<1>4. CASE Health!End
  <2>1. Health!More(beat.failures) \in 1..MaxTickFailures
    BY CounterMoves
  <2>2. beat' = IF tick = "failed" THEN [beat EXCEPT !.failures = Health!More(beat.failures)] ELSE [failures |-> 0, age |-> 0]
    BY <1>4 DEF Health!End
  <2>3. watch' => beat'.failures > 0
    <3>1. CASE tick = "failed"
      BY <2>1, <2>2, <3>1
    <3>2. CASE tick # "failed"
      <4>1. beat'.age = 0 /\ watch' = Health!Stale(beat'.age)
        BY <1>4, <2>2, <3>2 DEF Health!End
      <4>2. ~Health!Stale(0)
        BY DEF Health!Stale, HealthConstants
      <4> QED BY <4>1, <4>2
    <3> QED BY <3>1, <3>2
  <2>4. watch' \in BOOLEAN
    BY <1>4 DEF Health!End, Health!Stale
  <2> QED BY <1>0, <1>4, <2>1, <2>2, <2>3, <2>4 DEF Health!End
<1>5. CASE Health!Elapse
  BY <1>5, ClockMoves DEF Health!Elapse
<1>6. CASE Health!EmergencyStop
  BY <1>6 DEF Health!EmergencyStop
<1>7. CASE Health!Restarted
  <2>1. Health!Never \in 0..Health!Never
    BY ClockMoves
  <2>2. /\ tick' = "asleep" /\ breaker' = [state |-> "closed", failures |-> 0, age |-> 0]
        /\ beat' = [failures |-> 0, age |-> Health!Never] /\ watch' = FALSE /\ stopped' = stopped
    BY <1>7 DEF Health!Restarted
  <2>3. Health!TypeOK'
    <3>1. breaker' \in [state : {"closed", "open", "half_open"}, failures : 0..MaxTickFailures, age : 0..Health!Never]
      BY <1>0, <2>2
    <3>2. beat' \in [failures : 0..MaxTickFailures, age : 0..Health!Never]
      BY <1>0, <2>1, <2>2
    <3> QED BY <2>2, <3>1, <3>2
  <2> QED BY <1>0, <2>2, <2>3
<1>8. CASE UNCHANGED Health!health
  BY <1>8 DEF Health!health
<1> QED BY <1>1, <1>2, <1>3, <1>4, <1>5, <1>6, <1>7, <1>8 DEF Health!Next, Health!Tick

\* For every threshold, recovery time and deadline: the circuit breaker is open, half open or closed as
\* the failures in a row say, no half-open circuit outlives its probe, and the watchdog says stale only of
\* a scheduler whose last tick failed, whatever ticks are skipped, stopped or cut off by a restart.
THEOREM HealthIsTold ==
    ASSUME HealthConstants
    PROVE  Health!Init /\ [][Health!Next]_(Health!health) =>
               [](Health!TypeOK /\ Health!BreakerTellsTheTruth /\ Health!StaleMeansFailing)
<1>1. Health!Init => HealthInv
  BY HealthBegins
<1>2. HealthInv /\ [Health!Next]_(Health!health) => HealthInv'
  BY HealthGoesOn
<1>3. HealthInv => Health!TypeOK /\ Health!BreakerTellsTheTruth /\ Health!StaleMeansFailing
  BY DEF HealthInv
<1> QED BY <1>1, <1>2, <1>3, PTL

-----------------------------------------------------------------------------
(* The production watchdog (ProductionWatchdog): rows, streaks and alerts.   *)
CONSTANTS Checks, Needed, MaxStreak
VARIABLES watchdog_saved, draft, watchdog_cycle, watchdog_told, unsent

Watchdog == INSTANCE ProductionWatchdog WITH
    saved <- watchdog_saved, cycle <- watchdog_cycle, told <- watchdog_told

\* Assumed of the constants: the checks are numbered, and an escalation needs a failure.
WatchdogConstants ==
    /\ Checks \subseteq Nat /\ Needed \in Nat \ {0} /\ MaxStreak \in Nat \ {0}

Alerting(c) == watchdog_cycle.at = "escalating" /\ Watchdog!Check = c

\* A row is escalated from the threshold on.
EscalatesInTime(r) == (r.escalated => r.failures > 0) /\ (r.failures >= Needed => r.escalated)

\* An alert belongs to an escalated row: sent once, cut short, or on its way.  A row the
\* transaction has not reached is as committed, one it has updated is reset or as escalated as before.
WatchdogInv ==
    /\ Watchdog!TypeOK
    /\ watchdog_cycle \in [at : {"asleep", "updating", "escalating"}, failed : SUBSET Checks, todo : SUBSET Checks]
    /\ watchdog_cycle.at = "escalating" => watchdog_cycle.todo # {}
    /\ watchdog_cycle.at # "updating" => draft = watchdog_saved
    /\ \A c \in Checks :
        /\ EscalatesInTime(watchdog_saved[c]) /\ EscalatesInTime(draft[c])
        /\ watchdog_told[c] <= 1
        /\ watchdog_told[c] = 1 \/ c \in unsent \/ Alerting(c) => watchdog_saved[c].escalated
        /\ watchdog_saved[c].escalated => watchdog_told[c] = 1 \/ c \in unsent \/ Alerting(c)
        /\ Alerting(c) => watchdog_told[c] = 0
        /\ c \in watchdog_cycle.todo => draft[c] = watchdog_saved[c]
        /\ draft[c].failures = 0 \/ draft[c].escalated = watchdog_saved[c].escalated

LEMMA LeastExists ==
    ASSUME NEW S \in SUBSET Nat, S # {}
    PROVE  \E x \in S : \A y \in S : x <= y
<1> DEFINE R == {ss \in Nat \X Nat : ss[1] < ss[2]}
<1>1. IsWellFoundedOn(R, Nat)
  BY NatLessThanWellFounded DEF OpToRel
<1> HIDE DEF R
<1>2. PICK x \in S : \A y \in S : ~(<<y, x>> \in R)
  BY <1>1, WFMin
<1>3. \A y \in S : ~(y < x)
  BY <1>2 DEF R
<1> QED BY <1>3

LEMMA CheckIsNext ==
    ASSUME WatchdogConstants, NEW todo, todo = watchdog_cycle.todo, todo \subseteq Checks, todo # {}
    PROVE  Watchdog!Check \in watchdog_cycle.todo
BY LeastExists DEF Watchdog!Check, Watchdog!Min, WatchdogConstants

LEMMA StreakMoves ==
    ASSUME WatchdogConstants, NEW n \in 0..MaxStreak
    PROVE  Watchdog!Min({n + 1, MaxStreak}) \in 1..MaxStreak /\ Watchdog!Min({n + 1, MaxStreak}) <= n + 1
<1>1. n + 1 \in Nat /\ MaxStreak \in Nat
  BY DEF WatchdogConstants
<1>2. \E x \in {n + 1, MaxStreak} : \A y \in {n + 1, MaxStreak} : x <= y
  BY <1>1
<1>3. /\ Watchdog!Min({n + 1, MaxStreak}) \in {n + 1, MaxStreak}
      /\ \A y \in {n + 1, MaxStreak} : Watchdog!Min({n + 1, MaxStreak}) <= y
  BY <1>1, <1>2 DEF Watchdog!Min
<1> QED BY <1>1, <1>3 DEF WatchdogConstants

\* What the update of a check leaves in its row.
LEMMA RowUpdated ==
    ASSUME WatchdogConstants, NEW c \in Checks, draft[c] \in Watchdog!Row, EscalatesInTime(draft[c]),
           NEW r, r = Watchdog!Updated(c)
    PROVE  /\ r \in Watchdog!Row
           /\ r = [failures |-> 0, escalated |-> FALSE] \/ (r.failures > 0 /\ r.escalated = draft[c].escalated)
           /\ ~Watchdog!Escalates(r) => EscalatesInTime(r)
           /\ Watchdog!Escalates(r) => ~r.escalated /\ r.failures >= Needed
<1> DEFINE n == Watchdog!Min({draft[c].failures + 1, MaxStreak})
<1>1. 0 \in 0..MaxStreak /\ n \in 1..MaxStreak /\ Needed \in Nat \ {0}
  BY StreakMoves DEF Watchdog!Row, WatchdogConstants
<1>2. r = [failures |-> 0, escalated |-> FALSE] \/ r = [draft[c] EXCEPT !.failures = n]
  BY DEF Watchdog!Updated, Watchdog!Counted, Watchdog!Healthy
<1> HIDE DEF n
<1>3. CASE r = [failures |-> 0, escalated |-> FALSE]
  BY <1>1, <1>3 DEF Watchdog!Row, EscalatesInTime, Watchdog!Escalates
<1>4. CASE r = [draft[c] EXCEPT !.failures = n]
  <2>1. /\ r \in Watchdog!Row /\ r.failures = n /\ r.escalated = draft[c].escalated
        /\ n \in Nat /\ n > 0 /\ r.escalated \in BOOLEAN
    BY <1>1, <1>4 DEF Watchdog!Row
  <2> QED BY <1>1, <2>1 DEF EscalatesInTime, Watchdog!Escalates
<1> QED BY <1>2, <1>3, <1>4

LEMMA WatchdogBegins ==
    ASSUME WatchdogConstants, Watchdog!Init
    PROVE  WatchdogInv
BY DEF WatchdogConstants, Watchdog!Init, WatchdogInv, Watchdog!TypeOK, Watchdog!Row, Watchdog!Healthy,
       Watchdog!NoCycle, EscalatesInTime, Alerting

\* A commit of rows that are reset or escalated as they were.
LEMMA CommitKeeps ==
    ASSUME WatchdogConstants, WatchdogInv, NEW rows \in [Checks -> Watchdog!Row], Watchdog!Commit(rows),
           watchdog_cycle' \in {Watchdog!NoCycle, [watchdog_cycle EXCEPT !.at = "escalating"]},
           watchdog_cycle.todo # {} \/ watchdog_cycle' = Watchdog!NoCycle,
           watchdog_cycle.at = "updating",
           \A c \in Checks :
              /\ EscalatesInTime(rows[c])
              /\ \/ rows[c].failures = 0 /\ ~Alerting(c)'
                 \/ rows[c].escalated = watchdog_saved[c].escalated /\ ~Alerting(c)'
                 \/ rows[c].escalated /\ ~watchdog_saved[c].escalated /\ Alerting(c)'
    PROVE  WatchdogInv'
<1>1. /\ watchdog_saved' = rows /\ draft' = rows
      /\ \A c \in Checks : watchdog_told'[c] = IF rows[c].failures = 0 THEN 0 ELSE watchdog_told[c]
      /\ watchdog_told' \in [Checks -> 0..MaxStreak]
      /\ unsent' \subseteq Checks
      /\ \A c \in Checks : c \in unsent' <=> c \in unsent /\ rows[c].failures # 0
  BY DEF Watchdog!Commit, WatchdogInv, Watchdog!TypeOK, WatchdogConstants
<1>2. /\ watchdog_cycle' \in [at : {"asleep", "updating", "escalating"}, failed : SUBSET Checks, todo : SUBSET Checks]
      /\ watchdog_cycle'.at \in {"asleep", "escalating"}
      /\ watchdog_cycle'.at = "escalating" => watchdog_cycle'.todo # {}
  BY DEF WatchdogInv, Watchdog!TypeOK, Watchdog!NoCycle
<1>3. ASSUME NEW c \in Checks
      PROVE  /\ watchdog_told'[c] <= 1
             /\ watchdog_told'[c] = 1 \/ c \in unsent' \/ Alerting(c)' => rows[c].escalated
             /\ rows[c].escalated => watchdog_told'[c] = 1 \/ c \in unsent' \/ Alerting(c)'
             /\ Alerting(c)' => watchdog_told'[c] = 0
  <2>1. /\ watchdog_told[c] <= 1 /\ ~Alerting(c) /\ (watchdog_told[c] = 1 \/ c \in unsent => watchdog_saved[c].escalated)
        /\ watchdog_saved[c].escalated => watchdog_told[c] = 1 \/ c \in unsent
        /\ watchdog_told[c] \in 0..MaxStreak
    BY DEF WatchdogInv, Watchdog!TypeOK, Alerting
  <2>2. rows[c].escalated => rows[c].failures # 0
    BY DEF EscalatesInTime, Watchdog!Row
  <2>3. CASE rows[c].failures = 0
    BY <1>1, <2>2, <2>3
  <2>4. CASE rows[c].failures # 0
    BY <1>1, <2>1, <2>4
  <2> QED BY <2>3, <2>4
<1> QED BY <1>1, <1>2, <1>3 DEF WatchdogInv, Watchdog!TypeOK, EscalatesInTime

LEMMA WatchdogGoesOn ==
    ASSUME WatchdogConstants, WatchdogInv, [Watchdog!Next]_(Watchdog!watchdog)
    PROVE  WatchdogInv'
<1> DEFINE c == Watchdog!Check
<1>1. watchdog_cycle.todo # {} => c \in watchdog_cycle.todo /\ c \in Checks
  BY CheckIsNext DEF WatchdogInv
<1>2. CASE Watchdog!RunChecks
  <2>1. PICK failed \in SUBSET Checks : watchdog_cycle' = [at |-> "updating", failed |-> failed, todo |-> Checks]
    BY <1>2 DEF Watchdog!RunChecks
  <2>2. draft = watchdog_saved /\ watchdog_cycle.at = "asleep" /\ UNCHANGED <<watchdog_saved, draft, watchdog_told, unsent>>
    BY <1>2 DEF Watchdog!RunChecks, WatchdogInv
  <2> QED BY <2>1, <2>2 DEF WatchdogInv, Watchdog!TypeOK, Alerting
<1>3. CASE Watchdog!UpdateCheck
  <2> DEFINE updated == Watchdog!Updated(c)
  <2>1. watchdog_cycle.at = "updating" /\ c \in watchdog_cycle.todo /\ c \in Checks
    BY <1>1, <1>3 DEF Watchdog!UpdateCheck
  <2>2. /\ draft[c] = watchdog_saved[c] /\ draft[c] \in Watchdog!Row /\ EscalatesInTime(draft[c])
        /\ draft \in [Checks -> Watchdog!Row]
    BY <2>1 DEF WatchdogInv, Watchdog!TypeOK
  <2>3. ASSUME NEW r, r = updated
        PROVE  /\ r \in Watchdog!Row
               /\ r = [failures |-> 0, escalated |-> FALSE] \/ (r.failures > 0 /\ r.escalated = draft[c].escalated)
               /\ ~Watchdog!Escalates(r) => EscalatesInTime(r)
               /\ Watchdog!Escalates(r) => ~r.escalated /\ r.failures >= Needed
    BY <2>1, <2>2, <2>3, RowUpdated
  <2> HIDE DEF c, updated
  <2>4. CASE Watchdog!Escalates(updated)
    <3> DEFINE e == [updated EXCEPT !.escalated = TRUE]
               rows == [draft EXCEPT ![c] = e]
    <3>1. Watchdog!Commit(rows) /\ watchdog_cycle' = [watchdog_cycle EXCEPT !.at = "escalating"]
      BY <1>3, <2>4 DEF Watchdog!UpdateCheck, updated, c
    <3>2. /\ updated \in Watchdog!Row /\ updated.failures >= Needed /\ ~draft[c].escalated
      BY <2>3, <2>4 DEF WatchdogConstants
    <3>3. e \in Watchdog!Row /\ e.failures >= Needed /\ e.escalated /\ EscalatesInTime(e)
      <4>1. updated \in [failures : 0..MaxStreak, escalated : BOOLEAN] /\ updated.failures \in Nat /\ updated.failures > 0
        BY <3>2 DEF Watchdog!Row, WatchdogConstants
      <4>2. e \in Watchdog!Row /\ e.failures = updated.failures /\ e.escalated = TRUE
        BY <4>1 DEF Watchdog!Row
      <4> HIDE DEF e
      <4> QED BY <3>2, <4>1, <4>2 DEF EscalatesInTime
    <3> HIDE DEF e
    <3>4. rows \in [Checks -> Watchdog!Row] /\ rows[c] = e /\ \A d \in Checks \ {c} : rows[d] = draft[d]
      BY <2>1, <2>2, <3>3
    <3>5. watchdog_cycle'.at = "escalating" /\ watchdog_cycle'.todo = watchdog_cycle.todo
      BY <3>1 DEF WatchdogInv
    <3>6. \A d \in Checks : Alerting(d)' <=> d = c
      BY <3>5 DEF Alerting, c, Watchdog!Check
    <3> HIDE DEF rows
    <3>7. ASSUME NEW d \in Checks
          PROVE  /\ EscalatesInTime(rows[d])
                 /\ \/ rows[d].failures = 0 /\ ~Alerting(d)'
                    \/ rows[d].escalated = watchdog_saved[d].escalated /\ ~Alerting(d)'
                    \/ rows[d].escalated /\ ~watchdog_saved[d].escalated /\ Alerting(d)'
      <4>1. CASE d = c
        BY <2>2, <3>2, <3>3, <3>4, <3>6, <4>1
      <4>2. CASE d # c
        BY <3>4, <3>6, <4>2 DEF WatchdogInv
      <4> QED BY <4>1, <4>2
    <3> QED BY <2>1, <3>1, <3>4, <3>7, CommitKeeps
  <2>5. CASE ~Watchdog!Escalates(updated)
    <3>1. /\ draft' = [draft EXCEPT ![c] = updated]
          /\ watchdog_cycle' = [watchdog_cycle EXCEPT !.todo = watchdog_cycle.todo \ {c}]
          /\ UNCHANGED <<watchdog_saved, watchdog_told, unsent>>
      BY <1>3, <2>5 DEF Watchdog!UpdateCheck, updated, c
    <3>2. updated \in Watchdog!Row /\ EscalatesInTime(updated) /\ (updated.failures = 0 \/ updated.escalated = watchdog_saved[c].escalated)
      BY <2>2, <2>3, <2>5
    <3>3. /\ watchdog_cycle' \in [at : {"asleep", "updating", "escalating"}, failed : SUBSET Checks, todo : SUBSET Checks]
          /\ watchdog_cycle'.at = "updating" /\ watchdog_cycle'.todo = watchdog_cycle.todo \ {c}
      BY <2>1, <3>1 DEF WatchdogInv
    <3>4. draft' \in [Checks -> Watchdog!Row] /\ draft'[c] = updated /\ \A d \in Checks \ {c} : draft'[d] = draft[d]
      BY <2>1, <2>2, <3>1, <3>2
    <3>5. \A d \in Checks : ~Alerting(d) /\ ~Alerting(d)'
      BY <2>1, <3>3 DEF Alerting
    <3>6. ASSUME NEW d \in Checks
          PROVE  /\ EscalatesInTime(draft'[d])
                 /\ d \in watchdog_cycle'.todo => draft'[d] = watchdog_saved[d]
                 /\ draft'[d].failures = 0 \/ draft'[d].escalated = watchdog_saved[d].escalated
      <4>1. CASE d = c
        BY <3>2, <3>3, <3>4, <4>1
      <4>2. CASE d # c
        BY <3>3, <3>4, <4>2 DEF WatchdogInv
      <4> QED BY <4>1, <4>2
    <3> HIDE DEF updated
    <3> QED BY <3>1, <3>3, <3>4, <3>5, <3>6 DEF WatchdogInv, Watchdog!TypeOK, EscalatesInTime
  <2> QED BY <2>4, <2>5
<1>4. CASE Watchdog!Escalate
  <2>1. /\ watchdog_cycle.at = "escalating" /\ c \in watchdog_cycle.todo /\ c \in Checks /\ Alerting(c)
        /\ draft = watchdog_saved /\ UNCHANGED <<watchdog_saved, draft, unsent>>
    BY <1>1, <1>4 DEF Watchdog!Escalate, WatchdogInv, Alerting
  <2>2. watchdog_told[c] = 0 /\ watchdog_saved[c].escalated
    BY <2>1 DEF WatchdogInv
  <2>3. Watchdog!Min({watchdog_told[c] + 1, MaxStreak}) = 1
    <3>1. 0 \in 0..MaxStreak
      BY DEF WatchdogConstants
    <3>2. Watchdog!Min({0 + 1, MaxStreak}) \in 1..MaxStreak /\ Watchdog!Min({0 + 1, MaxStreak}) <= 0 + 1
      BY <3>1, StreakMoves
    <3> QED BY <2>2, <3>2
  <2>4. watchdog_told' = [watchdog_told EXCEPT ![c] = 1]
    BY <1>4, <2>3 DEF Watchdog!Escalate
  <2>5. watchdog_cycle' = [watchdog_cycle EXCEPT !.at = "updating", !.todo = watchdog_cycle.todo \ {c}]
    BY <1>4 DEF Watchdog!Escalate
  <2>6. /\ watchdog_cycle' \in [at : {"asleep", "updating", "escalating"}, failed : SUBSET Checks, todo : SUBSET Checks]
        /\ watchdog_cycle'.at = "updating" /\ watchdog_cycle'.todo \subseteq watchdog_cycle.todo
    BY <2>5 DEF WatchdogInv
  <2>7. \A d \in Checks : ~Alerting(d)' /\ (Alerting(d) <=> d = c)
    BY <2>1, <2>6 DEF Alerting
  <2>8. watchdog_told' \in [Checks -> 0..MaxStreak] /\ watchdog_told'[c] = 1 /\ \A d \in Checks \ {c} : watchdog_told'[d] = watchdog_told[d]
    BY <2>1, <2>4 DEF WatchdogInv, Watchdog!TypeOK, WatchdogConstants
  <2> HIDE DEF c
  <2> QED BY <2>1, <2>2, <2>6, <2>7, <2>8 DEF WatchdogInv, Watchdog!TypeOK, EscalatesInTime
<1>5. CASE Watchdog!EndCycle
  <2>1. /\ Watchdog!Commit(draft) /\ watchdog_cycle' = Watchdog!NoCycle /\ watchdog_cycle.at = "updating"
        /\ draft \in [Checks -> Watchdog!Row]
    BY <1>5 DEF Watchdog!EndCycle, WatchdogInv, Watchdog!TypeOK
  <2>2. \A d \in Checks : ~Alerting(d)'
    BY <2>1 DEF Alerting, Watchdog!NoCycle
  <2> QED BY <2>1, <2>2, CommitKeeps DEF WatchdogInv
<1>6. CASE Watchdog!CycleFails
  <2>1. /\ draft' = watchdog_saved /\ UNCHANGED <<watchdog_saved, watchdog_told>> /\ watchdog_cycle' = Watchdog!NoCycle
        /\ watchdog_cycle.at # "asleep"
        /\ unsent' = IF watchdog_cycle.at = "escalating" THEN unsent \cup {c} ELSE unsent
    BY <1>6 DEF Watchdog!CycleFails
  <2>2. watchdog_cycle'.at = "asleep" /\ watchdog_cycle'.todo = {} /\ watchdog_cycle'.failed = {} /\ \A d \in Checks : ~Alerting(d)'
    BY <2>1 DEF Watchdog!NoCycle, Alerting
  <2>3. \A d \in Checks : d \in unsent' <=> d \in unsent \/ Alerting(d)
    BY <2>1 DEF Alerting
  <2>4. unsent' \subseteq Checks
    BY <1>1, <2>1 DEF WatchdogInv, Watchdog!TypeOK
  <2>5. watchdog_cycle' \in [at : {"asleep", "updating", "escalating"}, failed : SUBSET Checks, todo : SUBSET Checks]
    BY <2>1 DEF Watchdog!NoCycle
  <2> QED BY <2>1, <2>2, <2>3, <2>4, <2>5 DEF WatchdogInv, Watchdog!TypeOK, EscalatesInTime
<1>7. CASE UNCHANGED Watchdog!watchdog
  <2>1. UNCHANGED <<watchdog_saved, draft, watchdog_cycle, watchdog_told, unsent>>
    BY <1>7 DEF Watchdog!watchdog
  <2>2. \A d \in Checks : Alerting(d)' <=> Alerting(d)
    BY <2>1 DEF Alerting, Watchdog!Check
  <2> QED BY <2>1, <2>2 DEF WatchdogInv, Watchdog!TypeOK, EscalatesInTime
<1> QED BY <1>2, <1>3, <1>4, <1>5, <1>6, <1>7 DEF Watchdog!Next

\* For every set of checks and every number of failures needed: a streak of failures that reaches the
\* threshold is told once and no streak is lost, although the rows are committed before the alerts go out
\* and the process may die between two of them (what was cut short is in unsent).
THEOREM StreaksAreTold ==
    ASSUME WatchdogConstants
    PROVE  Watchdog!Init /\ [][Watchdog!Next]_(Watchdog!watchdog) =>
               [](Watchdog!TypeOK /\ Watchdog!OneAlertPerStreak /\ Watchdog!NoSilentStreak)
<1>1. Watchdog!Init => WatchdogInv
  BY WatchdogBegins
<1>2. WatchdogInv /\ [Watchdog!Next]_(Watchdog!watchdog) => WatchdogInv'
  BY WatchdogGoesOn
<1>3. WatchdogInv => Watchdog!TypeOK
  BY DEF WatchdogInv
<1>4. WatchdogInv => Watchdog!OneAlertPerStreak /\ Watchdog!NoSilentStreak
  <2> SUFFICES ASSUME WatchdogInv, NEW c \in Checks
               PROVE  /\ watchdog_told[c] <= 1
                      /\ watchdog_saved[c].failures >= Needed =>
                            watchdog_saved[c].escalated /\ (watchdog_told[c] = 1 \/ c \in unsent \/ Alerting(c))
    BY DEF Watchdog!OneAlertPerStreak, Watchdog!NoSilentStreak, Alerting
  <2> QED BY DEF WatchdogInv, EscalatesInTime
<1> QED BY <1>1, <1>2, <1>3, <1>4, PTL

-----------------------------------------------------------------------------
(* The broker session (BrokerSession): one client, many threads.             *)
CONSTANTS Callers, LoginCooldown, Refresh, Retries
VARIABLES client, sinceLogin, sinceCold, lock, call

Session == INSTANCE BrokerSession WITH Threads <- Callers, Cooldown <- LoginCooldown

\* Assumed of the constants: periods and counts are naturals, and nobody is no thread.
SessionConstants ==
    /\ LoginCooldown \in Nat /\ Refresh \in Nat /\ Retries \in Nat /\ "nobody" \notin Callers

SessionInv == Session!TypeOK /\ Session!NoHalfMadeClient

LEMMA CooldownMoves ==
    ASSUME SessionConstants, NEW n \in 0..LoginCooldown
    PROVE  Session!Min({n + 1, LoginCooldown}) \in 0..LoginCooldown
<1>1. n + 1 \in Nat /\ LoginCooldown \in Nat
  BY DEF SessionConstants
<1>2. \E x \in {n + 1, LoginCooldown} : \A y \in {n + 1, LoginCooldown} : x <= y
  BY <1>1
<1>3. /\ Session!Min({n + 1, LoginCooldown}) \in {n + 1, LoginCooldown}
      /\ \A y \in {n + 1, LoginCooldown} : Session!Min({n + 1, LoginCooldown}) <= y
  BY <1>1, <1>2 DEF Session!Min
<1> QED BY <1>1, <1>3

\* A call is a record: what a step changes of one, and what it keeps of the others.
LEMMA SessionGoesOn ==
    ASSUME SessionConstants, SessionInv, [Session!Next]_(Session!broker)
    PROVE  SessionInv'
<1> DEFINE Calls == [Callers -> Session!Call]
           Busy  == {"signing", "resigning"}
<1>0. /\ Session!Idle \in Session!Call /\ Session!Idle.at = "idle" /\ call \in Calls
      /\ Session!Never \in Nat /\ Session!Never = Refresh + 2
      /\ client \in Session!Clients /\ lock \in Callers \cup {"nobody"}
      /\ sinceLogin \in 0..Session!Never /\ sinceCold \in 0..LoginCooldown
      /\ client = "raw" => \E t \in Callers : call[t].at \in Busy
      /\ Refresh \in Nat /\ LoginCooldown \in Nat /\ Retries \in Nat
  BY DEF SessionInv, Session!TypeOK, Session!NoHalfMadeClient, Session!Idle, Session!Call, SessionConstants,
         Session!Never, Session!Clients, Session!Nobody
\* A step of one thread that keeps the client.
<1>1. ASSUME NEW t \in Callers, NEW c \in Session!Call, call' = [call EXCEPT ![t] = c],
             call[t].at \notin Busy, UNCHANGED <<client, sinceLogin>>,
             lock' \in Callers \cup {"nobody"}, sinceCold' \in 0..LoginCooldown
      PROVE  SessionInv'
  <2>1. call' \in Calls
    BY <1>0, <1>1
  <2>2. \A u \in Callers : call[u].at \in Busy => call'[u] = call[u]
    BY <1>0, <1>1
  <2> QED BY <1>0, <1>1, <2>1, <2>2 DEF SessionInv, Session!TypeOK, Session!NoHalfMadeClient, Session!Nobody
\* A step that leaves a client that is not raw, or one that a thread is about to log in.
<1>2. ASSUME call' \in Calls, client' \in Session!Clients, lock' \in Callers \cup {"nobody"},
             sinceLogin' \in 0..Session!Never, sinceCold' \in 0..LoginCooldown,
             client' = "raw" => \E t \in Callers : call'[t].at \in Busy
      PROVE  SessionInv'
  BY <1>2 DEF SessionInv, Session!TypeOK, Session!NoHalfMadeClient, Session!Nobody
<1> HIDE DEF Calls, Busy
<1>3. ASSUME NEW t \in Callers, Session!Step(t)
      PROVE  SessionInv'
  <2> USE <1>0 DEF Calls
  <2>1. CASE Session!Begin(t)
    <3>1. PICK twice \in BOOLEAN : call' = [call EXCEPT ![t] = [Session!Idle EXCEPT !.at = "ensure", !.again = twice]]
      BY <2>1 DEF Session!Begin
    <3>2. [Session!Idle EXCEPT !.at = "ensure", !.again = twice] \in Session!Call
      BY DEF Session!Call
    <3> QED BY <1>1, <2>1, <3>1, <3>2 DEF Session!Begin, Session!At, Busy
  <2> DEFINE Moved(to) == [call[t] EXCEPT !.at = to]
  <2>m. /\ Moved("cold") \in Session!Call /\ Moved("refresh") \in Session!Call /\ Moved("ready") \in Session!Call
        /\ Moved("locked") \in Session!Call /\ Moved("relogin") \in Session!Call /\ Moved("retrying") \in Session!Call
    BY DEF Session!Call
  <2>g. \A to : Session!GoTo(t, to) <=> call' = [call EXCEPT ![t] = Moved(to)]
    BY DEF Session!GoTo
  <2> HIDE DEF Moved
  <2>2. CASE Session!Ensure(t)
    BY <1>1, <2>2, <2>m, <2>g DEF Session!Ensure, Session!At, Busy
  <2>3. CASE Session!LockToRefresh(t)
    BY <1>1, <2>3, <2>m, <2>g DEF Session!LockToRefresh, Session!At, Busy
  <2>4. CASE Session!LockWhenCold(t)
    BY <1>1, <2>4, <2>m, <2>g DEF Session!LockWhenCold, Session!At, Busy
  <2>5. ASSUME NEW from, NEW to \in {"signing", "resigning"}, Session!Construct(t, from, to)
        PROVE  SessionInv'
    <3>1. call' = [u \in Callers |-> [call[u] EXCEPT !.same = FALSE, !.at = IF u = t THEN to ELSE call[u].at]]
          /\ client' = "raw" /\ UNCHANGED <<sinceLogin, sinceCold, lock>>
      BY <2>5 DEF Session!Construct
    <3>2. \A u \in Callers : [call[u] EXCEPT !.same = FALSE, !.at = IF u = t THEN to ELSE call[u].at] \in Session!Call
      BY <2>5 DEF Session!Call
    <3>3. call' \in Calls /\ call'[t].at = to
      BY <3>1, <3>2 DEF Session!Call
    <3> QED BY <1>2, <2>5, <3>1, <3>3 DEF Session!Clients, Busy
  <2>6. ASSUME NEW from, NEW next \in {"ready", "retrying"}, Session!SignIn(t, from, next)
        PROVE  SessionInv'
    <3>1. /\ client' = "live" /\ sinceLogin' = 0 /\ lock' \in {lock, "nobody"} /\ sinceCold' = sinceCold
          /\ call' = [u \in Callers |-> [call[u] EXCEPT !.fn = IF call[u].same THEN "live" ELSE call[u].fn,
                                                        !.at = IF u = t THEN next ELSE call[u].at]]
      BY <2>6 DEF Session!SignIn, Session!Nobody
    <3>2. \A u \in Callers : [call[u] EXCEPT !.fn = IF call[u].same THEN "live" ELSE call[u].fn,
                                             !.at = IF u = t THEN next ELSE call[u].at] \in Session!Call
      BY <2>6 DEF Session!Call, Session!Clients
    <3>3. call' \in Calls
      BY <3>1, <3>2
    <3>4. client' \in Session!Clients /\ client' # "raw"
      BY <3>1 DEF Session!Clients
    <3>5. lock' \in Callers \cup {"nobody"} /\ sinceCold' \in 0..LoginCooldown
      BY <3>1
    <3>6. sinceLogin' \in 0..Session!Never
      <4>1. 0 \in 0..Session!Never
        OBVIOUS
      <4> QED BY <3>1, <4>1
    <3> QED BY <1>2, <3>3, <3>4, <3>5, <3>6
  <2>7. ASSUME NEW from, NEW next \in {"ready", "idle"}, Session!SignInFails(t, from, next)
        PROVE  SessionInv'
    <3>1. /\ client' = "none" /\ UNCHANGED <<sinceLogin, sinceCold>> /\ lock' \in {lock, "nobody"}
          /\ call' = [Session!Detached EXCEPT ![t] = IF next = "idle" THEN Session!Idle
                                                     ELSE [Session!Detached[t] EXCEPT !.at = next]]
      BY <2>7 DEF Session!SignInFails, Session!Nobody
    <3>2. Session!Detached \in Calls
      BY DEF Session!Detached, Session!Call
    <3>3. [Session!Detached[t] EXCEPT !.at = "ready"] \in Session!Call
      BY <3>2 DEF Session!Call
    <3>4. call' \in Calls
      BY <2>7, <3>1, <3>2, <3>3
    <3> QED BY <1>2, <3>1, <3>4 DEF Session!Clients
  <2>8. CASE Session!Bind(t)
    <3>1. PICK c \in {Session!Idle, [call[t] EXCEPT !.at = "ensure", !.again = FALSE],
                      [Session!Idle EXCEPT !.at = "calling", !.fn = client, !.same = TRUE]} :
                call' = [call EXCEPT ![t] = c]
      BY <2>8 DEF Session!Bind, Session!Return
    <3>2. c \in Session!Call
      BY ZenonT(30), <3>1 DEF Session!Call
    <3> QED BY <1>1, <2>8, <3>1, <3>2 DEF Session!Bind, Session!At, Busy
  <2>9. CASE Session!Answered(t)
    BY <1>1, <2>9 DEF Session!Answered, Session!Return, Session!At, Busy
  <2>10. CASE Session!RateLimited(t)
    <3>1. CASE call[t].tries < Retries
      <4>1. call' = [call EXCEPT ![t] = [call[t] EXCEPT !.tries = call[t].tries + 1]]
        BY <2>10, <3>1 DEF Session!RateLimited
      <4>2. [call[t] EXCEPT !.tries = call[t].tries + 1] \in Session!Call
        BY <3>1 DEF Session!Call
      <4> QED BY <1>1, <2>10, <4>1, <4>2 DEF Session!RateLimited, Session!At, Busy
    <3>2. CASE ~(call[t].tries < Retries)
      BY <1>1, <2>10, <3>2 DEF Session!RateLimited, Session!Return, Session!At, Busy
    <3> QED BY <3>1, <3>2
  <2>11. CASE Session!SessionError(t)
    BY <1>1, <2>11, <2>m, <2>g DEF Session!SessionError, Session!At, Busy
  <2>12. CASE Session!Retried(t)
    BY <1>1, <2>12 DEF Session!Retried, Session!Return, Session!At, Busy
  <2>13. CASE Session!Accepted(t) \/ Session!Refused(t) \/ Session!Construct(t, "locked", "signing")
              \/ Session!Construct(t, "relogin", "resigning")
    BY <2>5, <2>6, <2>7, <2>13 DEF Session!Accepted, Session!Refused
  <2> QED BY <1>3, <2>1, <2>2, <2>3, <2>4, <2>8, <2>9, <2>10, <2>11, <2>12, <2>13 DEF Session!Step
<1>4. CASE Session!Expire
  <2>1. /\ client' = "dead" /\ UNCHANGED <<sinceLogin, sinceCold, lock>>
        /\ call' = [u \in Callers |-> [call[u] EXCEPT !.fn = IF call[u].fn = "live" THEN "dead" ELSE call[u].fn]]
    BY <1>4 DEF Session!Expire
  <2>2. call' \in Calls
    BY <1>0, <2>1 DEF Session!Call, Session!Clients, Calls
  <2> QED BY <1>0, <1>2, <2>1, <2>2 DEF Session!Clients
<1>5. CASE Session!Elapse
  <2>1. sinceCold' \in 0..LoginCooldown /\ UNCHANGED <<client, lock, call>>
    BY <1>0, <1>5, CooldownMoves DEF Session!Elapse
  <2>2. sinceLogin' \in 0..Session!Never
    BY <1>0, <1>5 DEF Session!Elapse
  <2> QED BY <1>0, <1>2, <2>1, <2>2 DEF Calls, Busy
<1>6. CASE UNCHANGED Session!broker
  BY <1>6 DEF Session!broker, SessionInv, Session!TypeOK, Session!NoHalfMadeClient
<1> QED BY <1>3, <1>4, <1>5, <1>6 DEF Session!Next

\* For any number of threads, retries and any cooldown: no thread reads a client whose login is not
\* complete, although the client is a global that every thread may replace.
THEOREM NoHalfLogin ==
    ASSUME SessionConstants
    PROVE  Session!Init /\ [][Session!Next]_(Session!broker) => [](Session!TypeOK /\ Session!NoHalfMadeClient)
<1>1. Session!Init => SessionInv
  BY DEF Session!Init, SessionInv, Session!TypeOK, Session!NoHalfMadeClient, Session!Idle, Session!Call,
         Session!Clients, Session!Never, Session!Nobody, SessionConstants
<1>2. SessionInv /\ [Session!Next]_(Session!broker) => SessionInv'
  BY SessionGoesOn
<1>3. SessionInv => Session!TypeOK /\ Session!NoHalfMadeClient
  BY DEF SessionInv
<1> QED BY <1>1, <1>2, <1>3, PTL

-----------------------------------------------------------------------------
(* The agents that a workflow's stages are run by (AgentStatus): their rows  *)
(* in agent_status, their cycles, faults and healing.                        *)
CONSTANTS Agents, Orchestrated, Gated, Unschedulable, SysAdmin, Operators, Cadence, Limit, FullHealth,
          MaxFailures, MaxFaults, MaxChanges
VARIABLES status_row, status_job, status_loop, escalated, orphaned, spent

Status == INSTANCE AgentStatus WITH
    row <- status_row, job <- status_job, loop <- status_loop, Never <- Unschedulable,
    NoAgent <- Nothing

\* Assumed of the constants: finitely many agents, distinct names, and a limit of at least one failure.
StatusConstants ==
    /\ IsFiniteSet(Agents) /\ Orchestrated \subseteq Agents /\ Nothing \notin Agents
    /\ "loop" \notin Operators
    /\ Limit \in Nat \ {0}
    /\ {Cadence, FullHealth, MaxFailures, MaxFaults, MaxChanges} \subseteq Nat

Job     == [agent : Agents, change : Status!Changes, seen : Status!Row]
LoopRow == [at : Status!Places, agent : Agents \cup {Nothing}, due : Seq(Agents), heals : SUBSET Orchestrated,
            ok : BOOLEAN]

\* A change that does not say running.
Quiet(change) == "running" \notin DOMAIN change

StatusTyped ==
    /\ status_row \in [Agents -> Status!Row]
    /\ status_job \in [Status!Threads -> {Status!NoJob} \cup Job]
    /\ status_loop \in LoopRow
    /\ escalated \subseteq Agents /\ orphaned \subseteq Agents
    /\ spent \in [faults : 0..MaxFaults, changes : 0..MaxChanges]

\* The loop is in a cycle when it has an agent.  Only its first write says running, and it says so of the
\* agent whose cycle begins; a failure about to be recorded has room in the counter.
LoopInv ==
    /\ status_loop.at \in Status!Cycle <=> status_loop.agent # Nothing
    /\ status_loop.at = "mark" => status_job["loop"] # Status!NoJob /\ status_job["loop"].agent = status_loop.agent
    /\ status_loop.at # "mark" => status_job["loop"] = Status!NoJob \/ Quiet(status_job["loop"].change)
    /\ \A o \in Operators : status_job[o] = Status!NoJob \/ Quiet(status_job[o].change)
    /\ status_loop.at \in {"mark", "beat", "work"} => status_loop.ok
    /\ status_loop.at = "record" /\ ~status_loop.ok => status_row[status_loop.agent].failures < MaxFailures

StatusInv ==
    /\ StatusTyped /\ LoopInv
    /\ Status!RunningIsHonest /\ Status!EscalatedInTime /\ Status!ScoreFollowsFailures

LEMMA NoJobIsNone == ASSUME StatusConstants PROVE Status!NoJob \notin Job
BY DEF StatusConstants, Job, Status!NoJob

\* What a write leaves of a row.
LEMMA WrittenRow ==
    ASSUME StatusConstants, NEW old \in Status!Row, NEW read \in Status!Row, NEW change \in Status!Changes,
           NEW r, r = Status!Written(old, read, change)
    PROVE  /\ r \in Status!Row
           /\ r.failures = old.failures
           /\ r.score = old.score
           /\ Quiet(change) /\ r.running => old.running
<1>1. CASE change \in [running : {TRUE}]
  <2>1. "running" \in DOMAIN change
    BY <1>1
  <2> QED BY <2>1 DEF Status!Written, Status!Row, Quiet
<1>2. CASE change \in [enabled : BOOLEAN] \cup [crashed : BOOLEAN] \cup [mode : Status!Modes] \cup [heartbeat : {TRUE}]
  <2>1. "running" \notin DOMAIN change
    <3>1. DOMAIN change \in {{"enabled"}, {"crashed"}, {"mode"}, {"heartbeat"}}
      BY <1>2
    <3> QED BY <3>1
  <2>2. r = Status!Merged(old, read, change)
    BY <2>1 DEF Status!Written
  <2>3. /\ "enabled" \in DOMAIN change => change.enabled \in BOOLEAN
        /\ "crashed" \in DOMAIN change => change.crashed \in BOOLEAN
        /\ "mode" \in DOMAIN change => change.mode \in Status!Modes
    BY <1>2
  <2>4. PICK e \in BOOLEAN, c \in BOOLEAN, m \in Status!Modes :
            r = [old EXCEPT !.there = TRUE, !.enabled = e, !.crashed = c, !.mode = m]
    <3>1. read.enabled \in BOOLEAN /\ read.crashed \in BOOLEAN /\ read.mode \in Status!Modes
      BY DEF Status!Row
    <3> QED BY <2>2, <2>3, <3>1 DEF Status!Merged
  <2> QED BY <2>4 DEF Status!Row
<1> QED BY <1>1, <1>2 DEF Status!Changes

\* The agents that are due are listed in some order.
LEMMA DueListed ==
    ASSUME StatusConstants, NEW S \in SUBSET Agents
    PROVE  Status!SetToSeq(S) \in Seq(Agents)
<1>1. IsFiniteSet(S) /\ Status!Cardinality(S) = Cardinality(S)
  BY FS_Subset DEF StatusConstants, Status!Cardinality, Cardinality
<1>2. Cardinality(S) \in Nat /\ ExistsBijection(1..Cardinality(S), S)
  BY <1>1, FS_CardinalityType
<1>3. PICK f \in [1..Cardinality(S) -> S] : \A i, j \in 1..Cardinality(S) : f[i] = f[j] => i = j
  BY <1>2 DEF ExistsBijection, Bijection, Injection, IsInjective
<1>4. Status!IsInjective(f)
  BY <1>3 DEF Status!IsInjective
<1>5. Status!SetToSeq(S) \in [1..Cardinality(S) -> S]
  BY <1>1, <1>3, <1>4 DEF Status!SetToSeq
<1>6. Status!SetToSeq(S) \in Seq(S)
  BY <1>2, <1>5
<1> QED BY <1>2, <1>5

LEMMA StatusBegins ==
    ASSUME StatusConstants, Status!Init
    PROVE  StatusInv
<1>1. /\ status_row = [a \in Agents |-> Status!NoRow] /\ status_job = [t \in Status!Threads |-> Status!NoJob]
      /\ status_loop = Status!Rest /\ escalated = {} /\ orphaned = {} /\ spent = [faults |-> 0, changes |-> 0]
  BY DEF Status!Init
<1>2. /\ Status!NoRow \in Status!Row /\ Status!NoRow.running = FALSE /\ Status!NoRow.failures = 0
      /\ Status!NoRow.score = FullHealth
  BY DEF Status!NoRow, Status!Row, StatusConstants, Status!Ages, Status!Modes
<1>3. Status!Rest \in LoopRow /\ Status!Rest.at = "out" /\ Status!Rest.agent = Nothing
  BY DEF Status!Rest, LoopRow, Status!Places
<1>4. "loop" \in Status!Threads /\ Operators \subseteq Status!Threads
  BY DEF Status!Threads, Status!Loop
<1>5. StatusTyped
  BY <1>1, <1>2, <1>3 DEF StatusTyped, StatusConstants
<1>6. LoopInv
  BY <1>1, <1>3, <1>4 DEF LoopInv, Status!Cycle, Status!Marking, Status!Failing
<1>7. Status!RunningIsHonest /\ Status!EscalatedInTime /\ Status!ScoreFollowsFailures
  BY <1>1, <1>2 DEF Status!RunningIsHonest, Status!EscalatedInTime, Status!ScoreFollowsFailures, StatusConstants
<1> QED BY <1>5, <1>6, <1>7 DEF StatusInv

LEMMA ReadsFacts ==
    ASSUME StatusConstants, StatusInv, NEW t \in Status!Threads, NEW a \in Agents, NEW change \in Status!Changes,
           Status!Reads(t, a, change)
    PROVE  /\ status_job' \in [Status!Threads -> {Status!NoJob} \cup Job] /\ status_job[t] = Status!NoJob
           /\ status_job'[t] # Status!NoJob /\ status_job'[t].agent = a /\ status_job'[t].change = change
           /\ \A u \in Status!Threads \ {t} : status_job'[u] = status_job[u]
<1>1. [agent |-> a, change |-> change, seen |-> status_row[a]] \in Job
  BY DEF StatusInv, StatusTyped, Job
<1> QED BY <1>1, NoJobIsNone DEF Status!Reads, StatusInv, StatusTyped

LEMMA WritesFacts ==
    ASSUME StatusConstants, StatusInv, NEW t \in Status!Threads, Status!Writes(t)
    PROVE  /\ status_row' \in [Agents -> Status!Row]
           /\ status_job' \in [Status!Threads -> {Status!NoJob} \cup Job]
           /\ status_job[t] \in Job /\ status_job'[t] = Status!NoJob
           /\ \A u \in Status!Threads \ {t} : status_job'[u] = status_job[u]
           /\ \A a \in Agents : /\ status_row'[a].failures = status_row[a].failures
                                /\ status_row'[a].score = status_row[a].score
                                /\ status_row'[a].running =>
                                     status_row[a].running \/ (a = status_job[t].agent /\ ~Quiet(status_job[t].change))
<1> DEFINE j == status_job[t]
<1>1. j \in Job /\ status_row \in [Agents -> Status!Row] /\ status_job \in [Status!Threads -> {Status!NoJob} \cup Job]
  BY DEF Status!Writes, StatusInv, StatusTyped
<1>2. j.agent \in Agents /\ j.change \in Status!Changes /\ j.seen \in Status!Row
  BY <1>1 DEF Job
<1>3. PICK r : r = Status!Written(status_row[j.agent], j.seen, j.change)
  OBVIOUS
<1>4. status_row' = [status_row EXCEPT ![j.agent] = r] /\ status_job' = [status_job EXCEPT ![t] = Status!NoJob]
  BY <1>3 DEF Status!Writes
<1>5. /\ r \in Status!Row
      /\ r.failures = status_row[j.agent].failures /\ r.score = status_row[j.agent].score
      /\ Quiet(j.change) /\ r.running => status_row[j.agent].running
  <2>1. status_row[j.agent] \in Status!Row
    BY <1>1, <1>2
  <2>2. ASSUME NEW old \in Status!Row, NEW read \in Status!Row, NEW change \in Status!Changes,
               r = Status!Written(old, read, change)
        PROVE  /\ r \in Status!Row /\ r.failures = old.failures /\ r.score = old.score
               /\ Quiet(change) /\ r.running => old.running
    BY <2>2, WrittenRow DEF Status!Row
  <2> HIDE DEF j
  <2> QED BY <1>2, <1>3, <2>1, <2>2
<1> HIDE DEF j
<1>6. ASSUME NEW a \in Agents
      PROVE  /\ status_row'[a].failures = status_row[a].failures
             /\ status_row'[a].score = status_row[a].score
             /\ status_row'[a].running => status_row[a].running \/ (a = j.agent /\ ~Quiet(j.change))
  BY <1>1, <1>2, <1>4, <1>5
<1> QED BY <1>1, <1>2, <1>4, <1>5, <1>6 DEF j

\* A step that counts no result: the properties stay when nobody starts to run outside the cycle's
\* places, and a cycle that is left is an orphan.
LEMMA PropertiesStay ==
    ASSUME StatusInv,
           \A a \in Agents :
              /\ status_row'[a].failures = status_row[a].failures
              /\ status_row'[a].score = status_row[a].score
              /\ status_row'[a].running =>
                    status_row[a].running \/ (status_loop'.agent = a /\ status_loop'.at \in {"beat", "work", "record"})
              /\ status_loop.agent = a /\ status_loop.at \in Status!Cycle =>
                    \/ a \in orphaned'
                    \/ /\ status_loop'.agent = a /\ status_loop'.at \in Status!Cycle
                       /\ status_loop.at \in {"beat", "work", "record"} => status_loop'.at \in {"beat", "work", "record"},
           escalated \subseteq escalated', orphaned \subseteq orphaned'
    PROVE  Status!RunningIsHonest' /\ Status!EscalatedInTime' /\ Status!ScoreFollowsFailures'
<1>1. {"beat", "work", "record"} \subseteq Status!Cycle
  BY DEF Status!Cycle, Status!Marking
<1>2. Status!RunningIsHonest'
  BY <1>1 DEF StatusInv, Status!RunningIsHonest
<1>3. Status!EscalatedInTime'
  BY DEF StatusInv, Status!EscalatedInTime
<1>4. Status!ScoreFollowsFailures'
  BY DEF StatusInv, Status!ScoreFollowsFailures
<1> QED BY <1>2, <1>3, <1>4

LEMMA StatusFacts ==
    ASSUME StatusConstants, StatusInv
    PROVE  /\ "loop" \in Status!Threads /\ Operators \subseteq Status!Threads
           /\ \A o \in Operators : o # "loop"
           /\ Status!Loop = "loop"
           /\ status_row \in [Agents -> Status!Row]
           /\ status_job \in [Status!Threads -> {Status!NoJob} \cup Job]
           /\ status_loop \in LoopRow /\ escalated \subseteq Agents /\ orphaned \subseteq Agents
           /\ spent \in [faults : 0..MaxFaults, changes : 0..MaxChanges]
           /\ MaxFaults \in Nat /\ MaxChanges \in Nat /\ Nothing \notin Agents
           /\ status_loop.at \in Status!Places /\ status_loop.agent \in Agents \cup {Nothing}
           /\ Status!Cycle = {"mark", "beat", "work", "record", "emit", "crash", "heal", "escalate"}
           /\ Status!Places = {"mark", "beat", "work", "record", "emit", "crash", "heal", "escalate",
                               "out", "pick", "drain", "dead"}
           /\ Status!Rest \in LoopRow /\ Status!Rest.at = "out" /\ Status!Rest.agent = Nothing
BY DEF StatusConstants, StatusInv, StatusTyped, LoopRow, Status!Threads, Status!Loop, Status!Cycle, Status!Marking,
       Status!Failing, Status!Places, Status!Rest

\* A step of the loop that writes no row.
LEMMA LoopMoves ==
    ASSUME StatusConstants, StatusInv, UNCHANGED <<status_row, escalated>>,
           status_loop' \in LoopRow,
           status_job' \in [Status!Threads -> {Status!NoJob} \cup Job],
           \A o \in Operators : status_job'[o] = status_job[o],
           spent' \in [faults : 0..MaxFaults, changes : 0..MaxChanges],
           status_loop'.at \in Status!Cycle <=> status_loop'.agent # Nothing,
           status_loop'.at = "mark" => status_job'["loop"] # Status!NoJob /\ status_job'["loop"].agent = status_loop'.agent,
           status_loop'.at # "mark" => status_job'["loop"] = Status!NoJob \/ Quiet(status_job'["loop"].change),
           status_loop'.at \in {"mark", "beat", "work"} => status_loop'.ok,
           status_loop'.at = "record" /\ ~status_loop'.ok => status_row[status_loop'.agent].failures < MaxFailures,
           \/ orphaned' = orphaned \cup ({status_loop.agent} \ {Nothing})
           \/ /\ orphaned' = orphaned
              /\ status_loop.agent # Nothing =>
                    /\ status_loop'.agent = status_loop.agent
                    /\ status_loop.at \in {"beat", "work", "record"} => status_loop'.at \in {"beat", "work", "record"}
    PROVE  StatusInv'
<1> USE StatusFacts
<1>1. StatusTyped'
  BY DEF StatusTyped
<1>2. LoopInv'
  BY DEF LoopInv, StatusInv
<1>3. Status!RunningIsHonest' /\ Status!EscalatedInTime' /\ Status!ScoreFollowsFailures'
  <2>1. ASSUME NEW a \in Agents, status_loop.agent = a, status_loop.at \in Status!Cycle
        PROVE  \/ a \in orphaned'
               \/ /\ status_loop'.agent = a /\ status_loop'.at \in Status!Cycle
                  /\ status_loop.at \in {"beat", "work", "record"} => status_loop'.at \in {"beat", "work", "record"}
    BY <2>1
  <2>2. orphaned \subseteq orphaned'
    OBVIOUS
  <2> QED BY <2>1, <2>2, PropertiesStay
<1> QED BY <1>1, <1>2, <1>3 DEF StatusInv

LEMMA StatusGoesOn ==
    ASSUME StatusConstants, StatusInv, [Status!Next]_(Status!vars)
    PROVE  StatusInv'
<1> USE StatusFacts
<1>0. LoopInv
  BY DEF StatusInv
<1>1. CASE Status!BeginTick
  <2>1. PICK open \in BOOLEAN :
            status_loop' = [Status!Rest EXCEPT !.at = "pick", !.due = Status!SetToSeq({a \in Agents : Status!Due(a, open)})]
    BY <1>1 DEF Status!BeginTick
  <2>2. status_loop' \in LoopRow /\ status_loop'.at = "pick" /\ status_loop'.agent = Nothing
    BY <2>1, DueListed DEF LoopRow
  <2>3. status_loop.at = "out" /\ UNCHANGED <<status_row, status_job, escalated, orphaned, spent>>
    BY <1>1 DEF Status!BeginTick
  <2> QED BY <1>0, <2>2, <2>3, LoopMoves DEF LoopInv
<1>2. CASE Status!PickAgent
  <2> DEFINE a == Head(status_loop.due)
  <2>1. /\ status_loop.at = "pick" /\ a \in Agents /\ Tail(status_loop.due) \in Seq(Agents)
        /\ UNCHANGED <<status_row, escalated, orphaned, spent>>
    BY <1>2 DEF Status!PickAgent, LoopRow
  <2>2. status_loop.agent = Nothing
    BY <1>0, <2>1 DEF LoopInv
  <2>3. CASE a \notin Orchestrated \/ status_row[a].enabled
    <3>1. /\ Status!Reads("loop", a, [running |-> TRUE])
          /\ status_loop' = [status_loop EXCEPT !.due = Tail(status_loop.due), !.ok = TRUE, !.agent = a, !.at = "mark"]
      BY <1>2, <2>3 DEF Status!PickAgent
    <3>2. status_loop' \in LoopRow /\ status_loop'.at = "mark" /\ status_loop'.agent = a /\ status_loop'.ok
      BY <2>1, <3>1 DEF LoopRow
    <3>3. [running |-> TRUE] \in Status!Changes
      BY DEF Status!Changes
    <3> HIDE DEF a
    <3>4. /\ status_job' \in [Status!Threads -> {Status!NoJob} \cup Job]
          /\ status_job'["loop"] # Status!NoJob /\ status_job'["loop"].agent = a
          /\ \A u \in Status!Threads \ {"loop"} : status_job'[u] = status_job[u]
      BY <2>1, <3>1, <3>3, ReadsFacts
    <3> QED BY <2>1, <2>2, <3>2, <3>4, LoopMoves
  <2>4. CASE ~(a \notin Orchestrated \/ status_row[a].enabled)
    <3>1. UNCHANGED status_job /\ status_loop' = [status_loop EXCEPT !.due = Tail(status_loop.due), !.ok = TRUE]
      BY <1>2, <2>4 DEF Status!PickAgent, LoopRow
    <3>2. status_loop' \in LoopRow /\ status_loop'.at = "pick" /\ status_loop'.agent = Nothing
      BY <2>1, <2>2, <3>1 DEF LoopRow
    <3> QED BY <1>0, <2>1, <2>2, <3>1, <3>2, LoopMoves DEF LoopInv
  <2> QED BY <2>3, <2>4
<1>3. CASE Status!MarkRunning
  <2>1. /\ status_loop.at = "mark" /\ Status!Writes("loop") /\ UNCHANGED <<escalated, orphaned, spent>>
        /\ status_loop' = [status_loop EXCEPT !.at = IF status_loop.agent \in Orchestrated THEN "beat" ELSE "work",
                                !.heals = Status!Snapshot(status_loop.agent)]
    BY <1>3 DEF Status!MarkRunning
  <2>2. Status!Snapshot(status_loop.agent) \subseteq Orchestrated
    BY DEF Status!Snapshot
  <2>3. status_loop' \in LoopRow /\ status_loop'.at \in {"beat", "work"} /\ status_loop'.agent = status_loop.agent /\ status_loop'.ok = status_loop.ok
    BY <2>1, <2>2 DEF LoopRow
  <2>4. /\ status_row' \in [Agents -> Status!Row]
        /\ status_job' \in [Status!Threads -> {Status!NoJob} \cup Job]
        /\ status_job'["loop"] = Status!NoJob
        /\ \A u \in Status!Threads \ {"loop"} : status_job'[u] = status_job[u]
        /\ \A a \in Agents : /\ status_row'[a].failures = status_row[a].failures
                             /\ status_row'[a].score = status_row[a].score
                             /\ status_row'[a].running => status_row[a].running \/ a = status_job["loop"].agent
    BY <2>1, WritesFacts
  <2>5. status_job["loop"].agent = status_loop.agent /\ status_loop.agent # Nothing
    BY <1>0, <2>1 DEF LoopInv
  <2>6. StatusTyped'
    BY <2>1, <2>3, <2>4 DEF StatusTyped
  <2>7. LoopInv'
    BY <1>0, <2>1, <2>3, <2>4, <2>5 DEF LoopInv
  <2>8. Status!RunningIsHonest' /\ Status!EscalatedInTime' /\ Status!ScoreFollowsFailures'
    BY <2>1, <2>3, <2>4, <2>5, PropertiesStay
  <2> QED BY <2>6, <2>7, <2>8 DEF StatusInv
<1>4. CASE Status!LoopReads
  <2>1. UNCHANGED <<status_row, status_loop, escalated, orphaned, spent>> /\ status_loop.at \in {"beat", "crash", "heal", "work"}
    BY <1>4 DEF Status!LoopReads
  <2>2. PICK a \in Agents, change \in {[heartbeat |-> TRUE], [crashed |-> TRUE], [crashed |-> FALSE]} :
            Status!Reads("loop", a, change)
    <3>1. status_loop.agent # Nothing /\ status_loop.heals \subseteq Agents
      BY <1>0, <2>1 DEF LoopInv, LoopRow, StatusConstants
    <3> QED BY <1>4, <3>1 DEF Status!LoopReads
  <2>3. change \in Status!Changes /\ Quiet(change)
    <3>1. DOMAIN change \in {{"heartbeat"}, {"crashed"}}
      BY <2>2
    <3>2. change \in [heartbeat : {TRUE}] \cup [crashed : BOOLEAN]
      <4>1. /\ [heartbeat |-> TRUE] \in [heartbeat : {TRUE}] /\ [crashed |-> TRUE] \in [crashed : BOOLEAN]
            /\ [crashed |-> FALSE] \in [crashed : BOOLEAN]
        OBVIOUS
      <4> QED BY <2>2, <4>1, Zenon
    <3> QED BY <3>1, <3>2 DEF Status!Changes, Quiet
  <2>4. /\ status_job' \in [Status!Threads -> {Status!NoJob} \cup Job]
        /\ status_job'["loop"].change = change
        /\ \A u \in Status!Threads \ {"loop"} : status_job'[u] = status_job[u]
    BY <2>2, <2>3, ReadsFacts
  <2> QED BY <1>0, <2>1, <2>3, <2>4, LoopMoves DEF LoopInv
<1>5. CASE Status!LoopWrites
  <2>1. status_loop.at \in {"beat", "crash", "heal", "work"} /\ Status!Writes("loop") /\ UNCHANGED <<escalated, orphaned, spent>>
    BY <1>5 DEF Status!LoopWrites
  <2>2. /\ status_loop' \in LoopRow /\ status_loop'.agent = status_loop.agent /\ status_loop'.at \in Status!Cycle /\ status_loop'.at # "mark"
        /\ status_loop'.at # "record" /\ status_loop'.ok = status_loop.ok
        /\ status_loop'.at \in {"mark", "beat", "work"} => status_loop.at \in {"mark", "beat", "work"}
        /\ status_loop.at \in {"beat", "work", "record"} => status_loop'.at \in {"beat", "work", "record"}
    <3>1. CASE status_loop.at = "beat"
      <4>1. status_loop' = [status_loop EXCEPT !.at = "work"]
        BY <1>5, <3>1 DEF Status!LoopWrites
      <4> QED BY <3>1, <4>1 DEF LoopRow
    <3>2. CASE status_loop.at = "crash"
      <4>1. status_loop' = [status_loop EXCEPT !.at = "heal"]
        BY <1>5, <3>2 DEF Status!LoopWrites
      <4> QED BY <3>2, <4>1 DEF LoopRow
    <3>3. CASE status_loop.at = "heal"
      <4>1. status_loop' = [status_loop EXCEPT !.at = "escalate"]
        BY <1>5, <3>3 DEF Status!LoopWrites
      <4> QED BY <3>3, <4>1 DEF LoopRow
    <3>4. CASE status_loop.at = "work"
      <4>1. status_loop' = [status_loop EXCEPT !.heals = status_loop.heals \ {status_job["loop"].agent}]
        BY <1>5, <3>4 DEF Status!LoopWrites
      <4> QED BY <3>4, <4>1 DEF LoopRow
    <3> QED BY <2>1, <3>1, <3>2, <3>3, <3>4
  <2>3. /\ status_row' \in [Agents -> Status!Row]
        /\ status_job' \in [Status!Threads -> {Status!NoJob} \cup Job]
        /\ status_job["loop"] # Status!NoJob /\ status_job'["loop"] = Status!NoJob
        /\ \A u \in Status!Threads \ {"loop"} : status_job'[u] = status_job[u]
        /\ \A a \in Agents : /\ status_row'[a].failures = status_row[a].failures
                             /\ status_row'[a].score = status_row[a].score
                             /\ status_row'[a].running => status_row[a].running \/ ~Quiet(status_job["loop"].change)
    BY <2>1, WritesFacts, NoJobIsNone
  <2>4. Quiet(status_job["loop"].change) /\ status_loop.agent # Nothing
    BY <1>0, <2>1, <2>3 DEF LoopInv
  <2>5. StatusTyped'
    BY <2>1, <2>2, <2>3 DEF StatusTyped
  <2>6. LoopInv'
    BY <1>0, <2>2, <2>3, <2>4 DEF LoopInv
  <2>7. Status!RunningIsHonest' /\ Status!EscalatedInTime' /\ Status!ScoreFollowsFailures'
    BY <2>1, <2>2, <2>3, <2>4, PropertiesStay
  <2> QED BY <2>5, <2>6, <2>7 DEF StatusInv
<1>6. CASE Status!Work
  <2>1. status_loop.at = "work" /\ UNCHANGED <<status_row, status_job, escalated, orphaned, spent>> /\ status_job["loop"] = Status!NoJob
    BY <1>6 DEF Status!Work
  <2>2. /\ status_loop' \in LoopRow /\ status_loop'.at = "record" /\ status_loop'.agent = status_loop.agent
        /\ ~status_loop'.ok => status_row[status_loop.agent].failures < MaxFailures
    <3>1. status_loop.ok = TRUE
      BY <1>0, <2>1 DEF LoopInv, LoopRow
    <3>2. CASE status_loop' = [status_loop EXCEPT !.at = "record"]
      BY <3>1, <3>2 DEF LoopRow
    <3>3. CASE /\ status_row[status_loop.agent].failures < MaxFailures
               /\ status_loop' = [status_loop EXCEPT !.at = "record", !.ok = FALSE, !.heals = {}]
      BY <3>3 DEF LoopRow
    <3> QED BY <1>6, <3>2, <3>3 DEF Status!Work
  <2> QED BY <1>0, <2>1, <2>2, LoopMoves DEF LoopInv
<1>7. CASE Status!RecordExecution
  <2> DEFINE b == status_loop.agent
             r == Status!Recorded(status_row[b], status_loop.ok)
  <2>1. /\ status_loop.at = "record" /\ status_row' = [status_row EXCEPT ![b] = r]
        /\ orphaned' = orphaned \ {b} /\ UNCHANGED <<status_job, spent>>
    BY <1>7 DEF Status!RecordExecution
  <2>2. b \in Agents /\ status_row[b] \in Status!Row /\ (~status_loop.ok => status_row[b].failures < MaxFailures)
        /\ (status_job["loop"] = Status!NoJob \/ Quiet(status_job["loop"].change))
    BY <1>0, <2>1 DEF LoopInv
  <2>3. /\ r \in Status!Row /\ ~r.running
        /\ status_loop.ok => r.failures = 0
        /\ r.score + 2 * r.failures <= FullHealth \/ r.score = 0
    <3> HIDE DEF b
    <3>1. status_row[b].score + 2 * status_row[b].failures <= FullHealth \/ status_row[b].score = 0
      BY <2>2 DEF StatusInv, Status!ScoreFollowsFailures
    <3>2. /\ status_row[b].failures \in 0..MaxFailures /\ status_row[b].score \in 0..FullHealth
          /\ FullHealth \in Nat /\ MaxFailures \in Nat /\ Cadence \in Nat
      BY <2>2 DEF Status!Row, StatusConstants
    <3> DEFINE f == IF status_loop.ok THEN 0 ELSE status_row[b].failures + 1
               s == IF status_loop.ok THEN (IF status_row[b].score < FullHealth THEN status_row[b].score + 1 ELSE status_row[b].score)
                    ELSE (IF status_row[b].score > 2 THEN status_row[b].score - 2 ELSE 0)
    <3>3. r = [status_row[b] EXCEPT !.there = TRUE, !.running = FALSE, !.age = 0, !.failures = f, !.score = s]
      BY DEF Status!Recorded
    <3>4. f \in 0..MaxFailures /\ s \in 0..FullHealth /\ (s + 2 * f <= FullHealth \/ s = 0) /\ (status_loop.ok => f = 0)
      BY <2>2, <3>1, <3>2
    <3> HIDE DEF f, s, r
    <3>5. r \in Status!Row /\ r.running = FALSE /\ r.failures = f /\ r.score = s
      <4>1. 0 \in Status!Ages(Cadence)
        BY <3>2 DEF Status!Ages
      <4> QED BY <2>2, <3>3, <3>4, <4>1 DEF Status!Row
    <3> QED BY <3>4, <3>5
  <2> HIDE DEF r, b
  <2>4. /\ status_row' \in [Agents -> Status!Row] /\ status_row'[b] = r
        /\ \A a \in Agents \ {b} : status_row'[a] = status_row[a]
    BY <2>1, <2>2, <2>3
  <2>5. Status!ScoreFollowsFailures'
    BY <2>3, <2>4 DEF StatusInv, Status!ScoreFollowsFailures
  <2>6. /\ \A a \in Agents : a # b => (a \in orphaned' <=> a \in orphaned)
        /\ \A a \in Agents : a # b /\ status_row[a].running => a \in orphaned
    BY <2>1, <2>2 DEF StatusInv, Status!RunningIsHonest, b
  <2>7. Status!RunningIsHonest'
    BY <2>3, <2>4, <2>6 DEF Status!RunningIsHonest
  <2>8. CASE status_loop.ok
    <3>1. status_loop' = [status_loop EXCEPT !.at = "pick", !.agent = Nothing] /\ escalated' = escalated \ {b}
      BY <1>7, <2>8 DEF Status!RecordExecution, b
    <3>2. status_loop' \in LoopRow /\ status_loop'.at = "pick" /\ status_loop'.agent = Nothing
      BY <3>1 DEF LoopRow
    <3>3. StatusTyped'
      BY <2>1, <2>4, <3>1, <3>2 DEF StatusTyped
    <3>4. LoopInv'
      BY <1>0, <2>1, <2>2, <3>2 DEF LoopInv
    <3>5. Status!EscalatedInTime'
      <4>1. ASSUME NEW a \in Agents, status_row'[a].failures >= Limit PROVE a \in escalated' \cup orphaned'
        <5>1. a # b
          BY <2>3, <2>4, <2>8, <4>1 DEF StatusConstants
        <5>2. status_row'[a] = status_row[a]
          BY <2>4, <5>1
        <5> QED BY <2>6, <3>1, <4>1, <5>1, <5>2 DEF StatusInv, Status!EscalatedInTime, b
      <4> QED BY <4>1 DEF Status!EscalatedInTime
    <3> QED BY <2>5, <2>7, <3>3, <3>4, <3>5 DEF StatusInv
  <2>9. CASE ~status_loop.ok
    <3>1. status_loop' = [status_loop EXCEPT !.at = "emit"] /\ escalated' = escalated
      BY <1>7, <2>9 DEF Status!RecordExecution, Status!Moves
    <3>2. status_loop' \in LoopRow /\ status_loop'.at = "emit" /\ status_loop'.agent = b
      BY <3>1 DEF LoopRow, b
    <3>3. StatusTyped'
      BY <2>1, <2>4, <3>1, <3>2 DEF StatusTyped
    <3>4. LoopInv'
      BY <1>0, <2>1, <2>2, <3>2 DEF LoopInv
    <3>5. Status!EscalatedInTime'
      <4>1. ASSUME NEW a \in Agents, a # b, status_row'[a].failures >= Limit PROVE a \in escalated' \cup orphaned'
        <5>1. status_row'[a] = status_row[a]
          BY <2>4, <4>1
        <5> QED BY <2>6, <3>1, <4>1, <5>1 DEF StatusInv, Status!EscalatedInTime, b
      <4> QED BY <3>2, <4>1 DEF Status!EscalatedInTime
    <3> QED BY <2>5, <2>7, <3>3, <3>4, <3>5 DEF StatusInv
  <2> QED BY <2>8, <2>9
<1>8. CASE Status!EmitFailure
  <2>1. /\ status_loop.at = "emit" /\ UNCHANGED <<status_row, status_job, escalated, orphaned, spent>>
        /\ status_loop' = [status_loop EXCEPT !.at = IF status_loop.agent \in Orchestrated THEN "crash" ELSE "escalate"]
    BY <1>8 DEF Status!EmitFailure, Status!Moves
  <2>2. status_loop' \in LoopRow /\ status_loop'.at \in {"crash", "escalate"} /\ status_loop'.agent = status_loop.agent
    BY <2>1 DEF LoopRow
  <2> QED BY <1>0, <2>1, <2>2, LoopMoves DEF LoopInv
<1>9. CASE Status!Escalate
  <2>1. /\ status_loop.at = "escalate" /\ UNCHANGED <<status_row, status_job, orphaned, spent>>
        /\ status_loop' = [status_loop EXCEPT !.at = "pick", !.agent = Nothing]
        /\ escalated' = IF status_row[status_loop.agent].failures >= Limit THEN escalated \cup {status_loop.agent} ELSE escalated
    BY <1>9 DEF Status!Escalate
  <2>2. status_loop' \in LoopRow /\ status_loop'.at = "pick" /\ status_loop'.agent = Nothing /\ status_loop.agent \in Agents
    BY <1>0, <2>1 DEF LoopRow, LoopInv
  <2>3. StatusTyped'
    BY <2>1, <2>2 DEF StatusTyped
  <2>4. LoopInv'
    BY <1>0, <2>1, <2>2 DEF LoopInv
  <2>5. Status!RunningIsHonest' /\ Status!ScoreFollowsFailures'
    BY <2>1, <2>2 DEF StatusInv, Status!RunningIsHonest, Status!ScoreFollowsFailures
  <2>6. Status!EscalatedInTime'
    BY <2>1 DEF StatusInv, Status!EscalatedInTime
  <2> QED BY <2>3, <2>4, <2>5, <2>6 DEF StatusInv
<1>10. CASE Status!Drain \/ Status!EndTick \/ Status!Boot
  <2>1. /\ status_loop.at \in {"pick", "drain", "dead"} /\ UNCHANGED <<status_row, status_job, escalated, orphaned, spent>>
        /\ status_loop' \in {[status_loop EXCEPT !.at = "drain"], Status!Rest, [status_loop EXCEPT !.at = "out"]}
    BY <1>10 DEF Status!Drain, Status!EndTick, Status!Boot, Status!Moves
  <2>2. status_loop.agent = Nothing
    BY <1>0, <2>1 DEF LoopInv
  <2>3. status_loop' \in LoopRow /\ status_loop'.at \in {"drain", "out"} /\ status_loop'.agent = Nothing
    BY <2>1, <2>2 DEF LoopRow
  <2> QED BY <1>0, <2>1, <2>2, <2>3, LoopMoves DEF LoopInv
<1>11. CASE Status!TickRaises \/ Status!Die
  <2>1. /\ UNCHANGED <<status_row, escalated>>
        /\ status_loop' \in {Status!Rest, [Status!Rest EXCEPT !.at = "dead"]}
        /\ status_job' = [status_job EXCEPT !["loop"] = Status!NoJob]
        /\ orphaned' = orphaned \cup ({status_loop.agent} \ {Nothing})
    BY <1>11 DEF Status!TickRaises, Status!Die
  <2>2. spent' \in [faults : 0..MaxFaults, changes : 0..MaxChanges]
    <3>1. spent' = spent \/ (spent.faults < MaxFaults /\ spent' = [spent EXCEPT !.faults = spent.faults + 1])
      BY <1>11 DEF Status!TickRaises, Status!Die
    <3> QED BY <3>1
  <2>3. status_loop' \in LoopRow /\ status_loop'.at \in {"out", "dead"} /\ status_loop'.agent = Nothing
    <3>1. Status!Rest \in LoopRow /\ Status!Rest.at = "out" /\ Status!Rest.agent = Nothing
      BY DEF Status!Rest, LoopRow, Status!Places
    <3>2. CASE status_loop' = Status!Rest
      BY <3>1, <3>2
    <3>3. CASE status_loop' = [Status!Rest EXCEPT !.at = "dead"]
      <4> HIDE DEF Status!Rest
      <4> QED BY <3>1, <3>3 DEF LoopRow, Status!Places
    <3> QED BY <2>1, <3>2, <3>3
  <2>4. /\ status_job' \in [Status!Threads -> {Status!NoJob} \cup Job] /\ status_job'["loop"] = Status!NoJob
        /\ \A o \in Operators : status_job'[o] = status_job[o]
    BY <2>1
  <2> QED BY <2>1, <2>2, <2>3, <2>4, LoopMoves
<1>12. CASE Status!RecordRaises
  <2>1. /\ status_loop.at = "record" /\ status_row[status_loop.agent].failures < MaxFailures
        /\ UNCHANGED <<status_row, status_job, escalated, orphaned>>
        /\ spent.faults < MaxFaults /\ spent' = [spent EXCEPT !.faults = spent.faults + 1]
        /\ status_loop' = [status_loop EXCEPT !.ok = FALSE]
    BY <1>12 DEF Status!RecordRaises
  <2>2. status_loop' \in LoopRow /\ status_loop'.at = "record" /\ status_loop'.agent = status_loop.agent
    BY <2>1 DEF LoopRow
  <2>3. spent' \in [faults : 0..MaxFaults, changes : 0..MaxChanges]
    BY <2>1
  <2> QED BY <1>0, <2>1, <2>2, <2>3, LoopMoves DEF LoopInv
<1>13. ASSUME NEW o \in Operators, Status!OperatorReads(o)
       PROVE  StatusInv'
  <2>1. /\ UNCHANGED <<status_row, status_loop, escalated, orphaned>>
        /\ spent.changes < MaxChanges /\ spent' = [spent EXCEPT !.changes = spent.changes + 1]
    BY <1>13 DEF Status!OperatorReads
  <2>2. spent' \in [faults : 0..MaxFaults, changes : 0..MaxChanges]
    BY <2>1
  <2>3. PICK a \in Agents, change \in [mode : Status!Modes] \cup [enabled : BOOLEAN] \cup [crashed : BOOLEAN] :
            Status!Reads(o, a, change)
    <3>1. CASE \E a \in Agents \ Unschedulable, m \in Status!Modes : Status!Reads(o, a, [mode |-> m])
      BY <3>1
    <3>2. CASE \E a \in Orchestrated, e \in BOOLEAN : Status!Reads(o, a, [enabled |-> e])
      BY <3>2 DEF StatusConstants
    <3>3. CASE \E a \in Orchestrated : Status!Reads(o, a, [crashed |-> FALSE])
      BY <3>3 DEF StatusConstants
    <3> QED BY <1>13, <3>1, <3>2, <3>3 DEF Status!OperatorReads
  <2>4. change \in Status!Changes /\ Quiet(change)
    <3>1. DOMAIN change \in {{"mode"}, {"enabled"}, {"crashed"}}
      BY <2>3
    <3> QED BY <2>3, <3>1 DEF Status!Changes, Quiet
  <2>5. /\ status_job' \in [Status!Threads -> {Status!NoJob} \cup Job]
        /\ status_job'[o].change = change
        /\ \A u \in Status!Threads \ {o} : status_job'[u] = status_job[u]
    BY <2>3, <2>4, ReadsFacts
  <2>6. StatusTyped' /\ LoopInv'
    BY <1>0, <2>1, <2>2, <2>4, <2>5 DEF StatusTyped, LoopInv
  <2>7. Status!RunningIsHonest' /\ Status!EscalatedInTime' /\ Status!ScoreFollowsFailures'
    BY <2>1 DEF StatusInv, Status!RunningIsHonest, Status!EscalatedInTime, Status!ScoreFollowsFailures
  <2> QED BY <2>6, <2>7 DEF StatusInv
<1>14. ASSUME NEW o \in Operators, Status!OperatorWrites(o)
       PROVE  StatusInv'
  <2>1. UNCHANGED <<status_loop, escalated, orphaned, spent>>
    BY <1>14 DEF Status!OperatorWrites
  <2>2. CASE Status!Writes(o)
    <3>1. /\ status_row' \in [Agents -> Status!Row]
          /\ status_job' \in [Status!Threads -> {Status!NoJob} \cup Job]
          /\ status_job[o] \in Job /\ status_job'[o] = Status!NoJob
          /\ \A u \in Status!Threads \ {o} : status_job'[u] = status_job[u]
          /\ \A a \in Agents : /\ status_row'[a].failures = status_row[a].failures
                               /\ status_row'[a].score = status_row[a].score
                               /\ status_row'[a].running => status_row[a].running \/ ~Quiet(status_job[o].change)
      BY <2>2, WritesFacts
    <3>2. Quiet(status_job[o].change)
      BY <1>0, <3>1, NoJobIsNone DEF LoopInv
    <3>3. StatusTyped'
      BY <2>1, <3>1 DEF StatusTyped
    <3>4. status_loop.at = "record" => status_loop.agent \in Agents
      BY <1>0 DEF LoopInv
    <3>5. LoopInv'
      BY <1>0, <2>1, <3>1, <3>4 DEF LoopInv
    <3>6. Status!RunningIsHonest' /\ Status!EscalatedInTime' /\ Status!ScoreFollowsFailures'
      BY <2>1, <3>1, <3>2 DEF StatusInv, Status!RunningIsHonest, Status!EscalatedInTime, Status!ScoreFollowsFailures
    <3> QED BY <3>3, <3>5, <3>6 DEF StatusInv
  <2>3. CASE ~Status!Writes(o)
    <3>1. status_job' = [status_job EXCEPT ![o] = Status!NoJob] /\ UNCHANGED status_row
      BY <1>14, <2>3 DEF Status!OperatorWrites
    <3>2. StatusTyped' /\ LoopInv'
      BY <1>0, <2>1, <3>1 DEF StatusTyped, LoopInv
    <3>3. Status!RunningIsHonest' /\ Status!EscalatedInTime' /\ Status!ScoreFollowsFailures'
      BY <2>1, <3>1 DEF StatusInv, Status!RunningIsHonest, Status!EscalatedInTime, Status!ScoreFollowsFailures
    <3> QED BY <3>2, <3>3 DEF StatusInv
  <2> QED BY <2>2, <2>3
<1>15. CASE Status!Elapse
  <2>1. /\ status_loop.at = "out" /\ UNCHANGED <<status_job, status_loop, escalated, orphaned, spent>>
        /\ status_row' = [a \in Agents |-> [status_row[a] EXCEPT !.age = Status!Older(status_row[a].age, Cadence)]]
    BY <1>15 DEF Status!Elapse
  <2>2. ASSUME NEW a \in Agents
        PROVE  /\ [status_row[a] EXCEPT !.age = Status!Older(status_row[a].age, Cadence)] \in Status!Row
               /\ status_row'[a].failures = status_row[a].failures /\ status_row'[a].score = status_row[a].score
               /\ status_row'[a].running = status_row[a].running
    <3>1. Status!Older(status_row[a].age, Cadence) \in 0..Cadence
      BY DEF Status!Older, Status!Row, Status!Ages, StatusConstants
    <3> QED BY <2>1, <3>1 DEF Status!Row, Status!Ages
  <2>3. StatusTyped' /\ LoopInv'
    BY <1>0, <2>1, <2>2 DEF StatusTyped, LoopInv
  <2>4. Status!RunningIsHonest' /\ Status!EscalatedInTime' /\ Status!ScoreFollowsFailures'
    BY <2>1, <2>2 DEF StatusInv, Status!RunningIsHonest, Status!EscalatedInTime, Status!ScoreFollowsFailures
  <2> QED BY <2>3, <2>4 DEF StatusInv
<1>16. CASE UNCHANGED Status!vars
  <2>1. UNCHANGED <<status_row, status_job, status_loop, escalated, orphaned, spent>>
    BY <1>16 DEF Status!vars
  <2> QED BY <1>0, <2>1 DEF StatusInv, StatusTyped, LoopInv, Status!RunningIsHonest, Status!EscalatedInTime,
                           Status!ScoreFollowsFailures
<1> QED BY <1>1, <1>2, <1>3, <1>4, <1>5, <1>6, <1>7, <1>8, <1>9, <1>10, <1>11, <1>12, <1>13, <1>14, <1>15, <1>16
        DEF Status!Next, Status!Tick

\* For any number of agents and operators: a row that says running is that of the agent in its cycle, or
\* of one whose process died; an agent that failed often enough is escalated; its health score is the one
\* its failures give, although rows are read, changed and written back by several threads.
THEOREM AgentsAreTold ==
    ASSUME StatusConstants
    PROVE  Status!Init /\ [][Status!Next]_(Status!vars) =>
               [](Status!TypeOK /\ Status!RunningIsHonest /\ Status!EscalatedInTime /\ Status!ScoreFollowsFailures)
<1>1. Status!Init => StatusInv
  BY StatusBegins
<1>2. StatusInv /\ [Status!Next]_(Status!vars) => StatusInv'
  BY StatusGoesOn
<1>3. StatusInv => Status!TypeOK /\ Status!RunningIsHonest /\ Status!EscalatedInTime /\ Status!ScoreFollowsFailures
  <2> SUFFICES ASSUME StatusInv PROVE Status!TypeOK
    BY DEF StatusInv
  <2>1. /\ status_loop.at \in Status!Places /\ status_loop.agent \in Agents \cup {Nothing} /\ status_loop.ok \in BOOLEAN
        /\ status_loop.due \in Seq(Agents) /\ status_loop.heals \subseteq Orchestrated
    BY DEF StatusInv, StatusTyped, LoopRow
  <2>2. ASSUME NEW t \in Status!Threads, status_job[t] # Status!NoJob
        PROVE  status_job[t].agent \in Agents /\ status_job[t].seen \in Status!Row /\ status_job[t].change \in Status!Changes
    BY <2>2 DEF StatusInv, StatusTyped, Job
  <2> QED BY <2>1, <2>2 DEF Status!TypeOK, StatusInv, StatusTyped, LoopInv
<1> QED BY <1>1, <1>2, <1>3, PTL

-----------------------------------------------------------------------------
(* Backups and their restoration (BackupRecovery).                           *)
CONSTANTS Retention, MaxRows, MaxBackups, MaxDamages
VARIABLES live, files, op, made, backup_faults

Backup == INSTANCE BackupRecovery WITH faults <- backup_faults, MaxFaults <- MaxDamages

Making    == [at : {"copied"}, restores : Backup!Records \cup {Nothing}, path : Backup!Paths, replaced : Backup!Contents]
Verified  == [at : {"verified"}, restores : Backup!Records \cup {Nothing}, path : Backup!Paths, replaced : Backup!Contents,
              healthy : BOOLEAN]
Restoring == [at : {"saved", "removed", "restored"}, restores : Backup!Records, safety : Backup!Paths \cup {Nothing},
              replaced : Backup!Contents]
Ops       == {Backup!Idle} \cup Making \cup Verified \cup Restoring

\* A file that a healthy record may name: gone, sound, or made by connecting to it.
Intact(path) == files[path] = Nothing \/ files[path].state \in {"sound", "empty"}

\* A list of backups is true of the files, wherever it is kept.
Truthful(log) == \A i \in DOMAIN log : log[i].path <= made /\ (log[i].healthy => Intact(log[i].path))

\* A backup in the making is the newest, and not in the list yet.
MakingInv ==
    op.at \in {"copied", "verified"} =>
        /\ op.path = made /\ files[op.path] = op.replaced
        /\ \A i \in DOMAIN live.log : live.log[i].path < made
        /\ op.restores # Nothing => op.restores.path < made
        /\ op.at = "verified" /\ op.healthy => files[op.path].state = "sound"

\* A restore puts a healthy record back, and its safety backup is another file.
RestoringInv ==
    /\ op.at # "idle" /\ op.restores # Nothing =>
        op.restores.healthy /\ Intact(op.restores.path) /\ op.restores.path <= made
    /\ op.at \in {"saved", "removed", "restored"} /\ op.safety # Nothing =>
        op.safety <= made /\ op.restores.path # op.safety

BackupInv ==
    /\ Backup!TypeOK /\ files \in [Backup!Paths -> Backup!Contents \cup {Nothing}] /\ op \in Ops
    /\ Truthful(live.log) /\ \A p \in Backup!Paths : files[p] # Nothing => Truthful(files[p].log)
    /\ MakingInv /\ RestoringInv /\ Backup!SafetyOnDisk /\ Backup!NothingBrokenIsRestored

\* What the operator's process holds follows from where it is.
LEMMA OpByPlace ==
    ASSUME op \in Ops
    PROVE  /\ op.at \in {"idle", "copied", "verified", "saved", "removed", "restored"}
           /\ op.at = "idle" <=> op = Backup!Idle
           /\ op.at = "copied" => op \in Making
           /\ op.at = "verified" => op \in Verified
           /\ op.at \in {"saved", "removed", "restored"} => op \in Restoring
BY DEF Ops, Backup!Idle, Making, Verified, Restoring

\* Lists stay true while no file they name breaks.
LEMMA TruthfulStays ==
    ASSUME NEW log \in Seq(Backup!Records), Truthful(log), made \in Nat, made' \in Nat, made <= made',
           \A p \in Backup!Paths : Intact(p) /\ p <= made => Intact(p)'
    PROVE  Truthful(log)'
<1> SUFFICES ASSUME NEW i \in DOMAIN log
             PROVE  log[i].path <= made' /\ (log[i].healthy => Intact(log[i].path)')
  BY DEF Truthful
<1>1. log[i] \in Backup!Records
  OBVIOUS
<1>2. log[i].path \in Backup!Paths /\ log[i].path \in Nat
  BY <1>1 DEF Backup!Records, Backup!Paths
<1> QED  BY <1>2 DEF Truthful

\* A new record keeps its file: with a retention of at least one, what is pruned is older.
LEMMA NewestIsKept ==
    ASSUME Backup!ConstantsFit, NEW log \in Seq(Backup!Records), NEW record \in Backup!Records,
           \A i \in DOMAIN log : log[i].path # record.path
    PROVE  record.path \notin Backup!Pruned(Append(log, record))
<1> DEFINE longer == Append(log, record)
<1>1. /\ Len(log) \in Nat /\ DOMAIN longer = 1..(Len(log) + 1) /\ Len(longer) = Len(log) + 1
      /\ \A i \in 1..Len(log) : longer[i] = log[i] /\ i \in DOMAIN log
  OBVIOUS
<1> HIDE DEF longer
<1>2. ASSUME NEW j \in DOMAIN longer, j + Retention <= Len(longer) PROVE longer[j].path # record.path
  <2>1. j \in 1..Len(log)
    BY <1>1, <1>2 DEF Backup!ConstantsFit
  <2> QED  BY <1>1, <2>1
<1> QED  BY <1>2 DEF Backup!Pruned, longer

LEMMA BackupsBegin ==
    ASSUME Backup!ConstantsFit, Backup!Init
    PROVE  BackupInv
<1>1. live \in Backup!Contents /\ op \in Ops /\ Truthful(live.log)
  BY DEF Backup!Init, Backup!Contents, Backup!ConstantsFit, Ops, Truthful
<1> QED  BY <1>1 DEF Backup!Init, BackupInv, Backup!TypeOK, MakingInv, RestoringInv, Backup!SafetyOnDisk, Backup!NothingBrokenIsRestored, Backup!Idle,
                     Backup!ConstantsFit

\* The parts of the invariant, as a step needs them.
LEMMA BackupFacts ==
    ASSUME Backup!ConstantsFit, BackupInv
    PROVE  /\ live \in Backup!Contents /\ files \in [Backup!Paths -> Backup!Contents \cup {Nothing}] /\ op \in Ops
           /\ made \in Nat /\ made <= MaxBackups /\ backup_faults \in 0..MaxDamages /\ Backup!Paths \subseteq Nat
           /\ live.log \in Seq(Backup!Records) /\ live.state \in {"sound", "damaged", "unreadable", "empty"}
           /\ \A p \in Backup!Paths : files[p] # Nothing => files[p] \in Backup!Contents /\ p <= made
                                                     /\ files[p].log \in Seq(Backup!Records)
           /\ Nothing \notin Backup!Contents /\ Nothing \notin Backup!Records /\ Nothing \notin Backup!Paths
<1>1. Backup!Paths \subseteq Nat /\ MaxBackups \in Nat
  BY DEF Backup!Paths, Backup!ConstantsFit
<1>2. /\ live \in Backup!Contents /\ files \in [Backup!Paths -> Backup!Contents \cup {Nothing}] /\ op \in Ops
      /\ made \in 0..MaxBackups /\ backup_faults \in 0..MaxDamages
      /\ \A p \in Backup!Paths : files[p] # Nothing => p <= made
  BY DEF BackupInv, Backup!TypeOK
<1>3. Nothing \notin Backup!Contents /\ Nothing \notin Backup!Records /\ Nothing \notin Nat
  BY DEF Backup!ConstantsFit
<1>4. \A db \in Backup!Contents : db.log \in Seq(Backup!Records) /\ db.state \in {"sound", "damaged", "unreadable", "empty"}
  BY DEF Backup!Contents
<1>5. \A p \in Backup!Paths : files[p] # Nothing => files[p] \in Backup!Contents
  BY <1>2
<1> QED  BY <1>1, <1>2, <1>3, <1>4, <1>5

\* A step that leaves the files and the list alone.
LEMMA QuietStep ==
    ASSUME Backup!ConstantsFit, BackupInv, UNCHANGED <<files, made>>, live' \in Backup!Contents, live'.log = live.log,
           op' = op \/ op' = Backup!Idle, backup_faults' \in 0..MaxDamages,
           op' # Backup!Idle => Backup!NothingBrokenIsRestored'
    PROVE  BackupInv'
<1> USE BackupFacts
<1>1. \A p : Intact(p)' = Intact(p)
  BY DEF Intact
<1>2. \A log : Truthful(log)' = Truthful(log)
  BY <1>1 DEF Truthful
<1>3. Backup!TypeOK' /\ files' \in [Backup!Paths -> Backup!Contents \cup {Nothing}] /\ op' \in Ops
  BY OpByPlace DEF BackupInv, Backup!TypeOK, Ops, Backup!Idle
<1>4. Truthful(live.log)' /\ \A p \in Backup!Paths : files'[p] # Nothing => Truthful(files[p].log)'
  BY <1>2 DEF BackupInv, Truthful, Intact
<1>5. CASE op' = Backup!Idle
  BY <1>3, <1>4, <1>5 DEF BackupInv, MakingInv, RestoringInv, Backup!SafetyOnDisk, Backup!NothingBrokenIsRestored, Backup!Idle
<1>6. CASE op' = op /\ op' # Backup!Idle
  BY <1>1, <1>3, <1>4, <1>6 DEF BackupInv, MakingInv, RestoringInv, Backup!SafetyOnDisk, Backup!NothingBrokenIsRestored
<1> QED  BY <1>5, <1>6

LEMMA CopiedStep ==
    ASSUME Backup!ConstantsFit, BackupInv, NEW restores \in Backup!Records \cup {Nothing}, Backup!Copied(restores),
           restores # Nothing => /\ \E i \in DOMAIN live.log : restores = live.log[i] /\ restores.healthy
                                 /\ live.state # "unreadable",
           UNCHANGED <<live, backup_faults>>
    PROVE  BackupInv'
<1> USE BackupFacts
<1>1. CASE live.state = "unreadable"
  <2>1. restores = Nothing /\ op' = Backup!Idle /\ UNCHANGED <<files, made>>
    BY <1>1 DEF Backup!Copied
  <2> QED  BY <2>1, QuietStep
<1>2. CASE live.state # "unreadable"
  <2>1. /\ made' = made + 1 /\ made + 1 \in Backup!Paths
        /\ files' = [files EXCEPT ![made + 1] = live]
        /\ op' = [at |-> "copied", restores |-> restores, path |-> made + 1, replaced |-> live]
    BY <1>2 DEF Backup!Copied, Backup!Paths, Backup!ConstantsFit
  <2>2. op' \in Making /\ op'.at = "copied" /\ op'.path = made + 1 /\ op'.replaced = live /\ op'.restores = restores
    BY <2>1 DEF Making
  <2>3. \A p \in Backup!Paths : p <= made => files'[p] = files[p]
    BY <2>1
  <2>4. \A p \in Backup!Paths : Intact(p) /\ p <= made => Intact(p)'
    BY <2>3 DEF Intact
  <2>5. \A log \in Seq(Backup!Records) : Truthful(log) => Truthful(log)'
    BY <2>1, <2>4, TruthfulStays
  <2>6. Truthful(live.log)'
    BY <2>5 DEF BackupInv, Truthful, Intact
  <2>7. ASSUME NEW p \in Backup!Paths, files'[p] # Nothing PROVE Truthful(files[p].log)' /\ files'[p] \in Backup!Contents /\ p <= made'
    <3>1. CASE p = made + 1
      <4>1. files'[p] = live
        BY <2>1, <3>1
      <4> QED  BY <2>1, <2>6, <3>1, <4>1 DEF Truthful, Intact
    <3>2. CASE p # made + 1
      <4>1. files'[p] = files[p]
        BY <2>1, <3>2
      <4>2. Truthful(files[p].log)
        BY <2>7, <4>1 DEF BackupInv
      <4>3. files[p] \in Backup!Contents /\ p <= made /\ files[p].log \in Seq(Backup!Records)
        BY <2>7, <4>1
      <4>4. ASSUME NEW log, log = files[p].log PROVE Truthful(log)'
        BY <2>5, <4>2, <4>3, <4>4
      <4>5. Truthful(files[p].log)'
        BY <4>1, <4>4 DEF Truthful, Intact
      <4> QED  BY <2>1, <4>1, <4>3, <4>5
    <3> QED  BY <3>1, <3>2
  <2>8. Backup!TypeOK' /\ files' \in [Backup!Paths -> Backup!Contents \cup {Nothing}] /\ op' \in Ops
    BY <2>1, <2>2, <2>7 DEF Backup!TypeOK, Ops, Backup!Paths
  <2>9. MakingInv'
    <3>1. \A i \in DOMAIN live.log : live.log[i] \in Backup!Records
      OBVIOUS
    <3>2. \A i \in DOMAIN live.log : live.log[i].path <= made /\ live.log[i].path \in Nat
      BY <3>1 DEF BackupInv, Truthful, Backup!Records
    <3> QED  BY <2>1, <2>2, <3>2 DEF MakingInv
  <2>10. RestoringInv'
    <3> SUFFICES ASSUME restores # Nothing
                 PROVE  restores.healthy /\ Intact(restores.path)' /\ restores.path <= made'
      BY <2>2 DEF RestoringInv, Intact
    <3>1. PICK i \in DOMAIN live.log : restores = live.log[i] /\ restores.healthy
      OBVIOUS
    <3>2. restores.path \in Backup!Paths /\ restores.path <= made /\ Intact(restores.path)
      BY <3>1 DEF BackupInv, Truthful, Backup!Records
    <3> QED  BY <2>1, <2>4, <3>1, <3>2
  <2> QED  BY <2>2, <2>6, <2>7, <2>8, <2>9, <2>10 DEF BackupInv, Backup!SafetyOnDisk, Backup!NothingBrokenIsRestored
<1> QED  BY <1>1, <1>2

LEMMA VerifyStep ==
    ASSUME Backup!ConstantsFit, BackupInv, Backup!Verify
    PROVE  BackupInv'
<1> USE BackupFacts
<1>1. op \in Making /\ UNCHANGED <<live, files, made, backup_faults>> /\ op.at = "copied"
  BY OpByPlace DEF Backup!Verify
<1>2. op' = [at |-> "verified", restores |-> op.restores, path |-> op.path, replaced |-> op.replaced,
             healthy |-> Backup!Healthy(files[op.path])]
  BY DEF Backup!Verify
<1>3. /\ op' \in Verified /\ op'.at = "verified" /\ op'.restores = op.restores /\ op'.path = op.path
      /\ op'.replaced = op.replaced
      /\ op'.healthy => files[op.path].state = "sound"
  BY <1>1, <1>2 DEF Making, Verified, Backup!Healthy
<1>4. MakingInv' /\ RestoringInv'
  BY <1>1, <1>3 DEF BackupInv, MakingInv, RestoringInv, Intact
<1>5. Backup!TypeOK' /\ op' \in Ops /\ Backup!SafetyOnDisk' /\ Backup!NothingBrokenIsRestored'
  BY <1>1, <1>3 DEF BackupInv, Backup!TypeOK, Ops, Backup!SafetyOnDisk, Backup!NothingBrokenIsRestored
<1>6. \A log : Truthful(log)' = Truthful(log)
  BY <1>1 DEF Truthful, Intact
<1>7. Truthful(live.log)' /\ \A p \in Backup!Paths : files'[p] # Nothing => Truthful(files[p].log)'
  BY <1>1, <1>6 DEF BackupInv, Truthful, Intact
<1> QED  BY <1>1, <1>4, <1>5, <1>7 DEF BackupInv

LEMMA RecordStep ==
    ASSUME Backup!ConstantsFit, BackupInv, Backup!Record
    PROVE  BackupInv'
<1> USE BackupFacts
<1>1. op \in Verified /\ op.at = "verified" /\ UNCHANGED <<made, backup_faults>>
  BY OpByPlace DEF Backup!Record
<1>2. CASE ~Backup!HasTables(live)
  BY <1>2, QuietStep DEF Backup!Record, BackupInv, Backup!TypeOK
<1>3. CASE Backup!HasTables(live)
  <2> DEFINE record == [path |-> op.path, healthy |-> op.healthy]
             log    == Append(live.log, record)
  <2>1. /\ live' = [live EXCEPT !.log = log]
        /\ files' = [p \in Backup!Paths |-> IF p \in Backup!Pruned(log) THEN Nothing ELSE files[p]]
        /\ op' = IF op.restores = Nothing THEN Backup!Idle
                 ELSE [at |-> "saved", restores |-> op.restores, safety |-> op.path, replaced |-> op.replaced]
    BY <1>3 DEF Backup!Record
  <2>2. record \in Backup!Records /\ record.path = op.path /\ record.healthy = op.healthy /\ op.path \in Nat
    BY <1>1 DEF Verified, Backup!Records
  <2>m. /\ op.path = made /\ files[op.path] = op.replaced
        /\ \A i \in DOMAIN live.log : live.log[i].path < made
        /\ op.restores # Nothing => op.restores.path < made
        /\ op.healthy => files[op.path].state = "sound"
    BY <1>1 DEF BackupInv, MakingInv
  <2>3. log \in Seq(Backup!Records) /\ \A i \in DOMAIN log : log[i] = record \/ \E j \in DOMAIN live.log : log[i] = live.log[j]
    <3> HIDE DEF record
    <3> QED  BY <2>2
  <2>4. op.path \notin Backup!Pruned(log)
    <3> HIDE DEF record
    <3>1. \A i \in DOMAIN live.log : live.log[i].path # record.path
      BY <2>2, <2>m
    <3> QED  BY <2>2, <3>1, NewestIsKept
  <2> HIDE DEF log
  <2>5. live' \in Backup!Contents /\ live'.log = log /\ live'.state = live.state
    BY <2>1, <2>3 DEF Backup!Contents
  <2>6. \A p \in Backup!Paths : files'[p] = Nothing \/ files'[p] = files[p]
    BY <2>1
  <2>7. \A p \in Backup!Paths : Intact(p) => Intact(p)'
    BY <2>6 DEF Intact
  <2>8. \A l \in Seq(Backup!Records) : Truthful(l) => Truthful(l)'
    BY <1>1, <2>7, TruthfulStays
  <2>9. ASSUME NEW l, l = log PROVE Truthful(l)'
    <3> SUFFICES ASSUME NEW i \in DOMAIN l, NEW r, r = l[i], NEW p, p = r.path
                 PROVE  p <= made /\ (r.healthy => Intact(p)')
      BY <1>1 DEF Truthful
    <3>1. CASE r = record
      <4>1. p = op.path /\ r.healthy = op.healthy
        BY <2>2, <3>1
      <4>2. p \in Backup!Paths /\ p <= made /\ (r.healthy => Intact(p))
        BY <1>1, <2>m, <4>1 DEF Verified, Intact
      <4> QED  BY <2>7, <4>2
    <3>2. ASSUME NEW j \in DOMAIN live.log, r = live.log[j]
          PROVE  p <= made /\ (r.healthy => Intact(p)')
      <4>1. live.log[j] \in Backup!Records
        OBVIOUS
      <4>3. r \in Backup!Records /\ p \in Backup!Paths
        BY <3>2, <4>1 DEF Backup!Records
      <4>2. p <= made /\ (r.healthy => Intact(p))
        BY <3>2 DEF BackupInv, Truthful
      <4> QED  BY <2>7, <4>3, <4>2
    <3> QED  BY <2>3, <2>9, <3>1, <3>2
  <2>t. Truthful(live.log)'
    BY <2>5, <2>9 DEF Truthful, Intact
  <2>10. ASSUME NEW p \in Backup!Paths, files'[p] # Nothing
         PROVE  Truthful(files[p].log)' /\ files'[p] \in Backup!Contents /\ p <= made
    <3>1. files'[p] = files[p] /\ files[p] \in Backup!Contents /\ p <= made /\ files[p].log \in Seq(Backup!Records)
      BY <2>6, <2>10
    <3>2. ASSUME NEW l, l = files[p].log PROVE Truthful(l)'
      BY <2>8, <2>10, <3>1, <3>2 DEF BackupInv
    <3> QED  BY <3>1, <3>2 DEF Truthful, Intact
  <2>11. files' \in [Backup!Paths -> Backup!Contents \cup {Nothing}]
    BY <2>1
  <2>12. CASE op.restores = Nothing
    <3>1. op' = Backup!Idle
      BY <2>1, <2>12
    <3> QED  BY <1>1, <2>5, <2>t, <2>10, <2>11, <3>1
             DEF BackupInv, Backup!TypeOK, Ops, Backup!Idle, MakingInv, RestoringInv, Backup!SafetyOnDisk, Backup!NothingBrokenIsRestored
  <2>13. CASE op.restores # Nothing
    <3>1. op' = [at |-> "saved", restores |-> op.restores, safety |-> op.path, replaced |-> op.replaced]
      BY <2>1, <2>13
    <3>2. /\ op' \in Restoring /\ op'.at = "saved" /\ op'.restores = op.restores /\ op'.safety = op.path
          /\ op'.replaced = op.replaced
      BY <1>1, <2>13, <3>1 DEF Verified, Restoring
    <3>3. files'[op.path] = files[op.path]
      BY <1>1, <2>1, <2>4 DEF Verified
    <3>4. ASSUME NEW q, q = op.restores.path PROVE q <= made /\ Intact(q)'
      <4>1. q \in Backup!Paths
        BY <1>1, <2>13, <3>4 DEF Verified, Backup!Records
      <4>2. q <= made /\ Intact(q)
        BY <1>1, <2>13, <3>4 DEF BackupInv, RestoringInv
      <4> QED  BY <2>7, <4>1, <4>2
    <3>5. RestoringInv'
      <4>1. op.restores.path \in Nat /\ made \in Nat /\ op.path \in Nat /\ op.restores.healthy
        BY <1>1, <2>2, <2>13 DEF Verified, Backup!Records, BackupInv, RestoringInv
      <4>2. Intact(op.restores.path)' /\ op.restores.path <= made
        BY <3>2, <3>4 DEF Intact
      <4> QED  BY <1>1, <2>m, <2>13, <3>2, <4>1, <4>2 DEF RestoringInv, Intact
    <3>6. Backup!SafetyOnDisk'
      BY <2>m, <3>2, <3>3 DEF Backup!SafetyOnDisk
    <3> QED  BY <1>1, <2>5, <2>t, <2>10, <2>11, <3>2, <3>5, <3>6
             DEF BackupInv, Backup!TypeOK, Ops, MakingInv, Backup!NothingBrokenIsRestored
  <2> QED  BY <2>12, <2>13
<1> QED  BY <1>2, <1>3

LEMMA RemoveStep ==
    ASSUME Backup!ConstantsFit, BackupInv, Backup!Remove
    PROVE  BackupInv'
<1> USE BackupFacts
<1>1. op \in Restoring /\ op.at = "saved" /\ live' = Backup!Empty /\ UNCHANGED <<files, made, backup_faults>>
      /\ op' = [op EXCEPT !.at = "removed"]
  BY OpByPlace DEF Backup!Remove
<1>2. /\ op' \in Restoring /\ op'.at = "removed" /\ op'.restores = op.restores /\ op'.safety = op.safety
      /\ op'.replaced = op.replaced
  BY <1>1 DEF Restoring
<1>3. live' \in Backup!Contents /\ live'.log = <<>>
  BY <1>1 DEF Backup!Contents, Backup!Empty, Backup!ConstantsFit
<1>4. \A log : Truthful(log)' = Truthful(log)
  BY <1>1 DEF Truthful, Intact
<1>5. Truthful(live.log)' /\ \A p \in Backup!Paths : files'[p] # Nothing => Truthful(files[p].log)'
  <2>1. Truthful(live.log)'
    BY <1>3 DEF Truthful
  <2>2. \A p \in Backup!Paths : files[p] # Nothing => Truthful(files[p].log)
    BY DEF BackupInv
  <2> QED BY <1>1, <1>4, <2>1, <2>2
<1>6. Backup!TypeOK' /\ op' \in Ops
  BY <1>1, <1>2, <1>3 DEF BackupInv, Backup!TypeOK, Ops
<1>7. MakingInv' /\ RestoringInv' /\ Backup!SafetyOnDisk' /\ Backup!NothingBrokenIsRestored'
  BY <1>1, <1>2 DEF BackupInv, MakingInv, RestoringInv, Backup!SafetyOnDisk, Backup!NothingBrokenIsRestored, Intact
<1> QED  BY <1>1, <1>5, <1>6, <1>7 DEF BackupInv

LEMMA OverwriteStep ==
    ASSUME Backup!ConstantsFit, BackupInv, Backup!Overwrite
    PROVE  BackupInv'
<1> USE BackupFacts
<1> DEFINE path   == op.restores.path
           source == IF files[path] = Nothing THEN Backup!Empty ELSE files[path]
<1>1. /\ op \in Restoring /\ op.at = "removed" /\ UNCHANGED <<made, backup_faults>>
      /\ files' = [files EXCEPT ![path] = source] /\ live' = source
      /\ op' = [op EXCEPT !.at = "restored"]
  BY OpByPlace DEF Backup!Overwrite
<1>2. /\ op' \in Restoring /\ op'.at = "restored" /\ op'.restores = op.restores /\ op'.safety = op.safety
      /\ op'.replaced = op.replaced
  BY <1>1 DEF Restoring
<1>3. /\ path \in Backup!Paths /\ op.restores \in Backup!Records /\ path <= made /\ op.restores.healthy /\ Intact(path)
      /\ op.safety # Nothing => op.safety \in Backup!Paths /\ op.safety <= made /\ path # op.safety
                                /\ files[op.safety] = op.replaced
  BY <1>1 DEF Restoring, Backup!Records, BackupInv, RestoringInv, Backup!SafetyOnDisk
<1>4. /\ Backup!Empty \in Backup!Contents /\ Backup!Empty.state = "empty" /\ Backup!Empty.log = <<>>
      /\ Truthful(<<>>)
  BY DEF Backup!Contents, Backup!Empty, Truthful, Backup!ConstantsFit
<1>5. source \in Backup!Contents /\ source.state \in {"sound", "empty"} /\ source # Nothing
  BY <1>3, <1>4 DEF Intact
<1>6. source.log \in Seq(Backup!Records) /\ Truthful(source.log)
  <2>1. CASE files[path] = Nothing
    <3>1. Backup!Empty.log \in Seq(Backup!Records) /\ Truthful(Backup!Empty.log)
      BY <1>4
    <3> QED  BY <2>1, <3>1
  <2>2. CASE files[path] # Nothing
    BY <1>3, <2>2 DEF BackupInv
  <2> QED  BY <2>1, <2>2
<1> HIDE DEF source
<1>7. files'[path] = source /\ \A p \in Backup!Paths : p # path => files'[p] = files[p]
  BY <1>1, <1>3
<1>8. \A p \in Backup!Paths : Intact(p) => Intact(p)'
  BY <1>5, <1>7 DEF Intact
<1>9. \A l \in Seq(Backup!Records) : Truthful(l) => Truthful(l)'
  BY <1>1, <1>8, TruthfulStays
<1>10. ASSUME NEW l, l = source.log PROVE Truthful(l)'
  BY <1>6, <1>9, <1>10
<1>11. Truthful(live.log)'
  BY <1>1, <1>10 DEF Truthful, Intact
<1>12. ASSUME NEW p \in Backup!Paths, files'[p] # Nothing
       PROVE  Truthful(files[p].log)' /\ files'[p] \in Backup!Contents /\ p <= made
  <2>1. CASE p = path
    BY <1>3, <1>5, <1>7, <1>10, <2>1 DEF Truthful, Intact
  <2>2. CASE p # path
    <3>1. files'[p] = files[p] /\ files[p] \in Backup!Contents /\ p <= made /\ files[p].log \in Seq(Backup!Records)
      BY <1>7, <1>12, <2>2
    <3>2. ASSUME NEW l, l = files[p].log PROVE Truthful(l)'
      BY <1>9, <1>12, <3>1, <3>2 DEF BackupInv
    <3> QED  BY <3>1, <3>2 DEF Truthful, Intact
  <2> QED  BY <2>1, <2>2
<1>13. files' \in [Backup!Paths -> Backup!Contents \cup {Nothing}]
  BY <1>1, <1>5
<1>14. Backup!TypeOK' /\ op' \in Ops
  BY <1>1, <1>2, <1>5, <1>12 DEF BackupInv, Backup!TypeOK, Ops
<1>15. RestoringInv' /\ Backup!SafetyOnDisk'
  <2>1. ASSUME NEW q, q = path PROVE Intact(q)'
    BY <1>3, <1>8, <2>1
  <2>2. op'.restores.path = path /\ Intact(op.restores.path)'
    BY <1>2, <2>1 DEF Intact
  <2>3. op.safety # Nothing => files'[op.safety] = op.replaced
    BY <1>3, <1>7
  <2> QED  BY <1>1, <1>2, <1>3, <2>2, <2>3 DEF RestoringInv, Backup!SafetyOnDisk
<1>16. MakingInv' /\ Backup!NothingBrokenIsRestored'
  BY <1>1, <1>2, <1>5 DEF MakingInv, Backup!NothingBrokenIsRestored
<1> QED  BY <1>11, <1>12, <1>13, <1>14, <1>15, <1>16 DEF BackupInv

LEMMA BackupsGoOn ==
    ASSUME Backup!ConstantsFit, BackupInv, [Backup!Next]_(Backup!backups)
    PROVE  BackupInv'
<1> USE BackupFacts
<1>1. CASE Backup!Backup
  BY <1>1, CopiedStep DEF Backup!Backup
<1>2. CASE Backup!Restore
  <2>1. PICK i \in DOMAIN live.log : live.log[i].healthy /\ Backup!Copied(live.log[i])
    BY <1>2 DEF Backup!Restore
  <2>2. live.log[i] \in Backup!Records /\ live.state # "unreadable" /\ UNCHANGED <<live, backup_faults>>
    BY <1>2 DEF Backup!Restore, Backup!HasTables
  <2> QED  BY <2>1, <2>2, CopiedStep
<1>3. CASE Backup!Report
  BY <1>3, QuietStep DEF Backup!Report, BackupInv, Backup!TypeOK
<1>4. CASE Backup!Write
  <2>1. live' \in Backup!Contents /\ live'.log = live.log /\ live'.state = "sound"
    BY <1>4 DEF Backup!Write, Backup!Contents, Backup!ConstantsFit
  <2> QED  BY <1>4, <2>1, QuietStep DEF Backup!Write, BackupInv, Backup!TypeOK, Backup!NothingBrokenIsRestored
<1>5. CASE Backup!Damage
  <2>1. live' \in Backup!Contents /\ live'.log = live.log
    BY <1>5 DEF Backup!Damage, Backup!Contents
  <2>2. backup_faults' \in 0..MaxDamages
    BY <1>5 DEF Backup!Damage, Backup!ConstantsFit
  <2> QED  BY <1>5, <2>1, <2>2, QuietStep DEF Backup!Damage, Backup!NothingBrokenIsRestored
<1>6. CASE Backup!Die
  <2>1. backup_faults' \in 0..MaxDamages
    BY <1>6 DEF Backup!Die, Backup!ConstantsFit
  <2> QED  BY <1>6, <2>1, QuietStep DEF Backup!Die
<1>7. CASE UNCHANGED Backup!backups
  BY <1>7, QuietStep DEF Backup!backups, BackupInv, Backup!TypeOK, Backup!NothingBrokenIsRestored
<1> QED  BY <1>1, <1>2, <1>3, <1>4, <1>5, <1>6, <1>7, VerifyStep, RecordStep, RemoveStep, OverwriteStep DEF Backup!Next

\* For any numbers of rows, backups, damages and deaths, and a retention of at least one file:
\* what a restore replaces stays on disk until it is reported, although the backup it made first
\* had others pruned, and it never puts a broken database in place of the live one.
THEOREM RestoresLoseNothing ==
    ASSUME Backup!ConstantsFit
    PROVE  Backup!Spec => []Backup!RestoresAreSound
<1>1. Backup!Init => BackupInv
  BY BackupsBegin
<1>2. BackupInv /\ [Backup!Next]_(Backup!backups) => BackupInv'
  BY BackupsGoOn
<1>3. BackupInv => Backup!RestoresAreSound
  BY DEF BackupInv, Backup!RestoresAreSound
<1> QED  BY <1>1, <1>2, <1>3, PTL DEF Backup!Spec

-----------------------------------------------------------------------------
(* The exits of the candle replays (ExitEngine): a ladder of targets, a stop *)
(* that follows it, the Break Even Engine and the trail.                     *)
CONSTANTS ExitPrices, ExitStops, ExitTargets, Origin, Trigger, ExitTrails, MaxHold, DayEnd
VARIABLES exit_engine, breakeven, position, exit_candle, exit_trade

Exits == INSTANCE ExitEngine WITH
    engine <- exit_engine, candle <- exit_candle, trade <- exit_trade, Prices <- ExitPrices,
    Stops <- ExitStops, Targets <- ExitTargets, Trails <- ExitTrails, LastCandle <- DayEnd

\* Assumed of the constants: three targets no nearer than the entry, and at least a candle to hold a trade.
ExitConstants ==
    /\ ExitPrices \cup ExitStops \cup ExitTrails \cup {Origin, Trigger} \subseteq Int
    /\ ExitTargets \in [1..3 -> Nat]
    /\ MaxHold \in Nat \ {0} /\ DayEnd \in Nat \ {0}

\* What a target or the Break Even Engine has protected stands at the entry or better.
Guarded(p) == p.sl >= 0 \/ (p.best = 0 /\ p.even = FALSE)
Held(lowest, longest) == [open : {TRUE}, sl : Int, best : 0..3, even : BOOLEAN, held : lowest..longest]

ExitInv ==
    /\ exit_engine \in {"dsr", "v4"} /\ breakeven \in BOOLEAN /\ exit_candle \in 0..DayEnd
    /\ position \in Held(0, MaxHold - 1) \cup {Exits!Flat}
    /\ Guarded(position)
    /\ exit_trade.reason \in Exits!Reasons \cup {"none"} /\ exit_trade.points \in Int /\ exit_trade.held \in 0..MaxHold
    /\ Exits!ProtectedIsNoLoss
    /\ Exits!StoppedWhereItStood

LEMMA HeldFields ==
    /\ \A p \in Held(1, MaxHold) :
          p.open = TRUE /\ p.sl \in Int /\ p.best \in 0..3 /\ p.even \in BOOLEAN /\ p.held \in 1..MaxHold
    /\ \A p \in Held(0, MaxHold - 1) :
          p.open = TRUE /\ p.sl \in Int /\ p.best \in 0..3 /\ p.even \in BOOLEAN /\ p.held \in 0..(MaxHold - 1)
BY DEF Held

LEMMA HeldWithin ==
    ASSUME ExitConstants
    PROVE  1..MaxHold \subseteq 0..MaxHold
BY DEF ExitConstants

LEMMA HeldNarrows ==
    ASSUME NEW p \in Held(1, MaxHold), p.held \in 0..(MaxHold - 1)
    PROVE  p \in Held(0, MaxHold - 1)
BY DEF Held

LEMMA HeldChanges ==
    \A p \in Held(1, MaxHold), sl \in Int :
        /\ \A best \in 0..3 :
              LET q == [p EXCEPT !.best = best, !.sl = sl] IN
              q \in Held(1, MaxHold) /\ q.best = best /\ q.sl = sl /\ q.held = p.held
        /\ LET q == [p EXCEPT !.sl = sl, !.even = TRUE] IN
           q \in Held(1, MaxHold) /\ q.best = p.best /\ q.sl = sl /\ q.held = p.held
        /\ LET q == [p EXCEPT !.sl = sl] IN
           /\ q \in Held(1, MaxHold) /\ q.best = p.best /\ q.sl = sl /\ q.held = p.held
           /\ q.even = p.even
BY ZenonT(30) DEF Held

\* A position just opened, or none.
LEMMA OpenedFields ==
    ASSUME ExitConstants, NEW q \in Exits!Opened \cup {Exits!Flat}
    PROVE  /\ q \in Held(0, MaxHold - 1) \cup {Exits!Flat} /\ Guarded(q) /\ q.held = 0
<1>1. CASE q = Exits!Flat
  <2>1. q.best = 0 /\ q.even = FALSE /\ q.held = 0
    BY <1>1 DEF Exits!Flat
  <2> QED BY <1>1, <2>1 DEF Guarded
<1>2. ASSUME NEW s \in ExitStops, q = [Exits!Flat EXCEPT !.open = TRUE, !.sl = s]
      PROVE  q \in Held(0, MaxHold - 1) /\ Guarded(q) /\ q.held = 0
  <2>1. q = [open |-> TRUE, sl |-> s, best |-> 0, even |-> FALSE, held |-> 0]
    BY <1>2 DEF Exits!Flat
  <2>2. s \in Int /\ 0 \in 0..(MaxHold - 1)
    BY DEF ExitConstants
  <2>3. q \in Held(0, MaxHold - 1)
    BY <2>1, <2>2 DEF Held
  <2>4. q.best = 0 /\ q.even = FALSE /\ q.held = 0
    BY <2>1
  <2> QED BY <2>3, <2>4 DEF Guarded
<1> QED BY <1>1, <1>2 DEF Exits!Opened

LEMMA HigherOfTwo ==
    ASSUME NEW a \in Int, NEW b \in Int
    PROVE  Exits!Max({a, b}) \in {a, b} /\ Exits!Max({a, b}) >= a /\ Exits!Max({a, b}) >= b
<1>1. \E x \in {a, b} : \A y \in {a, b} : x >= y
  <2>1. CASE a >= b
    BY <2>1
  <2>2. CASE ~(a >= b)
    BY <2>2
  <2> QED BY <2>1, <2>2
<1>2. Exits!Max({a, b}) \in {a, b} /\ \A y \in {a, b} : Exits!Max({a, b}) >= y
  BY <1>1 DEF Exits!Max
<1> QED BY <1>2

LEMMA HitIsATarget ==
    ASSUME ExitConstants, NEW c
    PROVE  Exits!Hit(c) \in 0..3
<1> DEFINE hits == {0} \cup {i \in DOMAIN ExitTargets : c.high >= ExitTargets[i]}
<1>1. hits \subseteq {0, 1, 2, 3} /\ 0 \in hits
  BY DEF ExitConstants
<1> HIDE DEF hits
<1>2. \E x \in hits : \A y \in hits : x >= y
  <2>1. CASE 3 \in hits
    BY <1>1, <2>1
  <2>2. CASE 3 \notin hits /\ 2 \in hits
    BY <1>1, <2>2
  <2>3. CASE 3 \notin hits /\ 2 \notin hits /\ 1 \in hits
    BY <1>1, <2>3
  <2>4. CASE 3 \notin hits /\ 2 \notin hits /\ 1 \notin hits
    BY <1>1, <2>4
  <2> QED BY <2>1, <2>2, <2>3, <2>4
<1>3. Exits!Max(hits) \in hits
  BY <1>2 DEF Exits!Max
<1> QED BY <1>1, <1>3 DEF Exits!Hit, hits

\* What the candle does to a position that is managed: the ratchet, the breakeven and the trail.
LEMMA RatchetProtects ==
    ASSUME ExitConstants, exit_engine \in {"dsr", "v4"}, NEW p \in Held(1, MaxHold), Guarded(p), NEW c
    PROVE  /\ Exits!Ratcheted(p, c) \in Held(1, MaxHold) /\ Guarded(Exits!Ratcheted(p, c))
           /\ Exits!Ratcheted(p, c).held = p.held
           /\ exit_engine = "v4" => Exits!Ratcheted(p, c).best >= p.best
<1> DEFINE hit == Exits!Hit(c)
<1>1. hit \in 0..3
  BY HitIsATarget
<1>0. p.best \in Int
  BY HeldFields
<1>2. CASE Exits!Ratcheted(p, c) = p
  BY <1>0, <1>2
<1>3. CASE hit # 0 /\ ~(exit_engine = "v4" /\ hit <= p.best)
  <2>1. Exits!Ratcheted(p, c) = [p EXCEPT !.best = hit, !.sl = Exits!Behind(hit)]
    BY <1>3 DEF Exits!Ratcheted
  <2> HIDE DEF hit
  <2>2. Exits!Behind(hit) \in Nat
    BY <1>1, <1>3 DEF Exits!Behind, ExitConstants
  <2> DEFINE q == Exits!Ratcheted(p, c)
             sl == Exits!Behind(hit)
  <2>3. sl \in Int /\ sl >= 0
    BY <2>2
  <2>4. q = [p EXCEPT !.best = hit, !.sl = sl]
    BY <2>1
  <2> HIDE DEF q, sl
  <2>5. q \in Held(1, MaxHold) /\ q.best = hit /\ q.sl = sl /\ q.held = p.held
    <3>1. /\ [p EXCEPT !.best = hit, !.sl = sl] \in Held(1, MaxHold)
          /\ [p EXCEPT !.best = hit, !.sl = sl].best = hit
          /\ [p EXCEPT !.best = hit, !.sl = sl].sl = sl
          /\ [p EXCEPT !.best = hit, !.sl = sl].held = p.held
      BY <1>1, <2>3 DEF Held
    <3> QED BY <2>4, <3>1
  <2>6. Guarded(q)
    BY <2>3, <2>5 DEF Guarded
  <2>7. exit_engine = "v4" => q.best >= p.best
    BY <1>0, <1>1, <1>3, <2>5
  <2> QED BY <2>5, <2>6, <2>7 DEF q
<1> QED BY <1>2, <1>3 DEF Exits!Ratcheted

LEMMA EvenProtects ==
    ASSUME NEW p \in Held(1, MaxHold), Guarded(p), NEW c
    PROVE  /\ Exits!Even(p, c) \in Held(1, MaxHold) /\ Guarded(Exits!Even(p, c))
           /\ Exits!Even(p, c).held = p.held /\ Exits!Even(p, c).best = p.best
<1>1. p.sl \in Int /\ 0 \in Int
  BY HeldFields
<1> DEFINE sl == Exits!Max({p.sl, 0})
<1>2. sl \in Int /\ sl >= 0
  BY <1>1, HigherOfTwo
<1>3. CASE Exits!Even(p, c) = p
  BY <1>3
<1>4. CASE Exits!Even(p, c) = [p EXCEPT !.sl = sl, !.even = TRUE]
  <2> DEFINE q == Exits!Even(p, c)
  <2> HIDE DEF sl
  <2>1. q = [p EXCEPT !.sl = sl, !.even = TRUE]
    BY <1>4
  <2> HIDE DEF q
  <2>2. q \in Held(1, MaxHold) /\ q.best = p.best /\ q.sl = sl /\ q.held = p.held
    BY <1>2, <2>1, HeldChanges
  <2>3. Guarded(q)
    BY <1>2, <2>2 DEF Guarded
  <2> QED BY <2>2, <2>3 DEF q
<1> QED BY <1>3, <1>4 DEF Exits!Even

LEMMA TrailProtects ==
    ASSUME NEW p \in Held(1, MaxHold), Guarded(p), NEW c, c.close \in Int, NEW trail \in Int
    PROVE  /\ Exits!Trailed(p, c, trail) \in Held(1, MaxHold) /\ Guarded(Exits!Trailed(p, c, trail))
           /\ Exits!Trailed(p, c, trail).held = p.held /\ Exits!Trailed(p, c, trail).best = p.best
<1>1. p.sl \in Int /\ c.close - trail \in Int
  BY HeldFields
<1> DEFINE sl == Exits!Max({p.sl, c.close - trail})
<1>2. sl \in Int /\ sl >= p.sl
  BY <1>1, HigherOfTwo
<1>3. Exits!Trailed(p, c, trail) = [p EXCEPT !.sl = sl]
  BY DEF Exits!Trailed
<1> DEFINE q == Exits!Trailed(p, c, trail)
<1> HIDE DEF sl, q
<1>4. q \in Held(1, MaxHold) /\ q.best = p.best /\ q.sl = sl /\ q.held = p.held /\ q.even = p.even
  <2>1. q = [p EXCEPT !.sl = sl]
    BY <1>3 DEF q
  <2>2. /\ [p EXCEPT !.sl = sl] \in Held(1, MaxHold) /\ [p EXCEPT !.sl = sl].best = p.best
        /\ [p EXCEPT !.sl = sl].sl = sl /\ [p EXCEPT !.sl = sl].held = p.held
        /\ [p EXCEPT !.sl = sl].even = p.even
    BY <1>2 DEF Held
  <2> QED BY <2>1, <2>2
<1>5. Guarded(q)
  BY <1>1, <1>2, <1>4 DEF Guarded
<1> QED BY <1>4, <1>5 DEF q

\* A position that ends: what is booked is what the reason promises.
LEMMA ExitKeeps ==
    ASSUME ExitConstants, ExitInv, NEW p \in Held(1, MaxHold), NEW reason \in Exits!Reasons, NEW points \in Int,
           Exits!Exit(p, reason, points) \/ (Exits!Finish(p, reason, points) /\ position' = Exits!Flat),
           reason \in {"BREAKEVEN STOP", "PROFIT-LOCKED STOP", "TARGET HIT"} => points >= 0,
           reason \in Exits!StopOuts => points = position.sl,
           UNCHANGED <<exit_engine, breakeven>>, exit_candle' \in 0..DayEnd
    PROVE  ExitInv'
<1>1. exit_trade' = [reason |-> reason, points |-> points, held |-> p.held, best |-> p.best, sl |-> position.sl]
  BY DEF Exits!Exit, Exits!Finish
<1>2. position' \in Exits!Opened \cup {Exits!Flat}
  BY DEF Exits!Exit, Exits!Finish
<1>3. position' \in Held(0, MaxHold - 1) \cup {Exits!Flat} /\ Guarded(position')
  BY <1>2, OpenedFields
<1>4. p.held \in 0..MaxHold
  <2>1. p.held \in 1..MaxHold
    BY HeldFields
  <2> QED BY <2>1, HeldWithin
<1>5. Exits!ProtectedIsNoLoss' /\ Exits!StoppedWhereItStood'
  BY <1>1 DEF Exits!ProtectedIsNoLoss, Exits!StoppedWhereItStood
<1> QED BY <1>1, <1>3, <1>4, <1>5 DEF ExitInv, Guarded

\* A position that is held on, or closed at the end of the day.
LEMMA StayKeeps ==
    ASSUME ExitConstants, ExitInv, NEW p \in Held(1, MaxHold), Guarded(p), NEW c, c.close \in Int, Exits!Stay(p, c),
           p.held # MaxHold, UNCHANGED <<exit_engine, breakeven>>, exit_candle' \in 0..DayEnd
    PROVE  ExitInv' /\ (position' = p \/ position' = Exits!Flat)
<1>1. CASE exit_candle + 1 = DayEnd
  <2>1. Exits!Finish(p, "TIME EXIT", c.close) /\ position' = Exits!Flat
    BY <1>1 DEF Exits!Stay
  <2>2. "TIME EXIT" \in Exits!Reasons /\ "TIME EXIT" \notin Exits!StopOuts
    BY DEF Exits!Reasons, Exits!StopOuts
  <2> QED BY <2>1, <2>2, ExitKeeps
<1>2. CASE exit_candle + 1 # DayEnd
  <2>1. position' = p /\ exit_trade' = exit_trade
    BY <1>2 DEF Exits!Stay
  <2>2. p \in Held(0, MaxHold - 1)
    <3>1. p.held \in 0..(MaxHold - 1)
      BY HeldFields DEF ExitConstants
    <3> QED BY <3>1, HeldNarrows
  <2> QED BY <2>1, <2>2 DEF ExitInv, Guarded, Exits!ProtectedIsNoLoss, Exits!StoppedWhereItStood
<1> QED BY <1>1, <1>2

LEMMA StopOutKeeps ==
    ASSUME ExitConstants, ExitInv, NEW p \in Held(1, MaxHold), Guarded(p), p.sl = position.sl,
           Exits!Exit(p, Exits!StopReason(p), p.sl), UNCHANGED <<exit_engine, breakeven>>, exit_candle' \in 0..DayEnd
    PROVE  ExitInv'
<1>1. p.best \in 0..3 /\ p.sl \in Int /\ p.even \in BOOLEAN
  BY HeldFields
<1>2. /\ Exits!StopReason(p) \in Exits!StopOuts
      /\ Exits!StopReason(p) # "STOP LOSS" => ~(p.best = 0 /\ p.even = FALSE)
  <2>1. CASE p.best >= 2
    <3>1. ~(p.best = 1 \/ (p.best = 0 /\ p.even)) /\ ~(p.best = 0 /\ p.even = FALSE)
      BY <1>1, <2>1
    <3>2. Exits!StopReason(p) = "PROFIT-LOCKED STOP"
      BY <2>1, <3>1, Zenon DEF Exits!StopReason
    <3> QED BY <3>1, <3>2 DEF Exits!StopOuts
  <2>2. CASE ~(p.best >= 2) /\ (p.best = 1 \/ (p.best = 0 /\ p.even = TRUE))
    <3>1. (p.best = 1 \/ (p.best = 0 /\ p.even)) /\ ~(p.best = 0 /\ p.even = FALSE)
      BY <1>1, <2>2
    <3>2. Exits!StopReason(p) = "BREAKEVEN STOP"
      BY <2>2, <3>1, Zenon DEF Exits!StopReason
    <3> QED BY <3>1, <3>2 DEF Exits!StopOuts
  <2>3. CASE p.best = 0 /\ p.even = FALSE
    <3>1. ~(p.best >= 2) /\ ~(p.best = 1 \/ (p.best = 0 /\ p.even))
      BY <1>1, <2>3
    <3>2. Exits!StopReason(p) = "STOP LOSS"
      BY <3>1, Zenon DEF Exits!StopReason
    <3> QED BY <3>2 DEF Exits!StopOuts
  <2>4. p.best >= 2 \/ (~(p.best >= 2) /\ (p.best = 0 \/ p.best = 1))
    BY <1>1
  <2>5. p.even = TRUE \/ p.even = FALSE
    BY <1>1
  <2> QED BY <2>1, <2>2, <2>3, <2>4, <2>5, Zenon
<1>3. Exits!StopReason(p) \in Exits!Reasons /\ Exits!StopReason(p) # "TARGET HIT"
  BY <1>2 DEF Exits!Reasons, Exits!StopOuts
<1>4. Exits!StopReason(p) \in {"BREAKEVEN STOP", "PROFIT-LOCKED STOP", "TARGET HIT"} => p.sl >= 0
  BY <1>2, <1>3 DEF Guarded
<1> QED BY <1>1, <1>2, <1>3, <1>4, ExitKeeps

\* One candle of a position, and what a position of V4 that is held on remembers.
LEMMA CandleKeeps ==
    ASSUME ExitConstants, ExitInv, Exits!Manage
    PROVE  ExitInv' /\ (exit_engine = "v4" /\ position'.open /\ position'.held > position.held
                           => position'.best >= position.best)
<1> DEFINE p == [position EXCEPT !.held = position.held + 1]
<1>1. /\ position \in Held(0, MaxHold - 1) /\ exit_candle < DayEnd /\ exit_candle' = exit_candle + 1
      /\ exit_candle \in Nat /\ DayEnd \in Nat /\ UNCHANGED <<exit_engine, breakeven>> /\ exit_engine \in {"dsr", "v4"}
  BY DEF Exits!Manage, ExitInv, Exits!Flat, ExitConstants
<1>2. p \in Held(1, MaxHold) /\ Guarded(p) /\ p.sl = position.sl /\ p.best = position.best
  <2>1. position.held \in 0..(MaxHold - 1) /\ MaxHold \in Nat /\ Guarded(position)
    BY <1>1, HeldFields DEF ExitInv, ExitConstants
  <2>2. position.held + 1 \in 1..MaxHold
    BY <2>1
  <2>3. p \in Held(1, MaxHold) /\ p.sl = position.sl /\ p.best = position.best /\ p.even = position.even
    BY <1>1, <2>2 DEF Held
  <2> QED BY <2>1, <2>3 DEF Guarded
<1>3. exit_candle' \in 0..DayEnd
  BY <1>1
<1>4. PICK c \in Exits!Candles : IF exit_engine = "v4" THEN Exits!ManageV4(p, c) ELSE Exits!ManageDsr(p, c)
  BY DEF Exits!Manage
<1>5. c.close \in Int /\ c.low \in Int /\ c.high \in Int
  BY DEF Exits!Candles, ExitConstants
<1> DEFINE ratcheted == Exits!Ratcheted(p, c)
           even      == Exits!Even(ratcheted, c)
<1> HIDE DEF p
<1>6. /\ ratcheted \in Held(1, MaxHold) /\ Guarded(ratcheted)
      /\ exit_engine = "v4" => ratcheted.best >= p.best
  BY <1>1, <1>2, RatchetProtects
<1> HIDE DEF ratcheted
<1>7. even \in Held(1, MaxHold) /\ Guarded(even) /\ even.best = ratcheted.best
  BY <1>6, EvenProtects
<1> HIDE DEF even
<1>8. /\ Exits!Flat.open = FALSE
      /\ \A q \in Exits!Opened : q.held = 0
      /\ position.held \in Nat /\ ExitTargets[3] \in Nat
  <2>1. position.held \in Nat
    BY <1>1, HeldFields DEF ExitConstants
  <2>2. Exits!Flat.open = FALSE /\ ExitTargets[3] \in Nat
    BY DEF Exits!Flat, ExitConstants
  <2> QED BY <2>1, <2>2, OpenedFields
\* Whoever enters again at once has held it for no candle.
<1>9. ASSUME NEW q, NEW reason, NEW points, Exits!Exit(q, reason, points)
      PROVE  ~(position'.open /\ position'.held > position.held)
  <2>1. position' = Exits!Flat \/ position' \in Exits!Opened
    BY <1>9 DEF Exits!Exit
  <2> QED BY <1>8, <2>1
<1>10. CASE Exits!Exit(p, Exits!StopReason(p), p.sl)
  BY <1>1, <1>2, <1>3, <1>9, <1>10, StopOutKeeps
<1>11. CASE Exits!Exit(ratcheted, "TARGET HIT", ExitTargets[3])
  <2>1. "TARGET HIT" \in Exits!Reasons /\ "TARGET HIT" \notin Exits!StopOuts
        /\ ExitTargets[3] \in Int /\ ExitTargets[3] >= 0
    BY <1>8 DEF Exits!Reasons, Exits!StopOuts
  <2> QED BY <1>1, <1>3, <1>6, <1>8, <1>9, <1>11, <2>1, ExitKeeps
<1>12. ASSUME NEW reason \in Exits!Early \cup {"STRUCTURE BREAK", "TIME EXIT"}, NEW q \in {ratcheted, even},
              Exits!Exit(q, reason, c.close)
       PROVE  ExitInv' /\ ~(position'.open /\ position'.held > position.held)
  <2>1. /\ reason \in Exits!Reasons /\ reason \notin Exits!StopOuts
        /\ reason \notin {"BREAKEVEN STOP", "PROFIT-LOCKED STOP", "TARGET HIT"}
    BY DEF Exits!Reasons, Exits!StopOuts, Exits!Early
  <2>2. q \in Held(1, MaxHold)
    BY <1>6, <1>7
  <2> QED BY <1>1, <1>3, <1>5, <1>9, <1>12, <2>1, <2>2, ExitKeeps
<1>13. ASSUME NEW trail \in ExitTrails, Exits!Stay(Exits!Trailed(even, c, trail), c), even.held < MaxHold, exit_engine = "v4"
       PROVE  ExitInv' /\ (position'.open => position'.best >= position.best)
  <2> DEFINE q == Exits!Trailed(even, c, trail)
  <2>1. trail \in Int
    BY DEF ExitConstants
  <2>2. q \in Held(1, MaxHold) /\ Guarded(q) /\ q.held = even.held /\ q.best = even.best
    BY <1>5, <1>7, <2>1, TrailProtects
  <2>3. q.held # MaxHold
    BY <1>13, <2>2 DEF Held, ExitConstants
  <2> HIDE DEF q
  <2>4. ExitInv' /\ (position' = q \/ position' = Exits!Flat)
    BY <1>1, <1>3, <1>5, <1>13, <2>2, <2>3, StayKeeps DEF q
  <2> QED BY <1>2, <1>6, <1>7, <1>8, <1>13, <2>2, <2>4
<1>14. CASE exit_engine = "v4"
  <2>1. Exits!ManageV4(p, c)
    BY <1>4, <1>14
  <2>2. \/ Exits!Exit(p, Exits!StopReason(p), p.sl)
        \/ Exits!Exit(ratcheted, "TARGET HIT", ExitTargets[3])
        \/ Exits!Exit(even, "STRUCTURE BREAK", c.close)
        \/ \E reason \in Exits!Early : Exits!Exit(even, reason, c.close)
        \/ Exits!Exit(even, "TIME EXIT", c.close)
        \/ even.held < MaxHold /\ \E trail \in ExitTrails : Exits!Stay(Exits!Trailed(even, c, trail), c)
    BY <2>1 DEF Exits!ManageV4, ratcheted, even
  <2> QED BY <1>10, <1>11, <1>12, <1>13, <1>14, <2>2
<1>15. CASE exit_engine # "v4"
  <2>1. Exits!ManageDsr(p, c)
    BY <1>4, <1>15
  <2>2. \/ Exits!Exit(p, Exits!StopReason(p), p.sl)
        \/ Exits!Exit(ratcheted, "TARGET HIT", ExitTargets[3])
        \/ Exits!Exit(ratcheted, "TIME EXIT", c.close)
        \/ /\ Exits!Stay(ratcheted, c)
           /\ ~(c.low <= p.sl) /\ ~(c.low > p.sl /\ ratcheted.best = 3)
           /\ ~(c.low > p.sl /\ ratcheted.best < 3 /\ ratcheted.held = MaxHold)
    BY <2>1 DEF Exits!ManageDsr, ratcheted
  <2>3. CASE Exits!Stay(ratcheted, c) /\ ~(c.low <= p.sl) /\ ~(c.low > p.sl /\ ratcheted.best = 3)
             /\ ~(c.low > p.sl /\ ratcheted.best < 3 /\ ratcheted.held = MaxHold)
    <3>1. ratcheted.best \in 0..3 /\ p.sl \in Int
      BY <1>2, <1>6 DEF Held
    <3>2. ratcheted.held # MaxHold
      BY <1>5, <2>3, <3>1
    <3> QED BY <1>1, <1>3, <1>5, <1>6, <1>15, <2>3, <3>2, StayKeeps
  <2> QED BY <1>10, <1>11, <1>12, <1>15, <2>2, <2>3
<1> QED BY <1>14, <1>15

LEMMA ExitsGoOn ==
    ASSUME ExitConstants, ExitInv, [Exits!Next]_(Exits!exits)
    PROVE  ExitInv' /\ (exit_engine = "v4" /\ position.open /\ position'.open /\ position'.held > position.held
                           => position'.best >= position.best)
<1>1. CASE Exits!Manage
  BY <1>1, CandleKeeps
<1>2. CASE Exits!Enter
  <2>1. /\ ~position.open /\ exit_candle < DayEnd /\ exit_candle' = exit_candle + 1 /\ UNCHANGED <<exit_engine, breakeven>>
        /\ position' \in Exits!Opened \cup {Exits!Flat}
        /\ exit_trade' \in {exit_trade, [Exits!NoTrade EXCEPT !.reason = "TIME EXIT"]}
    BY <1>2 DEF Exits!Enter
  <2>2. position' \in Held(0, MaxHold - 1) \cup {Exits!Flat} /\ Guarded(position')
    BY <2>1, OpenedFields
  <2>3. exit_candle' \in 0..DayEnd
    <3>1. exit_candle \in Nat /\ DayEnd \in Nat
      BY DEF ExitInv, ExitConstants
    <3>2. exit_candle < DayEnd /\ exit_candle' = exit_candle + 1
      BY <2>1
    <3> QED BY <3>1, <3>2
  <2>4. CASE exit_trade' = exit_trade
    BY <2>1, <2>2, <2>3, <2>4 DEF ExitInv, Guarded, Exits!ProtectedIsNoLoss, Exits!StoppedWhereItStood
  <2>5. CASE exit_trade' = [Exits!NoTrade EXCEPT !.reason = "TIME EXIT"]
    <3>1. exit_trade'.reason = "TIME EXIT" /\ exit_trade'.points = 0 /\ exit_trade'.held = 0
      BY <2>5 DEF Exits!NoTrade
    <3>2. "TIME EXIT" \in Exits!Reasons /\ "TIME EXIT" \notin Exits!StopOuts
      BY DEF Exits!Reasons, Exits!StopOuts
    <3>3. 0 \in 0..MaxHold /\ 0 \in Int
      BY DEF ExitConstants
    <3>4. Exits!ProtectedIsNoLoss' /\ Exits!StoppedWhereItStood'
      BY <3>1, <3>2 DEF Exits!ProtectedIsNoLoss, Exits!StoppedWhereItStood
    <3> QED BY <2>1, <2>2, <2>3, <3>1, <3>2, <3>3, <3>4 DEF ExitInv, Guarded
  <2> QED BY <2>1, <2>4, <2>5
<1>3. CASE Exits!NextDay \/ UNCHANGED Exits!exits
  <2>1. UNCHANGED <<exit_engine, breakeven, position, exit_trade>> /\ exit_candle' \in 0..DayEnd
    <3>1. exit_candle \in 0..DayEnd /\ DayEnd \in Nat
      BY DEF ExitInv, ExitConstants
    <3>2. 0 \in 0..DayEnd
      BY <3>1
    <3> QED BY <1>3, <3>1, <3>2 DEF Exits!NextDay, Exits!exits
  <2>2. ExitInv'
    BY <2>1 DEF ExitInv, Guarded, Exits!ProtectedIsNoLoss, Exits!StoppedWhereItStood
  <2>3. ~(position'.held > position.held) \/ ~position'.open
    <3>1. position = Exits!Flat \/ position.held \in Int
      BY HeldFields DEF ExitInv
    <3>2. Exits!Flat.open = FALSE
      BY DEF Exits!Flat
    <3> QED BY <2>1, <3>1, <3>2
  <2> QED BY <2>2, <2>3
<1> QED BY <1>1, <1>2, <1>3 DEF Exits!Next

LEMMA ExitsBegin ==
    ASSUME ExitConstants, Exits!Init
    PROVE  ExitInv
<1>1. /\ exit_engine \in {"dsr", "v4"} /\ breakeven \in BOOLEAN /\ exit_candle = 0
      /\ position = Exits!Flat /\ exit_trade = Exits!NoTrade
  BY DEF Exits!Init
<1>2. Guarded(position)
  BY <1>1, OpenedFields
<1>3. exit_trade.reason = "none" /\ exit_trade.points = 0 /\ exit_trade.held = 0
  BY <1>1 DEF Exits!NoTrade
<1>4. Exits!ProtectedIsNoLoss /\ Exits!StoppedWhereItStood
  BY <1>3 DEF Exits!ProtectedIsNoLoss, Exits!StoppedWhereItStood, Exits!StopOuts
<1>5. 0 \in 0..DayEnd /\ 0 \in 0..MaxHold
  BY DEF ExitConstants
<1> QED BY <1>1, <1>2, <1>3, <1>4, <1>5 DEF ExitInv

THEOREM StopsAreHonoured ==
    ASSUME ExitConstants
    PROVE  Exits!Init /\ [][Exits!Next]_(Exits!exits) =>
               /\ [](Exits!TypeOK /\ Exits!ProtectedIsNoLoss /\ Exits!StoppedWhereItStood)
               /\ Exits!TargetsOnlyAdvance
<1>1. Exits!Init => ExitInv
  BY ExitsBegin
<1>2. ExitInv /\ [Exits!Next]_(Exits!exits) => ExitInv'
  BY ExitsGoOn
<1>3. ExitInv => Exits!TypeOK /\ Exits!ProtectedIsNoLoss /\ Exits!StoppedWhereItStood
  <2> SUFFICES ASSUME ExitInv PROVE Exits!TypeOK
    BY DEF ExitInv
  <2>1. \A p \in Held(0, MaxHold - 1) : p \in Exits!Position
    <3>1. 0..(MaxHold - 1) \subseteq 0..MaxHold
      BY DEF ExitConstants
    <3> QED BY <3>1 DEF Held, Exits!Position
  <2> QED BY <2>1 DEF ExitInv, Exits!TypeOK
<1>4. ExitInv /\ [Exits!Next]_(Exits!exits) =>
        [(exit_engine = "v4" /\ position.open /\ position'.open /\ position'.held > position.held)
            => position'.best >= position.best]_(Exits!exits)
  BY ExitsGoOn
<1> QED BY <1>1, <1>2, <1>3, <1>4, PTL DEF Exits!TargetsOnlyAdvance

-----------------------------------------------------------------------------
(* The Trade Guardian (TradeGuardian): plans, advice and what is told of it. *)
CONSTANTS Positions, Plans, Ltps, Floors, Tiers, MaxGuardFaults
VARIABLES plan, guardian_saved, guardian_loop, guardian_told, lost, guardian_faults

Guardian == INSTANCE TradeGuardian WITH
    saved <- guardian_saved, loop <- guardian_loop, told <- guardian_told, faults <- guardian_faults,
    Premiums <- Ltps, MaxFaults <- MaxGuardFaults, None <- Nothing

\* Assumed of the constants: finitely many positions, plans in whole ticks, and a name for nothing.
GuardianConstants ==
    /\ IsFiniteSet(Positions)
    /\ Plans \subseteq [direction : {"CE", "PE"}, entry : Int, sl : Int]
    /\ Ltps \subseteq Int /\ Floors \subseteq Int /\ "CRITICAL" \in Tiers
    /\ MaxGuardFaults \in Nat
    /\ Nothing \notin Plans /\ Nothing \notin Guardian!Advice /\ Nothing \notin Int

Message == [position : Positions, advice : Guardian!Advice]
Todo    == guardian_loop.todo
Outbox  == guardian_loop.outbox

\* A stop that gives no more away than the plan's.
Within(pl, sl) == sl # Nothing => IF pl.direction = "CE" THEN sl >= pl.sl ELSE sl <= pl.sl

\* The same advice, as far as a change of it is told.
Alike(a, b) == a.action = b.action /\ a.tier = b.tier /\ a.sl = b.sl

GuardianTyped ==
    /\ plan \in [Positions -> Plans \cup {Nothing}]
    /\ guardian_saved \in [Positions -> Guardian!Advice \cup {Nothing}]
    /\ guardian_told \in [Positions -> Guardian!Advice \cup {Nothing}]
    /\ guardian_loop \in [at : {"asleep", "next", "fetched", "sending"}, todo : Seq(Positions), broker : BOOLEAN,
                          previous : Guardian!Advice \cup {Nothing}, outbox : Seq(Message)]
    /\ lost \subseteq Positions /\ guardian_faults \in 0..MaxGuardFaults

\* Only what has a plan is evaluated, each position once in a cycle: before its message, if at all.
CycleInv ==
    /\ \A p \in Positions : guardian_saved[p] # Nothing => plan[p] # Nothing
    /\ \A i \in 1..Len(Todo) : plan[Todo[i]] # Nothing
    /\ \A i, j \in 1..Len(Todo) : Todo[i] = Todo[j] => i = j
    /\ \A i, j \in 1..Len(Outbox) : Outbox[i].position = Outbox[j].position => i = j
    /\ \A i \in 1..Len(Todo), j \in 1..Len(Outbox) : Todo[i] # Outbox[j].position
    /\ guardian_loop.at = "asleep" => Todo = <<>> /\ Outbox = <<>>
    /\ guardian_loop.at = "fetched" =>
         /\ Todo # <<>>
         /\ Head(Todo) \notin lost => guardian_loop.previous = guardian_saved[Head(Todo)]

\* Of what is not lost, the advice that is saved is told or on its way.
ToldInv ==
    \A p \in Positions \ lost :
        guardian_saved[p] # Nothing =>
            IF \E i \in 1..Len(Outbox) : Outbox[i].position = p
            THEN \A i \in 1..Len(Outbox) : Outbox[i].position = p => Alike(Outbox[i].advice, guardian_saved[p])
            ELSE guardian_told[p] # Nothing /\ Alike(guardian_told[p], guardian_saved[p])

GuardianInv ==
    /\ GuardianTyped /\ CycleInv /\ ToldInv
    /\ \A p \in Positions : guardian_saved[p] # Nothing => Within(plan[p], guardian_saved[p].sl)

LEMMA GuardianBegins ==
    ASSUME GuardianConstants, Guardian!Init
    PROVE  GuardianInv
<1>1. /\ plan = [p \in Positions |-> Nothing] /\ guardian_saved = plan /\ guardian_told = plan
      /\ guardian_loop = Guardian!Asleep /\ lost = {} /\ guardian_faults = 0
  BY DEF Guardian!Init
<1>2. Todo = <<>> /\ Outbox = <<>> /\ Len(Todo) = 0 /\ Len(Outbox) = 0 /\ guardian_loop.at = "asleep"
  BY <1>1 DEF Todo, Outbox, Guardian!Asleep
<1>3. GuardianTyped
  BY <1>1 DEF GuardianTyped, Guardian!Asleep, GuardianConstants
<1>4. CycleInv
  BY <1>1, <1>2 DEF CycleInv
<1> QED BY <1>1, <1>3, <1>4 DEF GuardianInv, ToldInv

LEMMA ClosestOfTwo ==
    ASSUME NEW a \in Int, NEW b \in Int
    PROVE  /\ Guardian!Max({a, b}) \in Int /\ Guardian!Max({a, b}) >= a /\ Guardian!Max({a, b}) >= b
           /\ Guardian!Min({a, b}) \in Int /\ Guardian!Min({a, b}) <= a /\ Guardian!Min({a, b}) <= b
<1>1. (\E x \in {a, b} : \A y \in {a, b} : x >= y) /\ (\E x \in {a, b} : \A y \in {a, b} : x <= y)
  <2>1. CASE a >= b
    BY <2>1
  <2>2. CASE ~(a >= b)
    BY <2>2
  <2> QED BY <2>1, <2>2
<1>2. Guardian!Max({a, b}) \in {a, b} /\ \A y \in {a, b} : Guardian!Max({a, b}) >= y
  BY <1>1 DEF Guardian!Max
<1>3. Guardian!Min({a, b}) \in {a, b} /\ \A y \in {a, b} : Guardian!Min({a, b}) <= y
  BY <1>1 DEF Guardian!Min
<1> QED BY <1>2, <1>3

\* What an evaluation may say is advice, and its stop gives no more away than the plan's.
LEMMA ClampedIsWithin ==
    ASSUME GuardianConstants, NEW pl \in Plans, NEW sl \in Int
    PROVE  Guardian!Clamped(pl, sl) \in Int /\ Within(pl, Guardian!Clamped(pl, sl))
<1>1. pl.direction \in {"CE", "PE"} /\ pl.sl \in Int /\ pl.entry \in Int
  BY DEF GuardianConstants
<1>2. CASE pl.direction = "CE"
  <2>1. Guardian!Clamped(pl, sl) = Guardian!Max({sl, pl.sl})
    BY <1>2 DEF Guardian!Clamped
  <2>2. Guardian!Max({sl, pl.sl}) \in Int /\ Guardian!Max({sl, pl.sl}) >= pl.sl
    BY <1>1, ClosestOfTwo
  <2> QED BY <1>2, <2>1, <2>2 DEF Within
<1>3. CASE pl.direction = "PE"
  <2>1. Guardian!Clamped(pl, sl) = Guardian!Min({sl, pl.sl})
    BY <1>3 DEF Guardian!Clamped
  <2>2. Guardian!Min({sl, pl.sl}) \in Int /\ Guardian!Min({sl, pl.sl}) <= pl.sl
    BY <1>1, ClosestOfTwo
  <2> QED BY <1>3, <2>1, <2>2 DEF Within
<1> QED BY <1>1, <1>2, <1>3

LEMMA PlansOwn ==
    ASSUME GuardianConstants, NEW pl \in Plans
    PROVE  pl.direction \in {"CE", "PE"} /\ pl.sl \in Int /\ pl.entry \in Int /\ Within(pl, pl.sl) /\ Within(pl, Nothing)
BY DEF GuardianConstants, Within

LEMMA DynamicIsWithin ==
    ASSUME GuardianConstants, NEW pl \in Plans, NEW premium \in Int, NEW floor \in Int
    PROVE  LET sl == Guardian!DynamicSl(pl, premium, floor).sl IN sl \in Int /\ Within(pl, sl)
<1> DEFINE risk  == Guardian!Risk(pl)
           gain  == Guardian!Gain(pl, premium)
           trail == Guardian!Max({risk \div 2, floor})
           away  == IF pl.direction = "CE" THEN premium - trail ELSE premium + trail
           keeps == risk = 0 \/ 4 * gain < 3 * risk
           even  == risk > 0 /\ 4 * gain >= 3 * risk /\ 2 * gain < 3 * risk
           smart == Guardian!DynamicSl(pl, premium, floor)
<1>1. pl.direction \in {"CE", "PE"} /\ pl.sl \in Int /\ pl.entry \in Int /\ Within(pl, pl.sl)
  BY PlansOwn
<1>2. risk \in Int /\ risk \div 2 \in Int
  BY <1>1 DEF Guardian!Risk
<1>3. away \in Int
  <2>1. trail \in Int
    BY <1>2, ClosestOfTwo
  <2> HIDE DEF trail
  <2> QED BY <2>1
<1>4. smart = CASE keeps -> [sl |-> pl.sl, move |-> "KEEP"]
                [] even -> [sl |-> Guardian!Clamped(pl, pl.entry), move |-> "BREAKEVEN"]
                [] OTHER -> [sl |-> Guardian!Clamped(pl, away), move |-> "TRAIL"]
  BY DEF Guardian!DynamicSl
<1>5. /\ Guardian!Clamped(pl, pl.entry) \in Int /\ Within(pl, Guardian!Clamped(pl, pl.entry))
      /\ Guardian!Clamped(pl, away) \in Int /\ Within(pl, Guardian!Clamped(pl, away))
  BY <1>1, <1>3, ClampedIsWithin
<1> HIDE DEF keeps, even, away, smart
<1>6. smart.sl \in {pl.sl, Guardian!Clamped(pl, pl.entry), Guardian!Clamped(pl, away)}
  <2>1. CASE keeps /\ ~even
    BY <1>4, <2>1
  <2>2. CASE ~keeps /\ even
    BY <1>4, <2>2
  <2>3. CASE ~keeps /\ ~even
    BY <1>4, <2>3
  <2>4. ~(keeps /\ even)
    <3>1. gain \in Int
      BY <1>1 DEF Guardian!Gain
    <3> HIDE DEF risk, gain
    <3> QED BY <1>2, <3>1 DEF keeps, even
  <2> QED BY <2>1, <2>2, <2>3, <2>4
<1> QED BY <1>1, <1>5, <1>6 DEF smart

LEMMA AdviceIsWithin ==
    ASSUME GuardianConstants, NEW pl \in Plans, NEW broker, NEW advice \in Guardian!Evaluations(pl, broker)
    PROVE  advice \in Guardian!Advice /\ Within(pl, advice.sl)
<1>1. pl.sl \in Int /\ Within(pl, pl.sl) /\ Within(pl, Nothing)
  BY PlansOwn
<1>2. ASSUME NEW sl \in {pl.sl, Nothing}, NEW state \in {"UNKNOWN", "MONITORING"},
             advice = [state |-> state, sl |-> sl, tier |-> "CRITICAL", action |-> "HOLD"]
      PROVE  advice \in Guardian!Advice /\ Within(pl, advice.sl)
  BY <1>1, <1>2 DEF Guardian!Advice, Guardian!Actions, GuardianConstants
<1>3. ASSUME NEW x \in Ltps, NEW f \in Floors, NEW t \in Tiers, advice = Guardian!Evaluated(pl, x, f, t)
      PROVE  advice \in Guardian!Advice /\ Within(pl, advice.sl)
  <2> DEFINE premium == IF x = 0 THEN pl.entry ELSE x
             smart   == Guardian!DynamicSl(pl, premium, f)
             gain    == IF Guardian!Risk(pl) = 0 THEN 0 ELSE Guardian!Gain(pl, x)
             action  == Guardian!ActionFor(t, smart.move, gain)
  <2>1. premium \in Int /\ f \in Int
    BY PlansOwn DEF GuardianConstants
  <2>2. smart.sl \in Int /\ Within(pl, smart.sl)
    <3> HIDE DEF premium
    <3> QED BY <2>1, DynamicIsWithin
  <2>3. action \in Guardian!Actions
    <3>1. ASSUME NEW move, NEW n PROVE Guardian!ActionFor(t, move, n) \in Guardian!Actions
      <4>1. CASE t = "CRITICAL"
        BY <4>1 DEF Guardian!ActionFor, Guardian!Actions
      <4>2. CASE t = "WEAK"
        BY <4>2 DEF Guardian!ActionFor, Guardian!Actions
      <4>3. CASE t = "CAUTION"
        BY <4>3 DEF Guardian!ActionFor, Guardian!Actions
      <4>4. CASE t \notin {"CRITICAL", "WEAK", "CAUTION"}
        <5>1. CASE move = "TRAIL"
          BY <4>4, <5>1 DEF Guardian!ActionFor, Guardian!Actions
        <5>2. CASE move = "BREAKEVEN"
          BY <4>4, <5>2 DEF Guardian!ActionFor, Guardian!Actions
        <5>3. CASE move \notin {"TRAIL", "BREAKEVEN"}
          BY <4>4, <5>3 DEF Guardian!ActionFor, Guardian!Actions
        <5> QED BY <5>1, <5>2, <5>3
      <4> QED BY <4>1, <4>2, <4>3, <4>4
    <3> QED BY <3>1
  <2>4. advice = [state |-> "MONITORING", sl |-> smart.sl, tier |-> t, action |-> action]
    BY <1>3 DEF Guardian!Evaluated
  <2> HIDE DEF smart, action
  <2> QED BY <2>2, <2>3, <2>4 DEF Guardian!Advice
<1> QED BY <1>2, <1>3 DEF Guardian!Evaluations, Guardian!Unknown, Guardian!NoMarket

\* The first and the rest of a list.
LEMMA FirstAndRest ==
    ASSUME NEW S, NEW s \in Seq(S), s # <<>>
    PROVE  /\ Head(s) \in S /\ Head(s) = s[1] /\ Len(s) \in Nat /\ Len(s) >= 1
           /\ Tail(s) \in Seq(S) /\ Len(Tail(s)) = Len(s) - 1
           /\ \A i \in 1..(Len(s) - 1) : Tail(s)[i] = s[i + 1]
BY HeadTailProperties, EmptySeq, LenProperties

\* A cycle's list of plans: each position that has one, once.
LEMMA WakeKeeps ==
    ASSUME GuardianConstants, GuardianInv, Guardian!Wake
    PROVE  GuardianInv' /\ UNCHANGED plan
<1>1. PICK order \in Guardian!Orders, broker \in BOOLEAN :
          /\ {order[i] : i \in DOMAIN order} = {p \in Positions : plan[p] # Nothing}
          /\ guardian_loop' = [Guardian!Asleep EXCEPT !.at = "next", !.todo = order, !.broker = broker]
  BY DEF Guardian!Wake
<1>2. UNCHANGED <<plan, guardian_saved, guardian_told, lost, guardian_faults>> /\ guardian_loop.at = "asleep"
  BY DEF Guardian!Wake
<1>3. order \in Seq(Positions) /\ \A i, j \in 1..Len(order) : order[i] = order[j] => i = j
  <2>1. \A S : Guardian!Cardinality(S) = Cardinality(S)
    BY DEF Guardian!Cardinality, Cardinality
  <2>2. Cardinality(Positions) \in Nat
    BY FS_CardinalityType DEF GuardianConstants
  <2>3. PICK n \in 0..Cardinality(Positions) : order \in [1..n -> Positions]
    BY <2>1 DEF Guardian!Orders
  <2>4. n \in Nat /\ order \in Seq(Positions) /\ DOMAIN order = 1..n
    BY <2>2, <2>3
  <2>5. DOMAIN order = 1..Len(order)
    BY <2>4
  <2> QED BY <2>4, <2>5 DEF Guardian!Orders
<1>4. /\ guardian_loop'.at = "next" /\ Todo' = order /\ Outbox' = <<>> /\ Len(Outbox') = 0
      /\ Outbox = <<>> /\ Len(Outbox) = 0
  BY <1>1, <1>2 DEF Todo, Outbox, Guardian!Asleep, GuardianInv, CycleInv
<1>5. \A i \in 1..Len(order) : plan[order[i]] # Nothing
  <2>1. \A i \in DOMAIN order : plan[order[i]] # Nothing
    BY <1>1
  <2> QED BY <1>3, <2>1
<1>6. guardian_loop' \in [at : {"asleep", "next", "fetched", "sending"}, todo : Seq(Positions), broker : BOOLEAN,
                          previous : Guardian!Advice \cup {Nothing}, outbox : Seq(Message)]
  <2>1. guardian_loop' = [at |-> "next", todo |-> order, broker |-> broker, previous |-> Nothing, outbox |-> <<>>]
    BY <1>1 DEF Guardian!Asleep
  <2>2. <<>> \in Seq(Message)
    OBVIOUS
  <2> QED BY <1>3, <2>1, <2>2
<1>7. GuardianTyped'
  BY <1>2, <1>6 DEF GuardianInv, GuardianTyped
<1>8. CycleInv'
  BY <1>2, <1>3, <1>4, <1>5 DEF GuardianInv, CycleInv
<1>9. ToldInv'
  BY <1>2, <1>4 DEF GuardianInv, ToldInv
<1> QED BY <1>2, <1>7, <1>8, <1>9 DEF GuardianInv

\* What is evaluated is saved and put into the outbox when it says something new.
LEMMA EvaluateKeeps ==
    ASSUME GuardianConstants, GuardianInv, Guardian!Evaluate
    PROVE  GuardianInv' /\ UNCHANGED plan
<1> DEFINE p == Head(Todo)
<1>1. PICK advice \in Guardian!Evaluations(plan[p], guardian_loop.broker), written \in BOOLEAN :
          /\ written \/ guardian_faults < MaxGuardFaults
          /\ guardian_faults' = IF written THEN guardian_faults ELSE guardian_faults + 1
          /\ guardian_saved' = IF written THEN [guardian_saved EXCEPT ![p] = advice] ELSE guardian_saved
          /\ lost' = IF written THEN lost ELSE lost \cup {p}
          /\ guardian_loop' = [guardian_loop EXCEPT !.at = "next", !.todo = Tail(Todo), !.previous = Nothing,
                                 !.outbox = IF Guardian!Changed(guardian_loop.previous, advice)
                                            THEN Append(Outbox, [position |-> p, advice |-> advice]) ELSE Outbox]
  BY DEF Guardian!Evaluate, Todo, Outbox
<1>2. UNCHANGED <<plan, guardian_told>> /\ guardian_loop.at = "fetched"
  BY DEF Guardian!Evaluate
<1>3. Todo \in Seq(Positions) /\ Outbox \in Seq(Message) /\ Todo # <<>> /\ guardian_loop.broker \in BOOLEAN
      /\ (p \notin lost => guardian_loop.previous = guardian_saved[p])
  BY <1>2 DEF GuardianInv, GuardianTyped, CycleInv, Todo, Outbox
<1>4. /\ p \in Positions /\ p = Todo[1] /\ Len(Todo) \in Nat /\ Len(Todo) >= 1 /\ Tail(Todo) \in Seq(Positions)
      /\ Len(Tail(Todo)) = Len(Todo) - 1 /\ \A i \in 1..(Len(Todo) - 1) : Tail(Todo)[i] = Todo[i + 1]
  BY <1>3, FirstAndRest
<1>5. plan[p] \in Plans
  <2>1. plan[p] # Nothing /\ plan[p] \in Plans \cup {Nothing}
    BY <1>4 DEF GuardianInv, GuardianTyped, CycleInv
  <2> QED BY <2>1
<1>6. advice \in Guardian!Advice /\ Within(plan[p], advice.sl)
  BY <1>1, <1>5, AdviceIsWithin
<1> DEFINE changed == Guardian!Changed(guardian_loop.previous, advice)
           message == [position |-> p, advice |-> advice]
           box     == IF changed THEN Append(Outbox, message) ELSE Outbox
<1>7. message \in Message /\ message.position = p /\ message.advice = advice
  BY <1>4, <1>6 DEF Message
<1> HIDE DEF p, message
<1>8. /\ Todo' = Tail(Todo) /\ Outbox' = box /\ guardian_loop'.at = "next"
      /\ guardian_loop' \in [at : {"asleep", "next", "fetched", "sending"}, todo : Seq(Positions), broker : BOOLEAN,
                             previous : Guardian!Advice \cup {Nothing}, outbox : Seq(Message)]
  <2>1. box \in Seq(Message)
    BY <1>3, <1>7
  <2>2. guardian_loop' = [guardian_loop EXCEPT !.at = "next", !.todo = Tail(Todo), !.previous = Nothing,
                                 !.outbox = box]
    BY <1>1 DEF message
  <2> HIDE DEF box
  <2>3. guardian_loop \in [at : {"asleep", "next", "fetched", "sending"}, todo : Seq(Positions), broker : BOOLEAN,
                             previous : Guardian!Advice \cup {Nothing}, outbox : Seq(Message)]
    BY DEF GuardianInv, GuardianTyped
  <2> QED BY <1>4, <2>1, <2>2, <2>3 DEF Todo, Outbox
\* The outbox: what was there, and at its end what is new.
<1>9. /\ Len(Outbox) \in Nat /\ Len(box) \in {Len(Outbox), Len(Outbox) + 1}
      /\ \A i \in 1..Len(Outbox) : i \in 1..Len(box) /\ box[i] = Outbox[i]
      /\ \A i \in 1..Len(box) : i \in 1..Len(Outbox) \/ (changed /\ i = Len(Outbox) + 1 /\ box[i] = message)
      /\ changed => Len(Outbox) + 1 \in 1..Len(box) /\ box[Len(Outbox) + 1] = message
  <2>1. CASE changed
    <3>1. Len(Outbox) \in Nat /\ Len(box) = Len(Outbox) + 1 /\ box[Len(Outbox) + 1] = message
          /\ \A i \in 1..Len(Outbox) : box[i] = Outbox[i]
      BY <1>3, <1>7, <2>1
    <3> HIDE DEF box
    <3> QED BY <2>1, <3>1
  <2>2. CASE ~changed
    <3>1. Len(Outbox) \in Nat /\ box = Outbox
      BY <1>3, <2>2
    <3> HIDE DEF box
    <3> QED BY <2>2, <3>1
  <2> QED BY <2>1, <2>2
<1>10. \A j \in 1..Len(Outbox) : Outbox[j].position # p
  BY <1>4 DEF GuardianInv, CycleInv
<1> HIDE DEF box, changed
<1>11. /\ guardian_saved' \in [Positions -> Guardian!Advice \cup {Nothing}]
       /\ \A q \in Positions : q # p => guardian_saved'[q] = guardian_saved[q]
       /\ guardian_saved'[p] = IF written THEN advice ELSE guardian_saved[p]
       /\ lost' \subseteq Positions /\ guardian_faults' \in 0..MaxGuardFaults
       /\ \A q \in Positions \ lost' : q \notin lost /\ (q = p => written)
  <2>1. guardian_saved \in [Positions -> Guardian!Advice \cup {Nothing}] /\ lost \subseteq Positions
    BY DEF GuardianInv, GuardianTyped
  <2>2. guardian_faults' \in 0..MaxGuardFaults
    <3>1. guardian_faults \in 0..MaxGuardFaults /\ MaxGuardFaults \in Nat
      BY DEF GuardianInv, GuardianTyped, GuardianConstants
    <3> QED BY <1>1, <3>1
  <2>3. CASE written
    BY <1>1, <1>4, <1>6, <2>1, <2>2, <2>3
  <2>4. CASE ~written
    BY <1>1, <1>4, <2>1, <2>2, <2>4
  <2> QED BY <2>3, <2>4
<1>12. GuardianTyped'
  BY <1>2, <1>8, <1>11 DEF GuardianInv, GuardianTyped
<1>13. CycleInv'
  <2>1. \A q \in Positions : guardian_saved'[q] # Nothing => plan'[q] # Nothing
    BY <1>2, <1>4, <1>5, <1>11 DEF GuardianInv, CycleInv, GuardianConstants
  <2>2. /\ \A i \in 1..Len(Todo') : plan'[Todo'[i]] # Nothing /\ Todo'[i] # p
        /\ \A i, j \in 1..Len(Todo') : Todo'[i] = Todo'[j] => i = j
        /\ \A i \in 1..Len(Todo'), j \in 1..Len(Outbox) : Todo'[i] # Outbox[j].position
    <3>1. \A i \in 1..Len(Todo') : i + 1 \in 1..Len(Todo) /\ Todo'[i] = Todo[i + 1]
      BY <1>4, <1>8
    <3>2. 1 \in 1..Len(Todo) /\ \A i \in 1..Len(Todo') : i + 1 # 1
      BY <1>4, <1>8
    <3>3. \A i, j \in 1..Len(Todo') : i + 1 = j + 1 => i = j
      BY <1>4, <1>8
    <3>4. /\ \A i \in 1..Len(Todo) : plan[Todo[i]] # Nothing
          /\ \A i, j \in 1..Len(Todo) : Todo[i] = Todo[j] => i = j
          /\ \A i \in 1..Len(Todo), j \in 1..Len(Outbox) : Todo[i] # Outbox[j].position
      BY DEF GuardianInv, CycleInv
    <3>5. \A i \in 1..Len(Todo') : plan'[Todo'[i]] # Nothing /\ Todo'[i] # p
      BY <1>2, <1>4, <3>1, <3>2, <3>4
    <3>6. \A i, j \in 1..Len(Todo') : Todo'[i] = Todo'[j] => i = j
      BY <3>1, <3>3, <3>4
    <3> QED BY <3>1, <3>4, <3>5, <3>6
  <2>3. \A i, j \in 1..Len(box) : box[i].position = box[j].position => i = j
    <3>1. \A i, j \in 1..Len(Outbox) : Outbox[i].position = Outbox[j].position => i = j
      BY DEF GuardianInv, CycleInv
    <3> QED BY <1>7, <1>9, <1>10, <3>1
  <2>4. \A i \in 1..Len(Todo'), j \in 1..Len(box) : Todo'[i] # box[j].position
    BY <1>7, <1>9, <2>2
  <2> QED BY <1>8, <2>1, <2>2, <2>3, <2>4 DEF CycleInv
<1>14. ToldInv'
  <2> SUFFICES ASSUME NEW q \in Positions \ lost', guardian_saved'[q] # Nothing
               PROVE  IF \E i \in 1..Len(box) : box[i].position = q
                      THEN \A i \in 1..Len(box) : box[i].position = q => Alike(box[i].advice, guardian_saved'[q])
                      ELSE guardian_told[q] # Nothing /\ Alike(guardian_told[q], guardian_saved'[q])
    BY <1>2, <1>8 DEF ToldInv
  <2>1. CASE q # p
    <3>1. q \notin lost /\ guardian_saved'[q] = guardian_saved[q]
      BY <1>11, <2>1
    <3>2. (\E i \in 1..Len(box) : box[i].position = q) <=> \E i \in 1..Len(Outbox) : Outbox[i].position = q
      BY <1>7, <1>9, <2>1
    <3>3. \A i \in 1..Len(box) : box[i].position = q => i \in 1..Len(Outbox) /\ box[i] = Outbox[i]
      BY <1>7, <1>9, <2>1
    <3> QED BY <3>1, <3>2, <3>3 DEF GuardianInv, ToldInv
  <2>2. CASE q = p /\ changed
    <3>1. guardian_saved'[q] = advice
      BY <1>11, <2>2
    <3>2. \A i \in 1..Len(box) : box[i].position = q => box[i].advice = advice
      BY <1>7, <1>9, <1>10, <2>2
    <3>3. \E i \in 1..Len(box) : box[i].position = q
      BY <1>7, <1>9, <2>2
    <3> QED BY <3>1, <3>2, <3>3 DEF Alike
  <2>3. CASE q = p /\ ~changed
    <3>1. guardian_saved'[q] = advice /\ q \notin lost /\ guardian_loop.previous = guardian_saved[q]
      BY <1>3, <1>11, <2>3 DEF p
    <3>2. guardian_saved[q] # Nothing /\ Alike(guardian_saved[q], advice)
      BY <2>3, <3>1 DEF changed, Guardian!Changed, Alike
    <3>3. ~\E i \in 1..Len(Outbox) : Outbox[i].position = q
      BY <1>10, <2>3
    <3>4. guardian_told[q] # Nothing /\ Alike(guardian_told[q], guardian_saved[q])
      BY <3>1, <3>2, <3>3 DEF GuardianInv, ToldInv
    <3>5. ~\E i \in 1..Len(box) : box[i].position = q
      BY <1>9, <2>3, <3>3
    <3> QED BY <3>1, <3>2, <3>4, <3>5 DEF Alike
  <2> QED BY <2>1, <2>2, <2>3
<1>15. \A q \in Positions : guardian_saved'[q] # Nothing => Within(plan'[q], guardian_saved'[q].sl)
  BY <1>2, <1>6, <1>11 DEF GuardianInv
<1> QED BY <1>2, <1>12, <1>13, <1>14, <1>15 DEF GuardianInv

\* The message at the head of the outbox goes, or is lost.
LEMMA SendKeeps ==
    ASSUME GuardianConstants, GuardianInv, Guardian!Send
    PROVE  GuardianInv' /\ UNCHANGED plan
<1> DEFINE m == Head(Outbox)
<1>1. /\ UNCHANGED <<plan, guardian_saved>> /\ guardian_loop.at = "next" /\ Todo = <<>> /\ Outbox # <<>>
      /\ guardian_loop' = [guardian_loop EXCEPT !.outbox = Tail(Outbox)]
  BY DEF Guardian!Send, Todo, Outbox
<1>2. /\ Outbox \in Seq(Message) /\ lost \subseteq Positions /\ guardian_faults \in 0..MaxGuardFaults
      /\ guardian_told \in [Positions -> Guardian!Advice \cup {Nothing}]
  BY DEF GuardianInv, GuardianTyped, Outbox
<1>3. /\ m \in Message /\ m = Outbox[1] /\ Len(Outbox) \in Nat /\ Len(Outbox) >= 1
      /\ Tail(Outbox) \in Seq(Message) /\ Len(Tail(Outbox)) = Len(Outbox) - 1
      /\ \A i \in 1..(Len(Outbox) - 1) : Tail(Outbox)[i] = Outbox[i + 1]
  BY <1>1, <1>2, FirstAndRest
<1>4. m.position \in Positions /\ m.advice \in Guardian!Advice /\ m.advice # Nothing
  BY <1>3 DEF Message, GuardianConstants
<1>5. \/ /\ guardian_told' = [guardian_told EXCEPT ![m.position] = m.advice]
         /\ lost' = IF m.advice = guardian_saved[m.position] THEN lost \ {m.position} ELSE lost
         /\ UNCHANGED guardian_faults
      \/ /\ guardian_faults < MaxGuardFaults /\ guardian_faults' = guardian_faults + 1
         /\ lost' = lost \cup {m.position} /\ UNCHANGED guardian_told
  BY DEF Guardian!Send, Outbox
<1> HIDE DEF m
<1>6. /\ Outbox' = Tail(Outbox) /\ Todo' = Todo /\ guardian_loop'.at = "next"
      /\ guardian_loop' \in [at : {"asleep", "next", "fetched", "sending"}, todo : Seq(Positions), broker : BOOLEAN,
                             previous : Guardian!Advice \cup {Nothing}, outbox : Seq(Message)]
  <2>1. guardian_loop \in [at : {"asleep", "next", "fetched", "sending"}, todo : Seq(Positions), broker : BOOLEAN,
                             previous : Guardian!Advice \cup {Nothing}, outbox : Seq(Message)]
    BY DEF GuardianInv, GuardianTyped
  <2> QED BY <1>1, <1>3, <2>1 DEF Todo, Outbox
<1>7. /\ guardian_told' \in [Positions -> Guardian!Advice \cup {Nothing}] /\ lost' \subseteq Positions
      /\ \A q \in Positions : q # m.position => guardian_told'[q] = guardian_told[q] /\ (q \in lost' <=> q \in lost)
      /\ m.position \notin lost' => guardian_told'[m.position] = m.advice
      /\ m.position \notin lost' => m.advice = guardian_saved[m.position] \/ m.position \notin lost
  BY <1>2, <1>4, <1>5
<1>8. guardian_faults' \in 0..MaxGuardFaults
  <2>1. MaxGuardFaults \in Nat
    BY DEF GuardianConstants
  <2> QED BY <1>2, <1>5, <2>1
<1>9. GuardianTyped'
  BY <1>1, <1>6, <1>7, <1>8 DEF GuardianInv, GuardianTyped
\* What is left of the outbox, and that the message was the only one about its position.
<1>10. /\ \A i \in 1..Len(Outbox') : i + 1 \in 1..Len(Outbox) /\ i + 1 # 1 /\ Outbox'[i] = Outbox[i + 1]
       /\ \A i \in 1..Len(Outbox) : i = 1 \/ (i - 1 \in 1..Len(Outbox') /\ Outbox'[i - 1] = Outbox[i])
       /\ \A i, j \in 1..Len(Outbox') : i + 1 = j + 1 => i = j
       /\ 1 \in 1..Len(Outbox)
  BY <1>3, <1>6
<1>11. \A i, j \in 1..Len(Outbox) : Outbox[i].position = Outbox[j].position => i = j
  BY DEF GuardianInv, CycleInv
<1>12. \A i \in 1..Len(Outbox') : Outbox'[i].position # m.position
  BY <1>3, <1>10, <1>11
<1>13. CycleInv'
  <2>1. \A i, j \in 1..Len(Outbox') : Outbox'[i].position = Outbox'[j].position => i = j
    BY <1>10, <1>11
  <2>2. Len(Todo') = 0
    BY <1>1, <1>6
  <2> QED BY <1>1, <1>6, <2>1, <2>2 DEF GuardianInv, CycleInv
<1>14. ToldInv'
  <2> SUFFICES ASSUME NEW q \in Positions \ lost', guardian_saved[q] # Nothing
               PROVE  IF \E i \in 1..Len(Outbox') : Outbox'[i].position = q
                      THEN \A i \in 1..Len(Outbox') : Outbox'[i].position = q => Alike(Outbox'[i].advice, guardian_saved[q])
                      ELSE guardian_told'[q] # Nothing /\ Alike(guardian_told'[q], guardian_saved[q])
    BY <1>1 DEF ToldInv
  <2>1. CASE q # m.position
    <3>1. q \notin lost /\ guardian_told'[q] = guardian_told[q]
      BY <1>7, <2>1
    <3>2. (\E i \in 1..Len(Outbox') : Outbox'[i].position = q) <=> \E i \in 1..Len(Outbox) : Outbox[i].position = q
      BY <1>3, <1>10, <2>1
    <3>3. \A i \in 1..Len(Outbox') : \E j \in 1..Len(Outbox) : Outbox'[i] = Outbox[j]
      BY <1>10
    <3> QED BY <3>1, <3>2, <3>3 DEF GuardianInv, ToldInv
  <2>2. CASE q = m.position
    <3>1. guardian_told'[q] = m.advice /\ (m.advice = guardian_saved[q] \/ q \notin lost)
      BY <1>7, <2>2
    <3>2. q \notin lost => Alike(m.advice, guardian_saved[q])
      BY <1>3, <1>10, <2>2 DEF GuardianInv, ToldInv
    <3>3. Alike(m.advice, guardian_saved[q])
      BY <3>1, <3>2 DEF Alike
    <3> QED BY <1>4, <1>12, <2>2, <3>1, <3>3
  <2> QED BY <2>1, <2>2
<1> QED BY <1>1, <1>9, <1>13, <1>14 DEF GuardianInv

\* A plan is given once; an evaluation by hand is never told; a death forgets what was to be sent.
LEMMA RegisterKeeps ==
    ASSUME GuardianConstants, GuardianInv, Guardian!Register
    PROVE  GuardianInv' /\ \A p \in Positions : plan[p] # Nothing => plan'[p] = plan[p]
<1>1. PICK p \in Positions, pl \in Plans : plan' = [plan EXCEPT ![p] = Guardian!Kept(p, pl)]
  BY DEF Guardian!Register
<1>2. UNCHANGED <<guardian_saved, guardian_loop, guardian_told, lost, guardian_faults>>
  BY DEF Guardian!Register
<1>3. plan \in [Positions -> Plans \cup {Nothing}] /\ pl # Nothing
  BY DEF GuardianInv, GuardianTyped, GuardianConstants
<1>4. Guardian!Kept(p, pl) \in Plans /\ (plan[p] # Nothing => Guardian!Kept(p, pl) = plan[p])
  BY <1>3 DEF Guardian!Kept
<1>5. /\ plan' \in [Positions -> Plans \cup {Nothing}]
      /\ \A q \in Positions : plan[q] # Nothing => plan'[q] = plan[q]
  BY <1>1, <1>3, <1>4
<1>6. Todo' = Todo /\ Outbox' = Outbox
  BY <1>2 DEF Todo, Outbox
<1>7. GuardianTyped'
  BY <1>2, <1>5 DEF GuardianInv, GuardianTyped
<1>8. CycleInv'
  <2>1. \A i \in 1..Len(Todo) : Todo[i] \in Positions
    BY DEF GuardianInv, GuardianTyped, Todo
  <2> QED BY <1>2, <1>5, <1>6, <2>1 DEF GuardianInv, CycleInv
<1>9. ToldInv'
  BY <1>2, <1>6 DEF GuardianInv, ToldInv
<1> QED BY <1>2, <1>5, <1>7, <1>8, <1>9 DEF GuardianInv, CycleInv

LEMMA FetchPlanKeeps ==
    ASSUME GuardianConstants, GuardianInv, Guardian!FetchPlan
    PROVE  GuardianInv' /\ UNCHANGED plan
<1>1. /\ UNCHANGED <<plan, guardian_saved, guardian_told, lost, guardian_faults>> /\ Todo # <<>>
      /\ guardian_loop' = [guardian_loop EXCEPT !.at = "fetched", !.previous = guardian_saved[Head(Todo)]]
  BY DEF Guardian!FetchPlan, Todo
<1>2. /\ guardian_loop \in [at : {"asleep", "next", "fetched", "sending"}, todo : Seq(Positions), broker : BOOLEAN,
                            previous : Guardian!Advice \cup {Nothing}, outbox : Seq(Message)]
      /\ guardian_saved \in [Positions -> Guardian!Advice \cup {Nothing}] /\ Todo \in Seq(Positions)
  BY DEF GuardianInv, GuardianTyped, Todo
<1>3. guardian_saved[Head(Todo)] \in Guardian!Advice \cup {Nothing}
  BY <1>1, <1>2, FirstAndRest
<1>4. /\ Todo' = Todo /\ Outbox' = Outbox /\ guardian_loop'.previous = guardian_saved[Head(Todo)]
      /\ guardian_loop'.at = "fetched"
      /\ guardian_loop' \in [at : {"asleep", "next", "fetched", "sending"}, todo : Seq(Positions), broker : BOOLEAN,
                             previous : Guardian!Advice \cup {Nothing}, outbox : Seq(Message)]
  BY <1>1, <1>2, <1>3 DEF Todo, Outbox
<1>5. GuardianTyped'
  BY <1>1, <1>4 DEF GuardianInv, GuardianTyped
<1>6. CycleInv'
  BY <1>1, <1>4 DEF GuardianInv, CycleInv
<1>7. ToldInv'
  BY <1>1, <1>4 DEF GuardianInv, ToldInv
<1> QED BY <1>1, <1>5, <1>6, <1>7 DEF GuardianInv

LEMMA ByHandKeeps ==
    ASSUME GuardianConstants, GuardianInv, Guardian!ByHand
    PROVE  GuardianInv' /\ UNCHANGED plan
<1>1. PICK p \in Positions :
          /\ plan[p] # Nothing
          /\ \E advice \in Guardian!Evaluations(plan[p], TRUE) : guardian_saved' = [guardian_saved EXCEPT ![p] = advice]
          /\ lost' = lost \cup {p}
  BY DEF Guardian!ByHand
<1>2. PICK advice \in Guardian!Evaluations(plan[p], TRUE) : guardian_saved' = [guardian_saved EXCEPT ![p] = advice]
  BY <1>1
<1>3. /\ UNCHANGED <<plan, guardian_loop, guardian_told>>
      /\ guardian_faults < MaxGuardFaults /\ guardian_faults' = guardian_faults + 1
  BY DEF Guardian!ByHand
<1>4. /\ plan \in [Positions -> Plans \cup {Nothing}] /\ lost \subseteq Positions
      /\ guardian_saved \in [Positions -> Guardian!Advice \cup {Nothing}] /\ guardian_faults \in 0..MaxGuardFaults
      /\ MaxGuardFaults \in Nat
  BY DEF GuardianInv, GuardianTyped, GuardianConstants
<1>5. advice \in Guardian!Advice /\ Within(plan[p], advice.sl)
  <2>1. plan[p] \in Plans
    BY <1>1, <1>4
  <2> QED BY <2>1, AdviceIsWithin
<1>6. /\ guardian_saved' \in [Positions -> Guardian!Advice \cup {Nothing}] /\ lost' \subseteq Positions
      /\ \A q \in Positions : q # p => guardian_saved'[q] = guardian_saved[q]
      /\ guardian_saved'[p] = advice
  BY <1>1, <1>2, <1>4, <1>5
<1>7. guardian_faults' \in 0..MaxGuardFaults
  BY <1>3, <1>4
<1>8. Todo' = Todo /\ Outbox' = Outbox
  BY <1>3 DEF Todo, Outbox
<1>9. GuardianTyped'
  BY <1>3, <1>6, <1>7 DEF GuardianInv, GuardianTyped
<1>10. CycleInv'
  <2>1. \A q \in Positions : guardian_saved'[q] # Nothing => plan'[q] # Nothing
    BY <1>1, <1>3, <1>6 DEF GuardianInv, CycleInv
  <2>2. ASSUME guardian_loop.at = "fetched", Head(Todo) \notin lost'
        PROVE  guardian_loop.previous = guardian_saved'[Head(Todo)]
    <3>1. Todo # <<>> /\ Todo \in Seq(Positions)
      BY <2>2 DEF GuardianInv, GuardianTyped, CycleInv, Todo
    <3>2. Head(Todo) \in Positions
      BY <3>1, FirstAndRest
    <3>3. Head(Todo) # p /\ Head(Todo) \notin lost
      BY <1>1, <2>2
    <3> QED BY <1>6, <2>2, <3>2, <3>3 DEF GuardianInv, CycleInv
  <2> QED BY <1>3, <1>8, <2>1, <2>2 DEF GuardianInv, CycleInv
<1>11. ToldInv'
  <2>1. \A q \in Positions \ lost' : q \notin lost /\ guardian_saved'[q] = guardian_saved[q]
    BY <1>1, <1>6
  <2> QED BY <1>3, <1>8, <2>1 DEF GuardianInv, ToldInv
<1>12. \A q \in Positions : guardian_saved'[q] # Nothing => Within(plan'[q], guardian_saved'[q].sl)
  BY <1>3, <1>5, <1>6 DEF GuardianInv
<1> QED BY <1>3, <1>9, <1>10, <1>11, <1>12 DEF GuardianInv

\* The loop rests: at the end of a cycle, or after a death that loses what had a plan.
LEMMA RestKeeps ==
    ASSUME GuardianConstants, GuardianInv, Guardian!Sleep \/ Guardian!Death
    PROVE  GuardianInv' /\ UNCHANGED plan
<1>1. UNCHANGED <<plan, guardian_saved, guardian_told>> /\ guardian_loop' = Guardian!Asleep
  BY DEF Guardian!Sleep, Guardian!Death
<1>2. /\ Todo' = <<>> /\ Outbox' = <<>> /\ Len(Todo') = 0 /\ Len(Outbox') = 0 /\ guardian_loop'.at = "asleep"
      /\ guardian_loop' \in [at : {"asleep", "next", "fetched", "sending"}, todo : Seq(Positions), broker : BOOLEAN,
                             previous : Guardian!Advice \cup {Nothing}, outbox : Seq(Message)]
  <2>1. <<>> \in Seq(Message) /\ <<>> \in Seq(Positions)
    OBVIOUS
  <2> QED BY <1>1, <2>1 DEF Todo, Outbox, Guardian!Asleep
<1>3. lost' \subseteq Positions /\ guardian_faults' \in 0..MaxGuardFaults
  <2>1. lost \subseteq Positions /\ guardian_faults \in 0..MaxGuardFaults /\ MaxGuardFaults \in Nat
    BY DEF GuardianInv, GuardianTyped, GuardianConstants
  <2> QED BY <2>1 DEF Guardian!Sleep, Guardian!Death
<1>4. GuardianTyped'
  BY <1>1, <1>2, <1>3 DEF GuardianInv, GuardianTyped
<1>5. CycleInv'
  BY <1>1, <1>2 DEF GuardianInv, CycleInv
<1>6. ToldInv'
  <2>1. CASE Guardian!Sleep
    <3>1. Len(Outbox) = 0 /\ UNCHANGED lost
      BY <2>1 DEF Guardian!Sleep, Outbox
    <3> QED BY <1>1, <1>2, <3>1 DEF GuardianInv, ToldInv
  <2>2. CASE Guardian!Death
    <3>1. \A q \in Positions \ lost' : guardian_saved[q] = Nothing
      BY <2>2 DEF Guardian!Death, GuardianInv, CycleInv
    <3> QED BY <1>1, <3>1 DEF ToldInv
  <2> QED BY <2>1, <2>2
<1> QED BY <1>1, <1>4, <1>5, <1>6 DEF GuardianInv

\* For any positions, plans, premiums and distances: what the administrator was told between two
\* cycles is what is saved, unless a send, a write, the process or a hand came between; no advice
\* gives more away than the plan, and no step changes a plan (trade_guardian.py).
THEOREM PlansAreGuarded ==
    ASSUME GuardianConstants
    PROVE  Guardian!Init /\ [][Guardian!Next]_(Guardian!guardian) =>
             /\ [](Guardian!TypeOK /\ Guardian!ToldWhatIsSaved /\ Guardian!NeverWidens)
             /\ Guardian!PlanIsKept
<1> DEFINE Kept == \A p \in Positions : plan[p] # Nothing => plan'[p] = plan[p]
<1>1. Guardian!Init => GuardianInv
  BY GuardianBegins
<1>2. GuardianInv /\ [Guardian!Next]_(Guardian!guardian) => GuardianInv' /\ Kept
  <2> SUFFICES ASSUME GuardianInv, [Guardian!Next]_(Guardian!guardian) PROVE GuardianInv' /\ Kept
    OBVIOUS
  <2>1. CASE Guardian!Register
    BY <2>1, RegisterKeeps
  <2>2. CASE Guardian!Wake
    BY <2>2, WakeKeeps
  <2>3. CASE Guardian!FetchPlan
    BY <2>3, FetchPlanKeeps
  <2>4. CASE Guardian!Evaluate
    BY <2>4, EvaluateKeeps
  <2>5. CASE Guardian!Send
    BY <2>5, SendKeeps
  <2>6. CASE Guardian!Sleep
    BY <2>6, RestKeeps
  <2>7. CASE Guardian!ByHand
    BY <2>7, ByHandKeeps
  <2>8. CASE Guardian!Death
    BY <2>8, RestKeeps
  <2>9. CASE UNCHANGED Guardian!guardian
    BY <2>9 DEF Guardian!guardian, GuardianInv, GuardianTyped, CycleInv, ToldInv, Todo, Outbox
  <2> QED BY <2>1, <2>2, <2>3, <2>4, <2>5, <2>6, <2>7, <2>8, <2>9 DEF Guardian!Next
<1>3. GuardianInv => Guardian!TypeOK /\ Guardian!ToldWhatIsSaved /\ Guardian!NeverWidens
  <2> SUFFICES ASSUME GuardianInv PROVE Guardian!TypeOK /\ Guardian!ToldWhatIsSaved /\ Guardian!NeverWidens
    OBVIOUS
  <2>1. Guardian!TypeOK
    <3>1. GuardianTyped
      BY DEF GuardianInv
    <3>2. /\ Todo \in Seq(Positions) /\ Outbox \in Seq(Message) /\ guardian_loop.broker \in BOOLEAN
          /\ guardian_loop.at \in {"asleep", "next", "fetched", "sending"}
          /\ guardian_loop.previous \in Guardian!Advice \cup {Nothing}
      BY <3>1 DEF GuardianTyped, Todo, Outbox
    <3>3. (\A i \in DOMAIN Todo : Todo[i] \in Positions) /\ \A i \in DOMAIN Outbox : Outbox[i] \in Message
      BY <3>2
    <3> QED BY <3>1, <3>2, <3>3 DEF Guardian!TypeOK, GuardianTyped, Message, Todo, Outbox
  <2>2. Guardian!ToldWhatIsSaved
    <3>1. guardian_loop.at = "asleep" => Len(Outbox) = 0
      BY DEF GuardianInv, CycleInv
    <3> QED BY <3>1 DEF Guardian!ToldWhatIsSaved, GuardianInv, ToldInv, Alike
  <2>3. Guardian!NeverWidens
    BY DEF Guardian!NeverWidens, GuardianInv, Within
  <2> QED BY <2>1, <2>2, <2>3
<1>4. Kept => (\A p \in Positions : plan[p] # Nothing => plan'[p] = plan[p])
  OBVIOUS
<1>5. GuardianInv /\ [Guardian!Next]_(Guardian!guardian) =>
        [\A p \in Positions : plan[p] # Nothing => plan'[p] = plan[p]]_(Guardian!guardian)
  BY <1>2
<1> HIDE DEF Kept
<1>6. GuardianInv /\ [Guardian!Next]_(Guardian!guardian) => GuardianInv'
  BY <1>2
<1> QED BY <1>1, <1>3, <1>5, <1>6, PTL DEF Guardian!PlanIsKept

-----------------------------------------------------------------------------
(* The replays of the candle archive (CandleReplay): one trade at a time,    *)
(* and the worse of two outcomes.                                            *)
CONSTANTS ArchiveDays, CandlesPerDay, ReplayCandles, ReplayStop, ReplayTargets, ReplayHold, ReplayCooldown
VARIABLES style, candles_candle, candles_trade, wait, action, candles_trades

ByCandle == INSTANCE CandleReplay WITH
    candle <- candles_candle, trade <- candles_trade, trades <- candles_trades,
    Days <- ArchiveDays, PerDay <- CandlesPerDay, Candles <- ReplayCandles, Stop <- ReplayStop,
    Targets <- ReplayTargets, Hold <- ReplayHold, Cooldown <- ReplayCooldown,
    Styles <- {"ichimoku", "dsr", "research"}, NoTrade <- Nothing

Riding   == [entry : Nat, sl : Int, best : 0..Len(ReplayTargets)]
StopOuts == {"STOP LOSS", "BREAKEVEN STOP", "PROFIT-LOCKED STOP"}
Endings  == StopOuts \cup {"TARGET HIT", "TIME EXIT"}
Booking  == [entry : Nat, exit : Nat, reason : Endings, points : Int, low : Int, sl : Int]

\* Assumed of the constants: durations are naturals, a day has a candle, the stop is below the entry, the
\* targets, one at least, are above it, and no trade is no trade.
CandleConstants ==
    /\ ArchiveDays \in Nat /\ ReplayHold \in Nat /\ ReplayCooldown \in Nat
    /\ CandlesPerDay \in Nat \ {0}
    /\ ReplayStop \in Int /\ ReplayStop < 0
    /\ ReplayTargets \in Seq(Nat \ {0}) /\ ReplayTargets # <<>>
    /\ ReplayCandles \subseteq [low : Int, high : Int, close : Int]
    /\ Nothing \notin Riding

\* What a report says of its trade, whichever candle ended it.
Fits(r) ==
    /\ ~(style = "dsr" /\ r.entry = r.exit) /\ r.low <= r.sl => r.points = r.sl
    /\ r.reason = "STOP LOSS" => r.points < 0
    /\ r.reason = "BREAKEVEN STOP" => r.points = 0
    /\ r.reason \in {"PROFIT-LOCKED STOP", "TARGET HIT"} => r.points > 0
    /\ style = "dsr" => ByCandle!DayOf(r.entry) = ByCandle!DayOf(r.exit)

\* What comes after the reports of s begins when the last of them is over.
Follows(s, x) ==
    Len(s) > 0 => /\ s[Len(s)].exit <= x.entry
                  /\ style = "research" => x.entry > s[Len(s)].entry + ReplayHold

Booked(s) ==
    /\ s \in Seq(Booking)
    /\ \A i \in 1..Len(s) : Fits(s[i])
    /\ \A i \in 1..(Len(s) - 1) :
         /\ s[i].exit <= s[i + 1].entry
         /\ style = "research" => s[i + 1].entry > s[i].entry + ReplayHold

\* At candle c the last report of s is over, and a research run waits out its window.
Over(s, c, w) ==
    Len(s) > 0 => s[Len(s)].exit <= c /\ (style = "research" => w > s[Len(s)].entry + ReplayHold)

\* A trade's stop is its initial one, or the one behind the targets it has reached.
Laddered(t) ==
    /\ t \in Riding
    /\ t.sl = IF t.best = 0 THEN ReplayStop ELSE ByCandle!Behind(t.best)
    /\ style # "dsr" => t.best = 0

\* A trade that is open after candle c.
Rides(t, c) ==
    /\ Laddered(t)
    /\ style # "research" => t.entry <= c
    /\ style = "dsr" => ByCandle!DayOf(t.entry) = ByCandle!DayOf(c)

CandlesTyped ==
    /\ style \in {"ichimoku", "dsr", "research"} /\ candles_candle \in 0..ByCandle!LastCandle
    /\ wait \in Nat /\ action \in {"none", "buy", "sell"}

CandlesInv ==
    /\ CandlesTyped
    /\ Booked(candles_trades)
    /\ Over(candles_trades, candles_candle, wait)
    /\ candles_trade # Nothing =>
         /\ Rides(candles_trade, candles_candle)
         /\ Follows(candles_trades, candles_trade)
         /\ style = "dsr" => candles_candle % CandlesPerDay # 0

\* Division, and the greatest of finitely many numbers.
LEMMA QuotientOf ==
    ASSUME NEW k \in Nat \ {0}, NEW n \in Int
    PROVE  /\ n \div k \in Int /\ n % k \in 0..(k - 1) /\ n = k * (n \div k) + (n % k)
OBVIOUS

LEMMA QuotientIs ==
    ASSUME NEW k \in Nat \ {0}, NEW n \in Int, NEW q \in Int, k * q <= n, n < k * q + k
    PROVE  n \div k = q
<1> DEFINE r == n \div k
<1>1. r \in Int /\ k * r <= n /\ n < k * r + k
  BY QuotientOf
<1> HIDE DEF r
<1>2. r = q
  BY <1>1
<1> QED BY <1>2 DEF r

LEMMA LatestOf ==
    ASSUME NEW n \in Nat, NEW S \in SUBSET (1..n), S # {}
    PROVE  \E x \in S : \A y \in S : x >= y
<1> DEFINE T == {n - x : x \in S}
<1>1. T \in SUBSET Nat /\ T # {}
  <2>1. \A x \in 1..n : n - x \in Nat
    OBVIOUS
  <2>2. PICK x \in S : TRUE
    OBVIOUS
  <2>3. n - x \in T
    BY <2>2
  <2> QED BY <2>1, <2>3
<1> HIDE DEF T
<1>2. PICK m \in T : \A y \in T : m <= y
  BY <1>1, LeastExists
<1>3. PICK x \in S : m = n - x
  BY DEF T
<1>4. \A y \in S : n - y \in T
  BY DEF T
<1> QED BY <1>2, <1>3, <1>4

LEMMA CandlesBegin ==
    ASSUME CandleConstants, ByCandle!Init
    PROVE  CandlesInv
<1>1. /\ style \in {"ichimoku", "dsr", "research"} /\ candles_candle = 0 /\ candles_trade = Nothing
      /\ wait = 1 /\ action = "none" /\ candles_trades = <<>> /\ Len(candles_trades) = 0
  BY DEF ByCandle!Init
<1>2. ByCandle!LastCandle \in Nat
  BY DEF ByCandle!LastCandle, CandleConstants
<1>3. CandlesTyped
  BY <1>1, <1>2 DEF CandlesTyped
<1>4. candles_trades \in Seq(Booking)
  BY <1>1
<1>5. Booked(candles_trades) /\ Over(candles_trades, candles_candle, wait)
  BY <1>1, <1>4 DEF Booked, Over
<1> QED BY <1>1, <1>3, <1>5 DEF CandlesInv

\* One more report at the end.
LEMMA BookedGrows ==
    ASSUME NEW s, Booked(s), NEW r \in Booking, Fits(r), Follows(s, r)
    PROVE  LET more == s \o <<r>> IN
           Booked(more) /\ Len(more) > 0 /\ more[Len(more)] = r
<1> DEFINE more == s \o <<r>>
<1>1. s \in Seq(Booking) /\ Len(s) \in Nat
  BY DEF Booked
<1>2. /\ more \in Seq(Booking) /\ Len(more) = Len(s) + 1
      /\ \A i \in 1..Len(s) : more[i] = s[i]
      /\ more[Len(s) + 1] = r
  BY <1>1
<1> HIDE DEF more
<1>3. \A i \in 1..Len(more) : i \in 1..Len(s) \/ i = Len(s) + 1
  BY <1>1, <1>2
<1>4. \A i \in 1..Len(more) : Fits(more[i])
  <2> TAKE i \in 1..Len(more)
  <2>1. CASE i \in 1..Len(s)
    <3>1. more[i] = s[i] /\ Fits(s[i])
      BY <1>2, <2>1 DEF Booked
    <3> QED BY <3>1
  <2>2. CASE i = Len(s) + 1
    BY <1>2, <2>2
  <2> QED BY <1>3, <2>1, <2>2
<1>5. ASSUME NEW i \in 1..(Len(more) - 1)
      PROVE  /\ more[i].exit <= more[i + 1].entry
             /\ style = "research" => more[i + 1].entry > more[i].entry + ReplayHold
  <2>1. CASE i = Len(s)
    <3>1. Len(s) > 0 /\ more[i] = s[Len(s)] /\ more[i + 1] = r
      BY <1>1, <1>2, <2>1
    <3> QED BY <3>1 DEF Follows
  <2>2. CASE i # Len(s)
    <3>1. i \in 1..(Len(s) - 1) /\ i \in 1..Len(s) /\ i + 1 \in 1..Len(s)
      BY <1>1, <1>2, <2>2
    <3>2. more[i] = s[i] /\ more[i + 1] = s[i + 1]
      BY <1>2, <3>1
    <3> QED BY <3>1, <3>2 DEF Booked
  <2> QED BY <2>1, <2>2
<1>6. Len(more) > 0 /\ more[Len(more)] = r
  BY <1>1, <1>2
<1> QED BY <1>2, <1>4, <1>5, <1>6 DEF Booked, more

\* The targets a candle reaches.
LEMMA ReachedIsATarget ==
    ASSUME CandleConstants, NEW b \in ReplayCandles
    PROVE  ByCandle!Reached(b) \in 0..Len(ReplayTargets)
<1> DEFINE hits == {k \in 1..Len(ReplayTargets) : b.high >= ReplayTargets[k]}
           all  == {0} \cup hits
<1>1. Len(ReplayTargets) \in Nat
  BY DEF CandleConstants
<1>2. hits \in SUBSET (1..Len(ReplayTargets))
  OBVIOUS
<1>3. \E x \in all : \A y \in all : x >= y
  <2>1. CASE hits = {}
    <3> HIDE DEF hits
    <3>1. all = {0}
      BY <2>1
    <3> HIDE DEF all
    <3> QED BY <3>1
  <2>2. CASE hits # {}
    <3> HIDE DEF hits
    <3>1. PICK x \in hits : \A y \in hits : x >= y
      BY <1>1, <1>2, <2>2, LatestOf
    <3>2. x \in all /\ x >= 0
      BY <1>2, <3>1
    <3> QED BY <3>1, <3>2
  <2> QED BY <2>1, <2>2
<1>4. ByCandle!Reached(b) = ByCandle!Max(all)
  BY DEF ByCandle!Reached, ByCandle!Final
<1>5. all \subseteq 0..Len(ReplayTargets)
  BY <1>1
<1> HIDE DEF all
<1>6. ByCandle!Max(all) \in all
  BY <1>3 DEF ByCandle!Max
<1> QED BY <1>4, <1>5, <1>6

LEMMA BehindATarget ==
    ASSUME CandleConstants, NEW k \in 1..Len(ReplayTargets)
    PROVE  /\ ByCandle!Behind(k) \in Nat /\ (k = 1 => ByCandle!Behind(k) = 0) /\ (k # 1 => ByCandle!Behind(k) > 0)
           /\ ByCandle!Behind(k) \in {0} \cup ByCandle!ToSet(ReplayTargets)
<1>1. CASE k = 1
  BY <1>1 DEF ByCandle!Behind
<1>2. CASE k # 1
  <2>1. ReplayTargets \in Seq(Nat \ {0}) /\ k - 1 \in 1..Len(ReplayTargets)
    BY <1>2 DEF CandleConstants
  <2>2. ReplayTargets[k - 1] \in Nat \ {0} /\ ReplayTargets[k - 1] \in ByCandle!ToSet(ReplayTargets)
    BY <2>1 DEF ByCandle!ToSet
  <2> QED BY <1>2, <2>2 DEF ByCandle!Behind
<1> QED BY <1>1, <1>2

LEMMA TargetsAreGains ==
    ASSUME CandleConstants
    PROVE  /\ Len(ReplayTargets) \in Nat /\ Len(ReplayTargets) >= 1
           /\ \A k \in 1..Len(ReplayTargets) : ReplayTargets[k] \in Nat /\ ReplayTargets[k] > 0
           /\ 1 \in 1..Len(ReplayTargets) /\ Len(ReplayTargets) \in 1..Len(ReplayTargets)
<1>1. ReplayTargets \in Seq(Nat \ {0}) /\ ReplayTargets # <<>>
  BY DEF CandleConstants
<1>2. Len(ReplayTargets) \in Nat /\ Len(ReplayTargets) # 0
  BY <1>1
<1> QED BY <1>1, <1>2
\* The result o of a candle b for a trade t: the stop first, and a name that says what was earned.
Fair(o, t, b) ==
    /\ o.reason \in Endings \cup {"none"} /\ o.at \in Int
    /\ o.reason # "none" /\ b.low <= t.sl => o.at = t.sl
    /\ o.reason = "none" => b.low > t.sl
    /\ o.reason = "STOP LOSS" => o.at < 0
    /\ o.reason = "BREAKEVEN STOP" => o.at = 0
    /\ o.reason \in {"PROFIT-LOCKED STOP", "TARGET HIT"} => o.at > 0

\* What the replay makes of a candle while a trade is open: the stop first, and a name that says the result.
LEMMA VerdictIsFair ==
    ASSUME CandleConstants, style \in {"ichimoku", "dsr", "research"}, NEW t, Laddered(t), NEW c \in Int,
           NEW b \in ReplayCandles
    PROVE  Fair(ByCandle!Verdict(t, c, b), t, b)
<1> DEFINE held == c - t.entry
           late == held >= ReplayHold
<1>1. /\ b.low \in Int /\ b.high \in Int /\ b.close \in Int /\ t.sl \in Int /\ t.best \in 0..Len(ReplayTargets)
      /\ ReplayStop \in Int /\ ReplayStop < 0
  BY DEF CandleConstants, Laddered, Riding
<1>2. /\ t.best = 0 => t.sl < 0
      /\ t.best = 1 => t.sl = 0
      /\ t.best \notin {0, 1} => t.sl > 0
  <2>1. CASE t.best = 0
    BY <1>1, <2>1 DEF Laddered
  <2>2. CASE t.best # 0
    <3>1. t.best \in 1..Len(ReplayTargets)
      BY <1>1, <2>2, TargetsAreGains
    <3>2. t.sl = ByCandle!Behind(t.best)
      BY <2>2 DEF Laddered
    <3> QED BY <2>2, <3>1, <3>2, BehindATarget
  <2> QED BY <2>1, <2>2
<1>3. /\ ReplayTargets[1] \in Int /\ ReplayTargets[1] > 0
      /\ ReplayTargets[Len(ReplayTargets)] \in Int /\ ReplayTargets[Len(ReplayTargets)] > 0
  BY TargetsAreGains
<1>4. b.low <= t.sl \/ b.low > t.sl
  BY <1>1
<1> HIDE DEF held, late
<1>5. \A reason \in Endings, at \in Int :
         (/\ b.low <= t.sl => at = t.sl
          /\ reason = "STOP LOSS" => at < 0
          /\ reason = "BREAKEVEN STOP" => at = 0
          /\ reason \in {"PROFIT-LOCKED STOP", "TARGET HIT"} => at > 0) => Fair([reason |-> reason, at |-> at], t, b)
  BY ZenonT(30) DEF Fair, Endings, StopOuts
<1>6. b.low > t.sl => Fair([reason |-> "none", at |-> 0], t, b)
  BY DEF Fair, Endings
<1>7. style = "dsr" => Fair(ByCandle!OutcomeDsr(t, b, held), t, b)
  <2> DEFINE hit == ByCandle!Reached(b)
             final == Len(ReplayTargets)
             own == ByCandle!OutcomeDsr(t, b, held)
             name == ByCandle!StopName(t, b)
  <2>1. hit \in 0..final /\ final \in Nat
    BY ReachedIsATarget, TargetsAreGains
  <2>2. /\ name = IF t.best = 0 THEN "STOP LOSS" ELSE IF t.best = 1 THEN "BREAKEVEN STOP" ELSE "PROFIT-LOCKED STOP"
    BY DEF ByCandle!StopName
  <2>3. own = CASE b.low <= t.sl -> [reason |-> name, at |-> t.sl]
                [] b.low > t.sl /\ hit = final -> [reason |-> "TARGET HIT", at |-> ReplayTargets[final]]
                [] b.low > t.sl /\ hit < final /\ late -> [reason |-> "TIME EXIT", at |-> b.close]
                [] OTHER -> [reason |-> "none", at |-> 0]
    BY DEF ByCandle!OutcomeDsr, ByCandle!Final, late
  <2> SUFFICES Fair(own, t, b)
    OBVIOUS
  <2> HIDE DEF own, hit, final, name
  <2>4. hit = final \/ hit < final
    BY <2>1
  <2>5. ~(hit = final /\ hit < final) /\ ~(b.low <= t.sl /\ b.low > t.sl)
    BY <1>1, <2>1
  <2>6. CASE b.low <= t.sl
    <3>1. own = [reason |-> name, at |-> t.sl]
      BY <2>3, <2>5, <2>6, Zenon
    <3>2. /\ name \in Endings
          /\ name = "STOP LOSS" => t.sl < 0
          /\ name = "BREAKEVEN STOP" => t.sl = 0
          /\ name \in {"PROFIT-LOCKED STOP", "TARGET HIT"} => t.sl > 0
      BY <1>2, <2>2 DEF Endings, StopOuts
    <3> QED BY <1>1, <1>5, <3>1, <3>2
  <2>7. CASE b.low > t.sl /\ hit = final
    <3>1. own = [reason |-> "TARGET HIT", at |-> ReplayTargets[final]]
      BY <2>3, <2>5, <2>7, Zenon
    <3> QED BY <1>1, <1>3, <1>5, <2>5, <2>7, <3>1 DEF Endings, final
  <2>8. CASE b.low > t.sl /\ hit < final /\ late
    <3>1. own = [reason |-> "TIME EXIT", at |-> b.close]
      BY <2>3, <2>5, <2>8, Zenon
    <3> QED BY <1>1, <1>5, <2>5, <2>8, <3>1 DEF Endings
  <2>9. CASE b.low > t.sl /\ hit < final /\ ~late
    <3>1. own = [reason |-> "none", at |-> 0]
      BY <2>3, <2>5, <2>9, Zenon
    <3> QED BY <1>6, <2>9, <3>1
  <2> QED BY <1>4, <2>4, <2>6, <2>7, <2>8, <2>9
<1>8. style # "dsr" => Fair(ByCandle!Outcome(t, b, held), t, b)
  <2> SUFFICES ASSUME style # "dsr" PROVE Fair(ByCandle!Outcome(t, b, held), t, b)
    OBVIOUS
  <2> DEFINE own == ByCandle!Outcome(t, b, held)
             hits == b.high >= ReplayTargets[1]
             misses == b.high < ReplayTargets[1]
  <2>1. t.sl < 0
    BY <1>2 DEF Laddered
  <2>2. own = CASE b.low <= t.sl -> [reason |-> "STOP LOSS", at |-> t.sl]
                [] b.low > t.sl /\ hits -> [reason |-> "TARGET HIT", at |-> ReplayTargets[1]]
                [] b.low > t.sl /\ misses /\ late -> [reason |-> "TIME EXIT", at |-> b.close]
                [] OTHER -> [reason |-> "none", at |-> 0]
    BY DEF ByCandle!Outcome, late
  <2>3. (hits \/ misses) /\ ~(hits /\ misses) /\ ~(b.low <= t.sl /\ b.low > t.sl)
    BY <1>1, <1>3
  <2> SUFFICES Fair(own, t, b)
    OBVIOUS
  <2> HIDE DEF own, hits, misses
  <2>4. CASE b.low <= t.sl
    <3>1. own = [reason |-> "STOP LOSS", at |-> t.sl]
      BY <2>2, <2>3, <2>4, Zenon
    <3> QED BY <1>1, <1>5, <2>1, <3>1 DEF Endings, StopOuts
  <2>5. CASE b.low > t.sl /\ hits
    <3>1. own = [reason |-> "TARGET HIT", at |-> ReplayTargets[1]]
      BY <2>2, <2>3, <2>5, Zenon
    <3> QED BY <1>3, <1>5, <2>3, <2>5, <3>1 DEF Endings
  <2>6. CASE b.low > t.sl /\ misses /\ late
    <3>1. own = [reason |-> "TIME EXIT", at |-> b.close]
      BY <2>2, <2>3, <2>6, Zenon
    <3> QED BY <1>1, <1>5, <2>3, <2>6, <3>1 DEF Endings
  <2>7. CASE b.low > t.sl /\ misses /\ ~late
    <3>1. own = [reason |-> "none", at |-> 0]
      BY <2>2, <2>3, <2>7, Zenon
    <3> QED BY <1>6, <2>7, <3>1
  <2> QED BY <1>4, <2>3, <2>4, <2>5, <2>6, <2>7
<1> DEFINE own == IF style = "dsr" THEN ByCandle!OutcomeDsr(t, b, held) ELSE ByCandle!Outcome(t, b, held)
<1>9. Fair(own, t, b)
  BY <1>7, <1>8
<1>10. ByCandle!Verdict(t, c, b) =
           IF own.reason = "none" /\ style = "research" /\ c = ByCandle!LastCandle
           THEN [reason |-> "TIME EXIT", at |-> b.close] ELSE own
  BY DEF ByCandle!Verdict, held
<1> HIDE DEF own
<1>11. CASE own.reason = "none" /\ style = "research" /\ c = ByCandle!LastCandle
  <2>1. b.low > t.sl /\ ~(b.low <= t.sl)
    BY <1>1, <1>9, <1>11 DEF Fair
  <2>2. ByCandle!Verdict(t, c, b) = [reason |-> "TIME EXIT", at |-> b.close]
    BY <1>10, <1>11
  <2>3. Fair(ByCandle!Verdict(t, c, b), t, b)
    BY <1>1, <1>5, <2>1, <2>2 DEF Endings
  <2> QED BY <2>3
<1>12. CASE ~(own.reason = "none" /\ style = "research" /\ c = ByCandle!LastCandle)
  BY <1>9, <1>10, <1>12
<1> QED BY <1>11, <1>12
\* Inside a day the next candle is of the same day; only a day's last candle is a multiple of its length.
LEMMA SameDay ==
    ASSUME CandleConstants, NEW c \in Nat, c % CandlesPerDay # 0
    PROVE  ByCandle!DayOf(c + 1) = ByCandle!DayOf(c)
<1> DEFINE q == c \div CandlesPerDay
           r == c % CandlesPerDay
<1>1. CandlesPerDay \in Nat \ {0} /\ c \in Int /\ c - 1 \in Int /\ c + 1 - 1 = c
  BY DEF CandleConstants
<1>2. q \in Int /\ r \in 0..(CandlesPerDay - 1) /\ c = CandlesPerDay * q + r
  BY <1>1, QuotientOf
<1>3. r # 0
  OBVIOUS
<1> HIDE DEF r
<1> SUFFICES (c - 1) \div CandlesPerDay = q
  BY <1>1 DEF ByCandle!DayOf
<1> HIDE DEF q
<1>4. CandlesPerDay * q \in Int /\ CandlesPerDay * q <= c - 1 /\ c - 1 < CandlesPerDay * q + CandlesPerDay
  BY <1>1, <1>2, <1>3
<1> QED BY <1>1, <1>2, <1>4, QuotientIs

\* A trade just opened: at this candle, or at the next one of a research run.
LEMMA FreshRides ==
    ASSUME CandleConstants, style \in {"ichimoku", "dsr", "research"}, NEW c \in Nat, NEW e \in {c, c + 1},
           e = c + 1 => style = "research"
    PROVE  Rides(ByCandle!Fresh(e), c) /\ ByCandle!Fresh(e).entry = e
<1>1. /\ ByCandle!Fresh(e) = [entry |-> e, sl |-> ReplayStop, best |-> 0]
      /\ ReplayStop \in Int /\ 0 \in 0..Len(ReplayTargets) /\ e \in Nat
  BY TargetsAreGains DEF ByCandle!Fresh, CandleConstants
<1>2. Laddered(ByCandle!Fresh(e)) /\ ByCandle!Fresh(e).entry = e
  BY <1>1 DEF Laddered, Riding
<1>3. style # "research" => e = c
  OBVIOUS
<1> QED BY <1>2, <1>3 DEF Rides

LEMMA TrailedRides ==
    ASSUME CandleConstants, style = "dsr", NEW t, Laddered(t), NEW b \in ReplayCandles
    PROVE  Laddered(ByCandle!Trailed(t, b)) /\ ByCandle!Trailed(t, b).entry = t.entry
<1> DEFINE hit == ByCandle!Reached(b)
<1>1. hit \in 0..Len(ReplayTargets) /\ t \in Riding /\ Len(ReplayTargets) \in Nat
  BY ReachedIsATarget, TargetsAreGains DEF Laddered
<1> HIDE DEF hit
<1>2. CASE hit = 0
  BY <1>2 DEF ByCandle!Trailed, hit
<1>3. CASE hit # 0
  <2>1. ByCandle!Trailed(t, b) = [t EXCEPT !.best = hit, !.sl = ByCandle!Behind(hit)]
    BY <1>3 DEF ByCandle!Trailed, hit
  <2>2. hit \in 1..Len(ReplayTargets)
    BY <1>1, <1>3
  <2>3. ByCandle!Behind(hit) \in Int
    BY <2>2, BehindATarget
  <2> DEFINE q == ByCandle!Trailed(t, b)
  <2>4. q = [entry |-> t.entry, sl |-> ByCandle!Behind(hit), best |-> hit] /\ t.entry \in Nat
    BY <1>1, <2>1 DEF Riding
  <2> HIDE DEF q
  <2>5. q \in Riding /\ q.entry = t.entry /\ q.best = hit /\ q.sl = ByCandle!Behind(hit)
    BY <1>1, <2>3, <2>4 DEF Riding
  <2>6. Laddered(q)
    BY <1>3, <2>5 DEF Laddered
  <2> QED BY <2>5, <2>6 DEF q
<1> QED BY <1>2, <1>3

\* The candle of a replay: the open trade first, then perhaps a new one, and the end of the day.
LEMMA ReplayKeeps ==
    ASSUME CandleConstants, CandlesInv, NEW b \in ReplayCandles, NEW signal \in {"none", "buy", "sell"},
           ByCandle!Replay(b, signal)
    PROVE  CandlesInv'
<1> DEFINE c      == candles_candle + 1
           t      == candles_trade
           out    == IF t = Nothing THEN [reason |-> "none", at |-> 0] ELSE ByCandle!Verdict(t, c, b)
           closed == out.reason # "none"
           enters == (t = Nothing \/ closed) /\ ByCandle!MayEnter(c, signal)
           held   == CASE t # Nothing /\ ~closed -> IF style = "dsr" THEN ByCandle!Trailed(t, b) ELSE t
                       [] (t = Nothing \/ closed) /\ ByCandle!MayEnter(c, signal) ->
                            ByCandle!Fresh(IF style = "research" THEN c + 1 ELSE c)
                       [] OTHER -> Nothing
           forced == ByCandle!Forced(held, c)
           first  == ByCandle!Report(t, c, b, out.reason, out.at)
           second == IF held.entry = c THEN ByCandle!Report(held, c, b, "TIME EXIT", 0)
                     ELSE ByCandle!Report(t, c, b, "TIME EXIT", b.close)
           some   == IF closed THEN candles_trades \o <<first>> ELSE candles_trades
           all    == IF forced THEN some \o <<second>> ELSE some
<1>1. /\ candles_candle < ByCandle!LastCandle /\ candles_candle' = c /\ UNCHANGED style
      /\ wait' = IF closed THEN ByCandle!Resumes(t, c, out.reason) ELSE wait
      /\ action' = IF style = "ichimoku" THEN signal ELSE action
      /\ candles_trade' = IF forced THEN Nothing ELSE held
  BY DEF ByCandle!Replay
<1>2. candles_trades' = candles_trades \o (IF closed THEN <<first>> ELSE <<>>) \o (IF forced THEN <<second>> ELSE <<>>)
  BY DEF ByCandle!Replay
<1>3. /\ candles_candle \in Nat /\ c \in Nat /\ c \in 0..ByCandle!LastCandle /\ c \in Int
      /\ style \in {"ichimoku", "dsr", "research"} /\ wait \in Nat
      /\ b.low \in Int /\ b.close \in Int
  <2>1. ByCandle!LastCandle \in Int
    BY DEF ByCandle!LastCandle, CandleConstants
  <2>2. candles_candle \in Nat /\ c \in Nat /\ c \in 0..ByCandle!LastCandle
    BY <1>1, <2>1 DEF CandlesInv, CandlesTyped
  <2> QED BY <2>2 DEF CandlesInv, CandlesTyped, CandleConstants
<1>4. t # Nothing =>
        /\ Laddered(t) /\ t \in Riding /\ Fair(out, t, b) /\ Follows(candles_trades, t)
        /\ t.entry \in Nat /\ t.sl \in Int /\ (style # "research" => t.entry < c)
        /\ style = "dsr" => ByCandle!DayOf(t.entry) = ByCandle!DayOf(c)
  <2> SUFFICES ASSUME t # Nothing
               PROVE  /\ Laddered(t) /\ t \in Riding /\ Fair(out, t, b) /\ Follows(candles_trades, t)
                      /\ t.entry \in Nat /\ t.sl \in Int /\ (style # "research" => t.entry < c)
                      /\ style = "dsr" => ByCandle!DayOf(t.entry) = ByCandle!DayOf(c)
    OBVIOUS
  <2>1. Rides(t, candles_candle) /\ Laddered(t) /\ t \in Riding /\ Follows(candles_trades, t)
    BY DEF CandlesInv, Rides, Laddered
  <2>2. out = ByCandle!Verdict(t, c, b)
    OBVIOUS
  <2>3. Fair(out, t, b)
    <3> HIDE DEF c, out
    <3> QED BY <1>3, <2>1, <2>2, VerdictIsFair
  <2>4. t.entry \in Nat /\ t.sl \in Int
    BY <2>1 DEF Riding
  <2>5. style # "research" => t.entry < c
    BY <1>3, <2>1, <2>4 DEF Rides
  <2>6. style = "dsr" => ByCandle!DayOf(t.entry) = ByCandle!DayOf(c)
    BY <1>3, <2>1, SameDay DEF CandlesInv, Rides
  <2> HIDE DEF c, out
  <2> QED BY <2>1, <2>3, <2>4, <2>5, <2>6
<1>5. t = Nothing => ~closed
  OBVIOUS
<1>6. ByCandle!MayEnter(c, signal) => c >= wait'
  BY DEF ByCandle!MayEnter
<1>7. closed => /\ ByCandle!Resumes(t, c, out.reason) =
                     CASE style = "ichimoku" /\ out.reason = "STOP LOSS" -> c + ReplayCooldown
                       [] style = "research" -> t.entry + ReplayHold + 1
                       [] OTHER -> wait
  BY DEF ByCandle!Resumes
<1>8. candles_trades \in Seq(Booking) /\ Booked(candles_trades) /\ Over(candles_trades, candles_candle, wait)
  BY DEF CandlesInv, Booked
<1> HIDE DEF c, out, first, second
<1>9. wait' \in Nat /\ (closed /\ style = "research" => wait' = t.entry + ReplayHold + 1)
  <2>1. CASE ~closed
    BY <1>1, <1>3, <2>1
  <2>2. CASE closed /\ style = "ichimoku" /\ out.reason = "STOP LOSS"
    <3>1. wait' = c + ReplayCooldown
      BY <1>1, <1>7, <2>2
    <3>2. ReplayCooldown \in Nat
      BY DEF CandleConstants
    <3>3. wait' \in Nat
      <4>1. c \in Nat
        BY <1>3
      <4> HIDE DEF closed
      <4> QED BY <3>1, <3>2, <4>1
    <3>4. style # "research"
      BY <2>2
    <3> QED BY <3>3, <3>4
  <2>3. CASE closed /\ style = "research"
    <3>1. wait' = t.entry + ReplayHold + 1
      BY <1>1, <1>7, <2>3
    <3>2. t.entry \in Nat /\ ReplayHold \in Nat
      BY <1>4, <1>5, <2>3 DEF CandleConstants
    <3> QED BY <3>1, <3>2
  <2>4. CASE closed /\ ~(style = "ichimoku" /\ out.reason = "STOP LOSS") /\ style # "research"
    <3>1. wait' = wait
      BY <1>1, <1>7, <2>4
    <3> QED BY <1>3, <2>4, <3>1
  <2> QED BY <2>1, <2>2, <2>3, <2>4
\* What the closed trade adds.
<1>10. closed => first \in Booking /\ Fits(first) /\ Follows(candles_trades, first)
                 /\ first.exit = c /\ first.entry = t.entry
  <2> SUFFICES ASSUME closed
               PROVE  first \in Booking /\ Fits(first) /\ Follows(candles_trades, first)
                      /\ first.exit = c /\ first.entry = t.entry
    OBVIOUS
  <2>1. first = [entry |-> t.entry, exit |-> c, reason |-> out.reason, points |-> out.at, low |-> b.low, sl |-> t.sl]
    BY DEF first, ByCandle!Report
  <2>2. t # Nothing /\ out.reason \in Endings /\ out.at \in Int
    BY <1>4, <1>5 DEF Fair
  <2>3. first \in Booking
    BY <1>3, <1>4, <2>1, <2>2 DEF Booking
  <2>4. /\ first.entry = t.entry /\ first.exit = c /\ first.reason = out.reason /\ first.points = out.at
        /\ first.low = b.low /\ first.sl = t.sl
    BY <2>1
  <2>5. Fits(first)
    BY <1>4, <2>2, <2>4 DEF Fits, Fair
  <2>6. Follows(candles_trades, first)
    BY <1>4, <2>2, <2>4 DEF Follows
  <2> QED BY <2>3, <2>4, <2>5, <2>6
<1>11. Booked(some) /\ Over(some, c, wait')
  <2>1. CASE closed
    <3>1. some = candles_trades \o <<first>>
      BY <2>1
    <3>2. Booked(some) /\ Len(some) > 0 /\ some[Len(some)] = first
      BY <1>8, <1>10, <2>1, <3>1, BookedGrows
    <3>3. style = "research" => wait' > t.entry + ReplayHold
      <4>1. t.entry \in Nat /\ ReplayHold \in Nat
        BY <1>4, <1>5, <2>1 DEF CandleConstants
      <4> QED BY <1>9, <2>1, <4>1
    <3> QED BY <1>3, <1>10, <2>1, <3>2, <3>3 DEF Over
  <2>2. CASE ~closed
    <3>1. some = candles_trades /\ wait' = wait
      BY <1>1, <2>2
    <3>2. Len(some) > 0 => some[Len(some)].exit \in Nat
      <4>1. Len(some) > 0 => some[Len(some)] \in Booking
        BY <1>8, <3>1
      <4> QED BY <4>1 DEF Booking
    <3>3. Len(some) > 0 => some[Len(some)].exit <= c
      BY <1>3, <1>8, <3>1, <3>2 DEF Over, c
    <3> QED BY <1>8, <3>1, <3>3 DEF Over
  <2> QED BY <2>1, <2>2
<1> HIDE DEF some
\* The trade that is open after it: the old one, a new one, or none.
<1>12. \/ held = Nothing
       \/ /\ t # Nothing /\ ~closed /\ held.entry = t.entry /\ Laddered(held) /\ Follows(some, held)
       \/ /\ Rides(held, c) /\ Follows(some, held) /\ (style # "research" => held.entry = c)
  <2>1. CASE t # Nothing /\ ~closed
    <3>1. held = IF style = "dsr" THEN ByCandle!Trailed(t, b) ELSE t
      BY <2>1
    <3>2. held.entry = t.entry /\ Laddered(held)
      BY <1>3, <1>4, <2>1, <3>1, TrailedRides
    <3>3. Follows(some, held)
      BY <1>4, <2>1, <3>2 DEF Follows, some
    <3> QED BY <2>1, <3>2, <3>3
  <2>2. CASE (t = Nothing \/ closed) /\ ByCandle!MayEnter(c, signal)
    <3> DEFINE e == IF style = "research" THEN c + 1 ELSE c
    <3>1. held = ByCandle!Fresh(e)
      BY <1>5, <2>2
    <3>2. e \in {c, c + 1} /\ (e = c + 1 => style = "research") /\ e \in Nat /\ e >= c
          /\ (style = "research" => e = c + 1) /\ (style # "research" => e = c)
      BY <1>3
    <3> HIDE DEF e, held
    <3>3. Rides(held, c) /\ held.entry = e
      BY <1>3, <3>1, <3>2, FreshRides
    <3>4. Follows(some, held)
      <4>1. Len(some) > 0 => some[Len(some)].exit \in Nat /\ some[Len(some)].entry \in Nat
        <5>1. some \in Seq(Booking)
          BY <1>11 DEF Booked
        <5>2. Len(some) > 0 => some[Len(some)] \in Booking
          BY <5>1
        <5> QED BY <5>2 DEF Booking
      <4>2. ReplayHold \in Nat /\ wait' \in Nat /\ c >= wait'
        BY <1>6, <1>9, <2>2 DEF CandleConstants
      <4>3. Len(some) > 0 => some[Len(some)].exit <= c /\ (style = "research" => wait' > some[Len(some)].entry + ReplayHold)
        BY <1>11 DEF Over
      <4>4. Len(some) > 0 => some[Len(some)].exit <= e
        BY <1>3, <3>2, <4>1, <4>3
      <4>5. Len(some) > 0 /\ style = "research" => e > some[Len(some)].entry + ReplayHold
        BY <1>3, <3>2, <4>1, <4>2, <4>3
      <4> QED BY <3>3, <4>4, <4>5 DEF Follows
    <3> QED BY <3>2, <3>3, <3>4
  <2>3. CASE (t = Nothing \/ closed) /\ ~ByCandle!MayEnter(c, signal)
    BY <1>5, <2>3
  <2> QED BY <2>1, <2>2, <2>3
<1> HIDE DEF held
<1>13. held # Nothing => /\ Rides(held, c) /\ Follows(some, held)
                         /\ style = "dsr" => held.entry = c \/ (held.entry # c /\ t # Nothing /\ ~closed /\ held.entry = t.entry)
  <2>1. CASE t # Nothing /\ ~closed /\ held.entry = t.entry /\ Laddered(held) /\ Follows(some, held)
    <3>1. style # "research" => t.entry <= c /\ t.entry # c
      BY <1>3, <1>4, <2>1
    <3> QED BY <1>3, <1>4, <2>1, <3>1 DEF Rides
  <2>2. CASE Rides(held, c) /\ Follows(some, held) /\ (style # "research" => held.entry = c)
    BY <2>2
  <2> QED BY <1>12, <2>1, <2>2
<1>14. forced <=> style = "dsr" /\ held # Nothing /\ c % CandlesPerDay = 0
  BY DEF ByCandle!Forced
<1> HIDE DEF forced
\* What the end of the day adds.
<1>15. forced => second \in Booking /\ Fits(second) /\ Follows(some, second) /\ second.exit = c
  <2> SUFFICES ASSUME forced
               PROVE  second \in Booking /\ Fits(second) /\ Follows(some, second) /\ second.exit = c
    OBVIOUS
  <2>1. style = "dsr" /\ held # Nothing /\ Rides(held, c) /\ Follows(some, held)
    BY <1>13, <1>14
  <2>2. CASE held.entry = c
    <3>1. second = [entry |-> held.entry, exit |-> c, reason |-> "TIME EXIT", points |-> 0, low |-> b.low, sl |-> held.sl]
      BY <2>2 DEF second, ByCandle!Report
    <3>2. held.entry \in Nat /\ held.sl \in Int
      BY <2>1 DEF Rides, Laddered, Riding
    <3>3. second \in Booking
      <4>1. second = [entry |-> c, exit |-> c, reason |-> "TIME EXIT", points |-> 0, low |-> b.low, sl |-> held.sl]
        BY <2>2, <3>1
      <4>2. "TIME EXIT" \in Endings /\ 0 \in Int
        BY DEF Endings
      <4> QED BY <1>3, <3>2, <4>1, <4>2 DEF Booking
    <3>4. second.entry = held.entry /\ second.exit = c /\ second.reason = "TIME EXIT"
      BY <3>1
    <3> QED BY <2>1, <2>2, <3>3, <3>4 DEF Fits, Follows
  <2>3. CASE held.entry # c
    <3>1. second = [entry |-> t.entry, exit |-> c, reason |-> "TIME EXIT", points |-> b.close, low |-> b.low, sl |-> t.sl]
      BY <2>3 DEF second, ByCandle!Report
    <3>2. t # Nothing /\ ~closed /\ held.entry = t.entry
      BY <1>13, <2>1, <2>3
    <3>3. b.low > t.sl /\ t.entry \in Nat /\ t.sl \in Int
      BY <1>4, <3>2 DEF Fair
    <3>4. second \in Booking
      BY <1>3, <3>1, <3>3 DEF Booking, Endings
    <3>5. /\ second.entry = t.entry /\ second.exit = c /\ second.reason = "TIME EXIT" /\ second.low = b.low
          /\ second.sl = t.sl
      BY <3>1
    <3>6. ~(b.low <= t.sl)
      BY <1>3, <3>3
    <3>7. Fits(second)
      BY <1>4, <2>1, <3>2, <3>5, <3>6 DEF Fits
    <3> QED BY <2>1, <3>2, <3>4, <3>5, <3>7 DEF Follows
  <2> QED BY <2>2, <2>3
<1>16. candles_trades' = all
  <2>1. candles_trades \o <<>> = candles_trades
    BY <1>8
  <2>2. some \in Seq(Booking)
    BY <1>11 DEF Booked
  <2>3. some \o <<>> = some
    BY <2>2
  <2>4. candles_trades \o (IF closed THEN <<first>> ELSE <<>>) = some
    BY <2>1 DEF some
  <2> QED BY <1>2, <2>3, <2>4
<1>17. Booked(all) /\ Over(all, c, wait')
  <2>1. CASE forced
    <3>1. all = some \o <<second>>
      BY <2>1
    <3>2. Booked(all) /\ Len(all) > 0 /\ all[Len(all)] = second
      BY <1>11, <1>15, <2>1, <3>1, BookedGrows
    <3> QED BY <1>3, <1>14, <1>15, <2>1, <3>2 DEF Over
  <2>2. CASE ~forced
    BY <1>11, <2>2
  <2> QED BY <2>1, <2>2
<1>18. ~forced /\ held # Nothing => Follows(all, held)
  BY <1>13
<1> HIDE DEF all
<1>19. CandlesTyped'
  BY <1>1, <1>3, <1>9 DEF CandlesInv, CandlesTyped, ByCandle!LastCandle
<1>20. Booked(candles_trades)' /\ Over(candles_trades, candles_candle, wait)'
  BY <1>1, <1>16, <1>17 DEF Booked, Over, Fits, ByCandle!DayOf
<1>21. candles_trade' # Nothing => /\ ~forced /\ held # Nothing /\ candles_trade' = held
  BY <1>1
<1>22. candles_trade' # Nothing =>
         /\ Rides(candles_trade, candles_candle)' /\ Follows(candles_trades, candles_trade)'
         /\ style' = "dsr" => candles_candle' % CandlesPerDay # 0
  BY <1>1, <1>13, <1>14, <1>16, <1>18, <1>21 DEF Rides, Laddered, Follows, ByCandle!DayOf, ByCandle!Behind
<1> QED BY <1>19, <1>20, <1>22 DEF CandlesInv

\* For any days, targets, holding times and cooldowns: a replay of the candles books the worse of two
\* outcomes, names a stop after what it earned, carries nothing overnight and holds one trade at a time
\* (backtest.py's candle simulations and strategy_runner.py).
THEOREM ReplaysAssumeTheWorst ==
    ASSUME CandleConstants
    PROVE  ByCandle!Init /\ [][ByCandle!Next]_(ByCandle!candles) =>
             [](/\ ByCandle!TypeOK /\ ByCandle!WorstIsAssumed /\ ByCandle!NameMatchesResult
                /\ ByCandle!DayTradesOnly /\ ByCandle!NoOverlap)
<1>1. ByCandle!Init => CandlesInv
  BY CandlesBegin
<1>2. CandlesInv /\ [ByCandle!Next]_(ByCandle!candles) => CandlesInv'
  <2> SUFFICES ASSUME CandlesInv, [ByCandle!Next]_(ByCandle!candles) PROVE CandlesInv'
    OBVIOUS
  <2>1. ASSUME NEW b \in ReplayCandles, NEW signal \in {"none", "buy", "sell"}, ByCandle!Replay(b, signal)
        PROVE  CandlesInv'
    BY <2>1, ReplayKeeps
  <2>2. CASE UNCHANGED ByCandle!candles
    <3>1. UNCHANGED <<style, candles_candle, candles_trade, wait, action, candles_trades>>
      BY <2>2 DEF ByCandle!candles
    <3> QED BY <3>1 DEF CandlesInv, CandlesTyped, Booked, Fits, Over, Rides, Laddered, Follows, ByCandle!LastCandle,
         ByCandle!DayOf, ByCandle!Behind
  <2> QED BY <2>1, <2>2 DEF ByCandle!Next
<1>3. CandlesInv => /\ ByCandle!TypeOK /\ ByCandle!WorstIsAssumed /\ ByCandle!NameMatchesResult
                    /\ ByCandle!DayTradesOnly /\ ByCandle!NoOverlap
  <2> SUFFICES ASSUME CandlesInv
               PROVE  /\ ByCandle!TypeOK /\ ByCandle!WorstIsAssumed /\ ByCandle!NameMatchesResult
                      /\ ByCandle!DayTradesOnly /\ ByCandle!NoOverlap
    OBVIOUS
  <2>1. \A r \in ByCandle!ToSet(candles_trades) : r \in Booking /\ Fits(r)
    <3>1. candles_trades \in Seq(Booking)
      BY DEF CandlesInv, Booked
    <3>2. \A r \in ByCandle!ToSet(candles_trades) : \E i \in 1..Len(candles_trades) : r = candles_trades[i]
      BY <3>1 DEF ByCandle!ToSet
    <3> QED BY <3>1, <3>2 DEF CandlesInv, Booked
  <2>2. \A r \in ByCandle!ToSet(candles_trades) : r.reason \in Endings
    BY <2>1 DEF Booking
  <2>3. ByCandle!TypeOK
    <3>1. candles_trade # Nothing =>
            /\ candles_trade.sl \in {ReplayStop, 0} \cup ByCandle!ToSet(ReplayTargets)
            /\ candles_trade.best \in 0..Len(ReplayTargets)
      <4> SUFFICES ASSUME candles_trade # Nothing
                   PROVE  /\ candles_trade.sl \in {ReplayStop, 0} \cup ByCandle!ToSet(ReplayTargets)
                          /\ candles_trade.best \in 0..Len(ReplayTargets)
        OBVIOUS
      <4>1. Laddered(candles_trade) /\ candles_trade.best \in 0..Len(ReplayTargets)
        BY DEF CandlesInv, Rides, Laddered, Riding
      <4>2. candles_trade.best # 0 => candles_trade.best \in 1..Len(ReplayTargets)
        BY <4>1, TargetsAreGains
      <4> QED BY <4>1, <4>2, BehindATarget DEF Laddered
    <3> QED BY <2>2, <3>1 DEF ByCandle!TypeOK, CandlesInv, CandlesTyped, ByCandle!Final, Endings, StopOuts
  <2>4. ByCandle!WorstIsAssumed /\ ByCandle!NameMatchesResult
    BY <2>1 DEF ByCandle!WorstIsAssumed, ByCandle!NameMatchesResult, Fits
  <2>5. ByCandle!DayTradesOnly
    BY <2>1 DEF ByCandle!DayTradesOnly, Fits, CandlesInv, Rides
  <2>6. ByCandle!NoOverlap
    BY DEF ByCandle!NoOverlap, CandlesInv, Booked
  <2> QED BY <2>3, <2>4, <2>5, <2>6
<1> QED BY <1>1, <1>2, <1>3, PTL

-----------------------------------------------------------------------------
(* The replays of the logged chain (ChainReplay): what a trade was decided   *)
(* on had been recorded by then.                                             *)
CONSTANTS LogDays, CyclesPerDay, Night, ChainHold, Cap, ChainCooldown, Persistence
VARIABLES chain_engine, snap, chain_cycle, price, chain_trade, until, streak, chain_trades

ByChain == INSTANCE ChainReplay WITH
    engine <- chain_engine, cycle <- chain_cycle, trade <- chain_trade, trades <- chain_trades,
    Days <- LogDays, PerDay <- CyclesPerDay, Hold <- ChainHold, Cooldown <- ChainCooldown,
    Engines <- {"oi", "sr", "v2", "v3"}, NoTrade <- Nothing

Position == [entry : Int, used : SUBSET Int]
Closing  == [entry : Int, used : SUBSET Int, exit : Int, reason : {"TARGET HIT", "STOP LOSS", "TIME EXIT"}]

\* Assumed of the constants: durations and counts are naturals, a day has a cycle, a bias lasts at least
\* one, and no trade is no trade.
ChainConstants ==
    /\ {LogDays, Night, ChainHold, Cap, ChainCooldown} \subseteq Nat
    /\ CyclesPerDay \in Nat \ {0} /\ Persistence \in Nat \ {0}
    /\ Nothing \notin Position

ChainClock == ByChain!Time(chain_cycle)
LastChain  == chain_trades[Len(chain_trades)]

ChainTyped ==
    /\ chain_engine \in {"oi", "sr", "v2", "v3"} /\ price \in ByChain!Prices
    /\ snap \in [1..LogDays -> 0..CyclesPerDay]
    /\ chain_cycle \in 0..(LogDays * CyclesPerDay)
    /\ chain_trade \in Position \cup {Nothing}
    /\ until \in Nat /\ streak.count \in 0..Persistence
    /\ chain_trades \in Seq(Closing)

\* The open trade began within the log, the closed ones ended before it, and a cooldown runs from the last.
ChainOrder ==
    /\ chain_trade # Nothing => chain_trade.entry \in 1..ChainClock
    /\ Len(chain_trades) > 0 =>
         /\ LastChain.exit <= ChainClock
         /\ chain_engine # "v2" => until >= LastChain.exit + ChainCooldown
         /\ chain_trade # Nothing =>
              /\ LastChain.exit < chain_trade.entry
              /\ chain_engine # "v2" => chain_trade.entry >= LastChain.exit + ChainCooldown

ChainInv == ChainTyped /\ ChainOrder /\ ByChain!NoLookahead /\ ByChain!OneAtATime /\ ByChain!OverdueIsUnpriced

\* The clock of the log: days follow one another, and a cycle is at least a minute after the one before.
LEMMA DayOfCycle ==
    ASSUME ChainConstants, NEW c \in Int
    PROVE  /\ ByChain!DayOf(c) \in Int
           /\ CyclesPerDay * (ByChain!DayOf(c) - 1) <= c - 1
           /\ c - 1 < CyclesPerDay * (ByChain!DayOf(c) - 1) + CyclesPerDay
<1> DEFINE q == (c - 1) \div CyclesPerDay
<1>1. CyclesPerDay \in Nat \ {0} /\ c - 1 \in Int
  BY DEF ChainConstants
<1>2. q \in Int /\ CyclesPerDay * q <= c - 1 /\ c - 1 < CyclesPerDay * q + CyclesPerDay
  BY <1>1, QuotientOf
<1> HIDE DEF q
<1>3. ByChain!DayOf(c) = q + 1
  BY DEF ByChain!DayOf, q
<1> QED BY <1>2, <1>3

LEMMA DaysPass ==
    ASSUME ChainConstants, NEW c \in Int, NEW d \in Int, c <= d
    PROVE  ByChain!DayOf(c) <= ByChain!DayOf(d)
<1> DEFINE p == ByChain!DayOf(c) - 1
           q == ByChain!DayOf(d) - 1
<1>1. /\ p \in Int /\ q \in Int /\ CyclesPerDay \in Nat \ {0}
      /\ CyclesPerDay * p <= c - 1 /\ d - 1 < CyclesPerDay * q + CyclesPerDay
  BY DayOfCycle DEF ChainConstants
<1>2. ByChain!DayOf(c) = p + 1 /\ ByChain!DayOf(d) = q + 1
  BY DayOfCycle
<1> HIDE DEF p, q
<1>3. CyclesPerDay * p < CyclesPerDay * (q + 1)
  BY <1>1
<1>4. p < q + 1
  BY <1>1, <1>3
<1> QED BY <1>1, <1>2, <1>4

LEMMA TimePasses ==
    ASSUME ChainConstants, NEW c \in Int, NEW d \in Int, c <= d
    PROVE  ByChain!Time(c) \in Int /\ ByChain!Time(d) \in Int /\ ByChain!Time(c) + (d - c) <= ByChain!Time(d)
<1>1. ByChain!DayOf(c) \in Int /\ ByChain!DayOf(d) \in Int /\ Night \in Nat
  BY DayOfCycle DEF ChainConstants
<1>2. ByChain!DayOf(c) <= ByChain!DayOf(d)
  BY DaysPass
<1>3. Night * (ByChain!DayOf(c) - 1) <= Night * (ByChain!DayOf(d) - 1)
  <2> DEFINE x == ByChain!DayOf(c) - 1
             y == ByChain!DayOf(d) - 1
  <2>1. x \in Int /\ y \in Int /\ x <= y
    BY <1>1, <1>2
  <2> HIDE DEF x, y
  <2>2. Night * x <= Night * y
    BY <1>1, <2>1
  <2> QED BY <2>2 DEF x, y
<1>4. Night * (ByChain!DayOf(c) - 1) \in Int /\ Night * (ByChain!DayOf(d) - 1) \in Int
  BY <1>1
<1> QED BY <1>3, <1>4 DEF ByChain!Time

LEMMA TimeBegins ==
    ASSUME ChainConstants, NEW c \in Int, c >= 1
    PROVE  ByChain!Time(c) \in Int /\ ByChain!Time(c) >= 1
<1>1. ByChain!DayOf(1) = 1
  <2>1. 0 \div CyclesPerDay = 0
    BY QuotientIs DEF ChainConstants
  <2> QED BY <2>1 DEF ByChain!DayOf
<1>2. ByChain!Time(1) = 1
  BY <1>1 DEF ByChain!Time, ChainConstants
<1>3. /\ ByChain!Time(1) \in Int /\ ByChain!Time(c) \in Int
      /\ ByChain!Time(1) + (c - 1) <= ByChain!Time(c)
  BY TimePasses
<1> QED BY <1>2, <1>3

LEMMA DayIsLogged ==
    ASSUME ChainConstants, NEW c \in 1..(LogDays * CyclesPerDay)
    PROVE  ByChain!DayOf(c) \in 1..LogDays
<1> DEFINE q == ByChain!DayOf(c) - 1
<1>1. LogDays \in Nat /\ CyclesPerDay \in Nat \ {0}
  BY DEF ChainConstants
<1>2. LogDays * CyclesPerDay \in Nat
  BY <1>1
<1>3. c \in Int /\ c >= 1 /\ c <= LogDays * CyclesPerDay
  BY <1>2
<1>4. q \in Int /\ CyclesPerDay * q <= c - 1 /\ c - 1 < CyclesPerDay * q + CyclesPerDay /\ ByChain!DayOf(c) = q + 1
  BY <1>3, DayOfCycle
<1> HIDE DEF q
<1>5. q < LogDays
  BY <1>1, <1>2, <1>3, <1>4
<1>6. q >= 0
  BY <1>1, <1>3, <1>4
<1> QED BY <1>1, <1>4, <1>5, <1>6

\* What the engine is handed at a cycle was recorded at that cycle or before it.
LEMMA InputsAreRecorded ==
    ASSUME ChainConstants, ChainTyped, NEW c \in 1..(LogDays * CyclesPerDay)
    PROVE  ByChain!Inputs(c) \subseteq Int /\ \A u \in ByChain!Inputs(c) : u <= ByChain!Time(c)
<1>1. c \in Int /\ ByChain!DayOf(c) \in 1..LogDays /\ ByChain!DayOf(c) \in Int /\ ByChain!Time(c) \in Int
      /\ LogDays \in Nat /\ CyclesPerDay \in Nat \ {0}
  <2>1. LogDays \in Nat /\ CyclesPerDay \in Nat \ {0}
    BY DEF ChainConstants
  <2>2. LogDays * CyclesPerDay \in Nat
    BY <2>1
  <2>3. c \in Int
    BY <2>2
  <2> QED BY <2>1, <2>3, DayIsLogged, DayOfCycle, TimePasses
<1>2. \A u \in ByChain!Structure(c) : u \in Int /\ u <= ByChain!Time(c)
  <2> SUFFICES ASSUME ByChain!Known(c)
               PROVE  LET u == ByChain!Time(ByChain!Of(ByChain!DayOf(c), snap[ByChain!DayOf(c)])) IN
                      u \in Int /\ u <= ByChain!Time(c)
    BY DEF ByChain!Structure
  <2>1. snap[ByChain!DayOf(c)] \in 0..CyclesPerDay
    BY <1>1 DEF ChainTyped
  <2> DEFINE n == snap[ByChain!DayOf(c)]
             d == ByChain!DayOf(c)
  <2>2. n \in Int /\ d \in Int
    BY <1>1, <2>1
  <2> HIDE DEF n, d
  <2>3. ByChain!Of(d, n) \in Int
    BY <1>1, <2>2 DEF ByChain!Of
  <2>4. ByChain!Time(ByChain!Of(d, n)) \in Int
    BY <2>3, TimePasses
  <2> QED BY <2>4 DEF n, d, ByChain!Known
<1>3. \A u \in ByChain!Yesterday(c) : u \in Int /\ u <= ByChain!Time(c)
  <2> SUFFICES ASSUME NEW d \in ByChain!PrevDay(c)
               PROVE  LET u == ByChain!Time(ByChain!Of(d, CyclesPerDay)) IN u \in Int /\ u <= ByChain!Time(c)
    BY DEF ByChain!Yesterday
  <2>1. d \in ByChain!Closed(c)
    <3>1. ByChain!Closed(c) # {} /\ ByChain!Closed(c) \in SUBSET (1..LogDays) /\ d = ByChain!Max(ByChain!Closed(c))
      BY DEF ByChain!PrevDay, ByChain!Closed
    <3>2. \E x \in ByChain!Closed(c) : \A y \in ByChain!Closed(c) : x >= y
      BY <1>1, <3>1, LatestOf
    <3> QED BY <3>1, <3>2 DEF ByChain!Max
  <2>2. d \in Int /\ d < ByChain!DayOf(c)
    BY <1>1, <2>1 DEF ByChain!Closed
  <2>3. ByChain!Of(d, CyclesPerDay) \in Int /\ ByChain!Of(d, CyclesPerDay) <= c
    <3> DEFINE q == ByChain!DayOf(c) - 1
    <3>1. q \in Int /\ d <= q /\ CyclesPerDay * q <= c - 1
      BY <1>1, <2>2, DayOfCycle
    <3> HIDE DEF q
    <3>2. CyclesPerDay * (d - 1) + CyclesPerDay <= CyclesPerDay * q
      BY <1>1, <2>2, <3>1
    <3>3. CyclesPerDay * (d - 1) \in Int
      BY <1>1, <2>2
    <3> QED BY <1>1, <3>1, <3>2, <3>3 DEF ByChain!Of
  <2>4. ByChain!Time(ByChain!Of(d, CyclesPerDay)) \in Int
        /\ ByChain!Time(ByChain!Of(d, CyclesPerDay)) + (c - ByChain!Of(d, CyclesPerDay)) <= ByChain!Time(c)
    BY <1>1, <2>3, TimePasses
  <2> QED BY <1>1, <2>3, <2>4
<1>4. chain_engine \in {"oi", "sr", "v2", "v3"}
  BY DEF ChainTyped
<1>5. \A u \in ByChain!Inputs(c) : u = ByChain!Time(c) \/ u \in ByChain!Structure(c) \/ u \in ByChain!Yesterday(c)
  BY <1>4 DEF ByChain!Inputs
<1> QED BY <1>1, <1>2, <1>3, <1>5

\* A step is to the next cycle of the log.
LEMMA ChainAdvances ==
    ASSUME ChainConstants, ChainTyped, chain_cycle < LogDays * CyclesPerDay
    PROVE  /\ chain_cycle + 1 \in 1..(LogDays * CyclesPerDay) /\ chain_cycle + 1 \in 0..(LogDays * CyclesPerDay)
           /\ ChainClock \in Int /\ ByChain!Time(chain_cycle + 1) \in Int
           /\ ByChain!Time(chain_cycle + 1) >= ChainClock + 1 /\ ByChain!Time(chain_cycle + 1) >= 1
<1>1. LogDays * CyclesPerDay \in Int
  BY DEF ChainConstants
<1>2. chain_cycle \in Int /\ chain_cycle >= 0
  BY <1>1 DEF ChainTyped
<1>3. /\ ByChain!Time(chain_cycle) \in Int /\ ByChain!Time(chain_cycle + 1) \in Int
      /\ ByChain!Time(chain_cycle) + (chain_cycle + 1 - chain_cycle) <= ByChain!Time(chain_cycle + 1)
  BY <1>2, TimePasses
<1>4. ByChain!Time(chain_cycle + 1) >= 1
  BY <1>2, TimeBegins
<1> QED BY <1>1, <1>2, <1>3, <1>4 DEF ChainClock

LEMMA ChainBegins ==
    ASSUME ChainConstants, ByChain!Init
    PROVE  ChainInv
<1>1. /\ chain_trades = <<>> /\ Len(chain_trades) = 0 /\ chain_trade = Nothing /\ price = "none" /\ chain_cycle = 0
      /\ until = 0 /\ streak.count = 0 /\ snap \in [1..LogDays -> 0..CyclesPerDay]
      /\ chain_engine \in {"oi", "sr", "v2", "v3"}
  BY DEF ByChain!Init
<1>2. ChainTyped
  <2>1. 0 \in 0..(LogDays * CyclesPerDay) /\ 0 \in 0..Persistence
    BY DEF ChainConstants
  <2>2. chain_trades \in Seq(Closing)
    BY <1>1
  <2> QED BY <1>1, <2>1, <2>2 DEF ChainTyped, ByChain!Prices
<1>3. ByChain!NoLookahead /\ ByChain!OneAtATime /\ ByChain!OverdueIsUnpriced /\ ChainOrder
  BY <1>1 DEF ByChain!NoLookahead, ByChain!OneAtATime, ByChain!OverdueIsUnpriced, ChainOrder, ByChain!ToSet
<1> QED BY <1>2, <1>3 DEF ChainInv

\* Without a trade, or with one that is opened by what was recorded.
LEMMA EvaluateKeepsChain ==
    ASSUME ChainConstants, ChainInv, NEW bias, NEW signal, ByChain!Evaluate(bias, signal)
    PROVE  ChainInv'
<1> DEFINE c == chain_cycle + 1
           now == ByChain!Time(c)
<1>1. /\ chain_trade = Nothing /\ chain_cycle < LogDays * CyclesPerDay
      /\ chain_cycle' = c /\ price' = "none"
      /\ UNCHANGED <<chain_engine, snap, until, chain_trades>>
  BY DEF ByChain!Evaluate
<1>2. /\ c \in 1..(LogDays * CyclesPerDay) /\ c \in 0..(LogDays * CyclesPerDay)
      /\ ChainClock \in Int /\ now \in Int /\ now >= ChainClock + 1 /\ now >= 1 /\ ChainClock' = now
  <2>1. ChainClock' = ByChain!Time(c)
    BY <1>1 DEF ChainClock, ByChain!Time, ByChain!DayOf
  <2> QED BY <1>1, <2>1, ChainAdvances DEF ChainInv
<1>3. streak'.count \in 0..Persistence
  <2>1. streak.count \in 0..Persistence /\ Persistence \in Nat \ {0}
    BY DEF ChainInv, ChainTyped, ChainConstants
  <2>2. streak' = IF chain_engine # "oi" THEN streak
                  ELSE [bias |-> bias, count |-> IF streak.bias # bias THEN 1
                        ELSE IF streak.count = Persistence THEN Persistence ELSE streak.count + 1]
    BY DEF ByChain!Evaluate
  <2> QED BY <2>1, <2>2
<1>4. chain_trade' = Nothing \/ (now >= until /\ chain_trade' = [entry |-> now, used |-> ByChain!Inputs(c)])
  BY DEF ByChain!Evaluate, ByChain!Opened
<1>5. ByChain!Inputs(c) \subseteq Int /\ \A u \in ByChain!Inputs(c) : u <= now
  BY <1>2, InputsAreRecorded DEF ChainInv
<1> HIDE DEF c, now
<1>6. chain_trade' # Nothing =>
        /\ chain_trade' \in Position /\ chain_trade'.entry = now /\ now >= until
        /\ \A u \in chain_trade'.used : u <= chain_trade'.entry
  BY <1>2, <1>4, <1>5 DEF Position
<1>7. ChainTyped'
  BY <1>1, <1>2, <1>3, <1>6 DEF ChainInv, ChainTyped, ByChain!Prices
<1>8. ChainOrder'
  <2>1. LastChain' = LastChain
    BY <1>1 DEF LastChain
  <2>2. Len(chain_trades) > 0 => LastChain.exit \in Int
    <3>1. chain_trades \in Seq(Closing)
      BY DEF ChainInv, ChainTyped
    <3>2. Len(chain_trades) > 0 => LastChain \in Closing
      BY <3>1 DEF LastChain
    <3> QED BY <3>2 DEF Closing
  <2>3. until \in Int /\ ChainCooldown \in Int
    BY DEF ChainInv, ChainTyped, ChainConstants
  <2>4. Len(chain_trades) > 0 =>
          /\ LastChain.exit <= ChainClock
          /\ chain_engine # "v2" => until >= LastChain.exit + ChainCooldown
    BY DEF ChainInv, ChainOrder
  <2>5. chain_trade' # Nothing => chain_trade'.entry \in 1..ChainClock'
    BY <1>2, <1>6
  <2>6. Len(chain_trades) > 0 =>
          /\ LastChain.exit <= now /\ LastChain.exit < now
          /\ chain_engine # "v2" /\ now >= until => now >= LastChain.exit + ChainCooldown
    BY <1>2, <2>2, <2>3, <2>4
  <2> QED BY <1>1, <1>2, <1>6, <2>1, <2>4, <2>5, <2>6 DEF ChainOrder
<1>9. ByChain!NoLookahead'
  BY <1>1, <1>6 DEF ChainInv, ByChain!NoLookahead, ByChain!ToSet
<1>10. ByChain!OneAtATime' /\ ByChain!OverdueIsUnpriced'
  BY <1>1 DEF ChainInv, ByChain!OneAtATime, ByChain!OverdueIsUnpriced
<1> QED BY <1>7, <1>8, <1>9, <1>10 DEF ChainInv

\* The open trade goes on, or is closed and reported.
LEMMA ManageKeepsChain ==
    ASSUME ChainConstants, ChainInv, NEW p \in ByChain!Prices, NEW pause \in BOOLEAN, ByChain!Manage(p, pause)
    PROVE  ChainInv'
<1> DEFINE c   == chain_cycle + 1
           now == ByChain!Time(c)
           reason == ByChain!Reason(now - chain_trade.entry, p, pause)
           closed == [entry |-> chain_trade.entry, used |-> chain_trade.used, exit |-> now, reason |-> reason]
<1>1. /\ chain_trade # Nothing /\ chain_cycle < LogDays * CyclesPerDay
      /\ chain_cycle' = c /\ price' = p /\ UNCHANGED <<chain_engine, snap, streak>>
  BY DEF ByChain!Manage
<1>2. IF reason = "none" THEN UNCHANGED <<chain_trade, chain_trades, until>>
      ELSE /\ chain_trades' = Append(chain_trades, closed)
           /\ chain_trade' = Nothing
           /\ until' = IF chain_engine = "v2" THEN until ELSE now + ChainCooldown
  BY DEF ByChain!Manage, ByChain!RestUntil
<1>3. /\ c \in 0..(LogDays * CyclesPerDay)
      /\ ChainClock \in Int /\ now \in Int /\ now >= ChainClock + 1 /\ now >= 1 /\ ChainClock' = now
  <2>1. ChainClock' = ByChain!Time(c)
    BY <1>1 DEF ChainClock, ByChain!Time, ByChain!DayOf
  <2> QED BY <1>1, <2>1, ChainAdvances DEF ChainInv
<1>4. /\ chain_trade \in Position /\ chain_trade.entry \in Int /\ chain_trade.used \in SUBSET Int
      /\ chain_trade.entry >= 1 /\ chain_trade.entry <= ChainClock
      /\ \A u \in chain_trade.used : u <= chain_trade.entry
  <2>1. chain_trade \in Position /\ chain_trade.entry \in 1..ChainClock
    BY <1>1 DEF ChainInv, ChainTyped, ChainOrder
  <2>2. \A u \in chain_trade.used : u <= chain_trade.entry
    BY <1>1 DEF ChainInv, ByChain!NoLookahead
  <2> QED BY <1>3, <2>1, <2>2 DEF Position
<1>5. reason \in {"none", "TARGET HIT", "STOP LOSS", "TIME EXIT"}
  <2> DEFINE held == now - chain_trade.entry
  <2> HIDE DEF held, now
  <2>1. ByChain!Reason(held, p, pause) \in {"none", "TARGET HIT", "STOP LOSS", "TIME EXIT"}
    <3>1. CASE p \in {"none", "target", "stop"}
      BY <3>1 DEF ByChain!Reason
    <3>2. CASE p = "between" /\ chain_engine \in {"v2", "v3"} /\ held >= Cap
      BY <3>2 DEF ByChain!Reason
    <3>3. CASE p = "between" /\ ~(chain_engine \in {"v2", "v3"} /\ held >= Cap)
               /\ held >= ChainHold /\ ~(pause /\ chain_engine \in {"v2", "v3"})
      BY <3>3 DEF ByChain!Reason
    <3>4. CASE p = "between" /\ ~(chain_engine \in {"v2", "v3"} /\ held >= Cap)
               /\ ~(held >= ChainHold /\ ~(pause /\ chain_engine \in {"v2", "v3"}))
      BY <3>4 DEF ByChain!Reason
    <3> QED BY <3>1, <3>2, <3>3, <3>4 DEF ByChain!Prices
  <2> QED BY <2>1 DEF held
<1>6. /\ chain_trades \in Seq(Closing) /\ Len(chain_trades) \in Nat /\ until \in Nat /\ ChainCooldown \in Nat
      /\ \A i \in 1..Len(chain_trades) : chain_trades[i] \in Closing
  BY DEF ChainInv, ChainTyped, ChainConstants
<1> HIDE DEF c, now, reason
<1>7. CASE reason = "none"
  <2>1. UNCHANGED <<chain_trade, chain_trades, until>>
    BY <1>2, <1>7
  <2>2. ChainTyped'
    BY <1>1, <1>3, <2>1 DEF ChainInv, ChainTyped
  <2>3. ChainOrder'
    <3>1. LastChain' = LastChain
      BY <2>1 DEF LastChain
    <3>2. Len(chain_trades) > 0 => LastChain.exit \in Int
      <4>1. Len(chain_trades) > 0 => LastChain \in Closing
        BY <1>6 DEF LastChain
      <4> QED BY <4>1 DEF Closing
    <3>3. chain_trade.entry \in 1..now
      BY <1>3, <1>4
    <3>4. Len(chain_trades) > 0 => LastChain.exit <= now
      BY <1>3, <3>2 DEF ChainInv, ChainOrder
    <3> QED BY <1>1, <1>3, <2>1, <3>1, <3>3, <3>4 DEF ChainInv, ChainOrder
  <2>4. ByChain!NoLookahead' /\ ByChain!OneAtATime'
    BY <1>1, <2>1 DEF ChainInv, ByChain!NoLookahead, ByChain!OneAtATime, ByChain!ToSet
  <2>5. ByChain!OverdueIsUnpriced'
    <3>1. p # "none" => now - chain_trade.entry < IF chain_engine \in {"v2", "v3"} THEN Cap ELSE ChainHold
      <4> SUFFICES ASSUME p # "none"
                   PROVE  now - chain_trade.entry < IF chain_engine \in {"v2", "v3"} THEN Cap ELSE ChainHold
        OBVIOUS
      <4> DEFINE held == now - chain_trade.entry
      <4>1. ByChain!Reason(held, p, pause) = "none"
        BY <1>7 DEF reason
      <4>2. held \in Int /\ Cap \in Int /\ ChainHold \in Int
        BY <1>3, <1>4 DEF ChainConstants
      <4> HIDE DEF held
      <4>3. p \notin {"target", "stop"}
        BY <4>1 DEF ByChain!Reason
      <4>4. p = "between"
        BY <4>3 DEF ByChain!Prices
      <4>5. CASE chain_engine \in {"v2", "v3"}
        <5>1. ~(held >= Cap)
          BY <4>1, <4>4, <4>5 DEF ByChain!Reason
        <5>2. held < Cap
          BY <4>2, <5>1
        <5> QED BY <4>5, <5>2 DEF held
      <4>6. CASE chain_engine \notin {"v2", "v3"}
        <5>1. ~(held >= ChainHold)
          BY <4>1, <4>4, <4>6 DEF ByChain!Reason
        <5>2. held < ChainHold
          BY <4>2, <5>1
        <5> QED BY <4>6, <5>2 DEF held
      <4> QED BY <4>5, <4>6
    <3>2. ByChain!Time(chain_cycle)' = now
      BY <1>3 DEF ChainClock
    <3> QED BY <1>1, <2>1, <3>1, <3>2 DEF ByChain!OverdueIsUnpriced
  <2> QED BY <2>2, <2>3, <2>4, <2>5 DEF ChainInv
<1>8. CASE reason # "none"
  <2>1. chain_trades' = Append(chain_trades, closed) /\ chain_trade' = Nothing
        /\ until' = IF chain_engine = "v2" THEN until ELSE now + ChainCooldown
    BY <1>2, <1>8
  <2>2. /\ closed \in Closing /\ closed.exit = now /\ closed.entry = chain_trade.entry
        /\ closed.used = chain_trade.used
    BY <1>3, <1>4, <1>5, <1>8 DEF Closing
  <2> HIDE DEF closed
  <2>3. /\ chain_trades' \in Seq(Closing) /\ Len(chain_trades') = Len(chain_trades) + 1
        /\ \A i \in 1..Len(chain_trades) : chain_trades'[i] = chain_trades[i]
        /\ chain_trades'[Len(chain_trades) + 1] = closed
    BY <1>6, <2>1, <2>2
  <2>4. until' \in Nat /\ (chain_engine # "v2" => until' >= now + ChainCooldown)
    BY <1>3, <1>6, <2>1
  <2>5. ChainTyped'
    BY <1>1, <1>3, <2>1, <2>3, <2>4 DEF ChainInv, ChainTyped
  <2>6. LastChain' = closed
    BY <2>3 DEF LastChain
  <2>7. ChainOrder'
    BY <1>1, <1>3, <2>1, <2>2, <2>4, <2>6 DEF ChainOrder
  <2>8. ByChain!NoLookahead'
    <3>1. \A i \in 1..Len(chain_trades) : \A u \in chain_trades[i].used : u <= chain_trades[i].entry
      <4>1. \A i \in 1..Len(chain_trades) : chain_trades[i] \in ByChain!ToSet(chain_trades)
        BY <1>6 DEF ByChain!ToSet
      <4> QED BY <4>1 DEF ChainInv, ByChain!NoLookahead
    <3>2. \A i \in 1..Len(chain_trades') : i \in 1..Len(chain_trades) \/ i = Len(chain_trades) + 1
      BY <1>6, <2>3
    <3>3. \A i \in 1..Len(chain_trades') : \A u \in chain_trades'[i].used : u <= chain_trades'[i].entry
      BY <1>4, <2>2, <2>3, <3>1, <3>2
    <3>4. \A t \in ByChain!ToSet(chain_trades)' : \E i \in 1..Len(chain_trades') : t = chain_trades'[i]
      BY <2>3 DEF ByChain!ToSet
    <3> QED BY <2>1, <3>3, <3>4 DEF ByChain!NoLookahead
  <2>9. ByChain!OneAtATime'
    <3> SUFFICES ASSUME NEW i \in 1..(Len(chain_trades') - 1)
                 PROVE  /\ chain_trades'[i].exit < chain_trades'[i + 1].entry
                        /\ chain_engine # "v2" => chain_trades'[i + 1].entry >= chain_trades'[i].exit + ChainCooldown
      BY <1>1 DEF ByChain!OneAtATime
    <3>1. CASE i = Len(chain_trades)
      <4>1. Len(chain_trades) > 0 /\ chain_trades'[i] = LastChain /\ chain_trades'[i + 1] = closed
        BY <1>6, <2>3, <3>1 DEF LastChain
      <4> QED BY <1>1, <2>2, <4>1 DEF ChainInv, ChainOrder
    <3>2. CASE i # Len(chain_trades)
      <4>1. /\ i \in 1..(Len(chain_trades) - 1) /\ i \in 1..Len(chain_trades) /\ i + 1 \in 1..Len(chain_trades)
        BY <1>6, <2>3, <3>2
      <4> QED BY <2>3, <4>1 DEF ChainInv, ByChain!OneAtATime
    <3> QED BY <3>1, <3>2
  <2>10. ByChain!OverdueIsUnpriced'
    BY <2>1 DEF ByChain!OverdueIsUnpriced
  <2> QED BY <2>5, <2>7, <2>8, <2>9, <2>10 DEF ChainInv
<1> QED BY <1>7, <1>8

\* For any days, cycles, nights, holding times and cooldowns: no trade of a replay of the logged chain
\* used what was recorded after its decision, trades follow one another with the cooldown between, and
\* one that is overdue has no price (the simulations of backtest.py that walk the logged cycles).
THEOREM ReplaysSeeThePast ==
    ASSUME ChainConstants
    PROVE  ByChain!Init /\ [][ByChain!Next]_(ByChain!replay) =>
             [](ByChain!TypeOK /\ ByChain!NoLookahead /\ ByChain!OneAtATime /\ ByChain!OverdueIsUnpriced)
<1>1. ByChain!Init => ChainInv
  BY ChainBegins
<1>2. ChainInv /\ [ByChain!Next]_(ByChain!replay) => ChainInv'
  <2> SUFFICES ASSUME ChainInv, [ByChain!Next]_(ByChain!replay) PROVE ChainInv'
    OBVIOUS
  <2>1. ASSUME NEW p \in ByChain!Prices, NEW pause \in BOOLEAN, ByChain!Manage(p, pause) PROVE ChainInv'
    BY <2>1, ManageKeepsChain
  <2>2. ASSUME NEW bias \in {"up", "down"}, NEW signal \in BOOLEAN, ByChain!Evaluate(bias, signal) PROVE ChainInv'
    BY <2>2, EvaluateKeepsChain
  <2>3. CASE UNCHANGED ByChain!replay
    <3>1. UNCHANGED <<chain_engine, snap, chain_cycle, price, chain_trade, until, streak, chain_trades>>
      BY <2>3 DEF ByChain!replay
    <3> QED BY <3>1 DEF ChainInv, ChainTyped, ChainOrder, ChainClock, LastChain, ByChain!NoLookahead,
         ByChain!OneAtATime, ByChain!OverdueIsUnpriced, ByChain!Time, ByChain!DayOf, ByChain!ToSet
  <2> QED BY <2>1, <2>2, <2>3 DEF ByChain!Next
<1>3. ChainInv => ByChain!TypeOK /\ ByChain!NoLookahead /\ ByChain!OneAtATime /\ ByChain!OverdueIsUnpriced
  <2> SUFFICES ASSUME ChainInv PROVE ByChain!TypeOK
    BY DEF ChainInv
  <2>1. \A t \in ByChain!ToSet(chain_trades) : t.reason \in {"TARGET HIT", "STOP LOSS", "TIME EXIT"}
    <3>1. chain_trades \in Seq(Closing)
      BY DEF ChainInv, ChainTyped
    <3>2. \A t \in ByChain!ToSet(chain_trades) : t \in Closing
      BY <3>1 DEF ByChain!ToSet
    <3> QED BY <3>2 DEF Closing
  <2> QED BY <2>1 DEF ByChain!TypeOK, ChainInv, ChainTyped, ChainOrder, ChainClock
<1> QED BY <1>1, <1>2, <1>3, PTL
=============================================================================

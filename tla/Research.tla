------------------------------ MODULE Research ------------------------------
(***************************************************************************)
(* The quant researcher's cycle (agents/quant_researcher) with the two     *)
(* gates only its promotions pass: the risk manager's (agents/             *)
(* risk_manager) and the trading supervisor's (agents/                     *)
(* trading_supervisor).  A cycle searches failed-experiment memory, tests  *)
(* the hypotheses of its catalog that are not among what it finds, ranks   *)
(* those that validate, compares the best with the production baseline and *)
(* submits it on a branch of its own.                                      *)
(*                                                                         *)
(* What a simulated strategy earns, what the five common gates report and  *)
(* what the market looks like are free choices; the limits, the score and  *)
(* the order of the records are the code's.  Each record is a transaction  *)
(* of its own, so an exception or a death may fall between any two.  Cycles*)
(* run one after the other, in the runtime's thread.                       *)
(***************************************************************************)
EXTENDS Integers, SequencesExt, FiniteSetsExt

CONSTANTS Catalog,       \* the hypotheses
          Symbols,       \* what they are tested on
          Direction,     \* Direction[h]: "long", "short" or "both"
          Recall,        \* MEMORY_SEARCH_LIMIT: failures a search returns
          SymbolLimit,   \* strategies one symbol may carry (exposure_symbol)
          TotalLimit,    \* strategies that may be active (concurrent_trades)
          Penalties,     \* what VaR, CVaR and the drawdowns may cost in score
          MaxCycles, MaxFaults

VARIABLES
    failures,   \* agent_memory_failed_experiments, newest first
    sets,       \* agent_memory_parameter_sets, oldest first
    versions,   \* agent_memory_strategy_evolution: hypothesis and audit row, oldest first
    reports,    \* the backtest, risk and supervision records of each cycle
    log,        \* the researcher's rows of agent_audit_log, oldest first
    branches,   \* rows-to-be whose branch and worktree exist
    cycle,      \* the cycle under way
    broken,     \* history: submissions cut short by an exception or a death
    cycles, faults

research == <<failures, sets, versions, reports, log, branches, cycle, broken, cycles, faults>>

Resting == [at |-> "idle"]
Verdicts == {"APPROVED", "REQUIRES_REVIEW", "REJECTED"}

Init ==
    /\ failures = << >> /\ sets = << >> /\ versions = << >> /\ log = << >>
    /\ reports = {} /\ branches = {} /\ broken = {}
    /\ cycle = Resting
    /\ cycles = 0 /\ faults = 0

-----------------------------------------------------------------------------
\* What memory answers.

FailedOn(i, s) == failures[i].kind = "cycle" /\ failures[i].sym = s
Recalled(s) ==
    {failures[i].hyp : i \in {i \in DOMAIN failures :
        FailedOn(i, s) /\ Cardinality({j \in 1..(i - 1) : FailedOn(j, s)}) < Recall}}
Active(h)    == SelectSeq(sets, LAMBDA r : r.best /\ r.hyp # h)
On(s, rows)  == SelectSeq(rows, LAMBDA r : r.sym = s)
KnownBad(h)  == \E f \in ToSet(failures) : f.hyp = h /\ f.kind = "cycle"
Conflicts(h, s) == \E r \in ToSet(On(s, Active(h))) :
                       {Direction[h], Direction[r.hyp]} = {"long", "short"}

\* The risk gate: a failed limit costs 15, a strategy it is correlated with 5.
FailedLimits(h, s, sized) ==
    {c \in {"sizing", "symbol", "total"} :
        CASE c = "sizing" -> ~sized
          [] c = "symbol" -> Len(On(s, Active(h))) + 1 > SymbolLimit
          [] c = "total"  -> Len(Active(h)) + 1 > TotalLimit}
Score(h, s, sized, penalty, alike) ==
    100 - 15 * Cardinality(FailedLimits(h, s, sized)) - penalty - 5 * alike
Decided(score)  == IF score < 40 THEN "REJECTED"
                   ELSE IF score < 70 THEN "REQUIRES_REVIEW" ELSE "APPROVED"
Assessed(h, score) == IF Decided(score) = "APPROVED" /\ KnownBad(h)
                      THEN "REQUIRES_REVIEW" ELSE Decided(score)

\* The supervisor looks the risk gate up again rather than trusting the caller.
Supervised(h, s, gates, uneasy) ==
    IF gates.risk \in {"missing", "REJECTED"} THEN "REJECTED"
    ELSE IF Conflicts(h, s) \/ uneasy THEN "REQUIRES_REVIEW" ELSE "APPROVED"

Refused(gates) == gates.guarded \/ ~gates.common \/ "REJECTED" \in {gates.risk, gates.supervisor}

-----------------------------------------------------------------------------

Start(s) ==
    /\ cycle = Resting /\ cycles < MaxCycles
    /\ cycles' = cycles + 1
    /\ cycle' = [at |-> "testing", sym |-> s, todo |-> Catalog \ Recalled(s), valid |-> {}]
    /\ UNCHANGED <<failures, sets, versions, reports, log, branches, broken, faults>>

\* One hypothesis: simulate, validate, then remember the failure or optimise it.
Test(h, significant) ==
    /\ cycle.at = "testing" /\ h \in cycle.todo
    /\ IF significant
       THEN /\ versions' = Append(versions, [hyp |-> h, row |-> 0])
            /\ cycle' = [cycle EXCEPT !.todo = @ \ {h}, !.valid = @ \cup {h}]
            /\ UNCHANGED failures
       ELSE /\ failures' = <<[hyp |-> h, sym |-> cycle.sym, kind |-> "cycle", row |-> 0]>> \o failures
            /\ cycle' = [cycle EXCEPT !.todo = @ \ {h}]
            /\ UNCHANGED versions
    /\ UNCHANGED <<sets, reports, log, branches, broken, cycles, faults>>

NothingValid ==
    /\ cycle.at = "testing" /\ cycle.todo = {} /\ cycle.valid = {}
    /\ cycle' = Resting
    /\ UNCHANGED <<failures, sets, versions, reports, log, branches, broken, cycles, faults>>

\* The best by Sharpe ratio against the baseline: archived, or submitted on a new branch.
Compare(h, beats) ==
    /\ cycle.at = "testing" /\ cycle.todo = {} /\ h \in cycle.valid
    /\ reports' = reports \cup {<<"backtest", cycles>>}
    /\ cycle' = [at |-> IF beats THEN "promoting" ELSE "archiving", sym |-> cycle.sym, hyp |-> h]
    /\ UNCHANGED <<failures, sets, versions, log, branches, broken, cycles, faults>>

Archive ==
    /\ cycle.at = "archiving"
    /\ sets' = Append(sets, [hyp |-> cycle.hyp, sym |-> cycle.sym, best |-> FALSE, row |-> 0])
    /\ cycle' = Resting
    /\ UNCHANGED <<failures, versions, reports, log, branches, broken, cycles, faults>>

\* The worktree, the commit and the five common gates; a change to the agents' own
\* code is not even gated.
Propose(guarded, common) ==
    /\ cycle.at = "promoting"
    /\ branches' = branches \cup {cycles}
    /\ cycle' = [at |-> IF guarded THEN "vetted" ELSE "gated", sym |-> cycle.sym, hyp |-> cycle.hyp,
                 gates |-> [guarded |-> guarded, common |-> common,
                            risk |-> "missing", supervisor |-> "missing"]]
    /\ UNCHANGED <<failures, sets, versions, reports, log, broken, cycles, faults>>

RiskGate(sized, penalty, alike) ==
    /\ cycle.at = "gated" /\ alike <= Len(Active(cycle.hyp))
    /\ reports' = reports \cup {<<"risk", cycles>>}
    /\ cycle' = [cycle EXCEPT !.at = "assessed", !.gates.risk =
                    Assessed(cycle.hyp, Score(cycle.hyp, cycle.sym, sized, penalty, alike))]
    /\ UNCHANGED <<failures, sets, versions, log, branches, broken, cycles, faults>>

Supervise(uneasy) ==
    /\ cycle.at = "assessed"
    /\ reports' = reports \cup {<<"supervision", cycles>>}
    /\ cycle' = [cycle EXCEPT !.at = "vetted", !.gates.supervisor =
                    Supervised(cycle.hyp, cycle.sym, cycle.gates, uneasy)]
    /\ UNCHANGED <<failures, sets, versions, log, branches, broken, cycles, faults>>

Record ==
    /\ cycle.at = "vetted"
    /\ log' = Append(log, [hyp |-> cycle.hyp, sym |-> cycle.sym, branch |-> cycles, gates |-> cycle.gates,
                           outcome |-> IF Refused(cycle.gates) THEN "rejected" ELSE "pending_approval"])
    /\ cycle' = [cycle EXCEPT !.at = "recorded"]
    /\ UNCHANGED <<failures, sets, versions, reports, branches, broken, cycles, faults>>

\* The verdict goes to memory: a refusal as a failed experiment, a pass as the best
\* parameters so far, before any human has seen it.
Remember ==
    /\ cycle.at = "recorded" /\ ~cycle.gates.guarded
    /\ IF Last(log).outcome = "rejected"
       THEN /\ failures' = <<[hyp |-> cycle.hyp, sym |-> cycle.sym, kind |-> "promotion",
                              row |-> Len(log)]>> \o failures
            /\ cycle' = [cycle EXCEPT !.at = "remembered"]
            /\ UNCHANGED sets
       ELSE /\ sets' = Append(sets, [hyp |-> cycle.hyp, sym |-> cycle.sym, best |-> TRUE,
                                     row |-> Len(log)])
            /\ cycle' = [cycle EXCEPT !.at = "promoted"]
            /\ UNCHANGED failures
    /\ UNCHANGED <<versions, reports, log, branches, broken, cycles, faults>>

Evolve ==
    /\ cycle.at = "promoted"
    /\ versions' = Append(versions, [hyp |-> cycle.hyp, row |-> Len(log)])
    /\ cycle' = [cycle EXCEPT !.at = "remembered"]
    /\ UNCHANGED <<failures, sets, reports, log, branches, broken, cycles, faults>>

\* Mutant: a refused submission keeps its worktree.
FinishKeeps ==
    /\ \/ cycle.at = "remembered"
       \/ cycle.at = "recorded" /\ cycle.gates.guarded
    /\ cycle' = Resting
    /\ UNCHANGED <<failures, sets, versions, reports, log, branches, broken, cycles, faults>>

Finish ==
    /\ \/ cycle.at = "remembered"
       \/ cycle.at = "recorded" /\ cycle.gates.guarded
    /\ branches' = IF Last(log).outcome = "rejected" THEN branches \ {cycles} ELSE branches
    /\ cycle' = Resting
    /\ UNCHANGED <<failures, sets, versions, reports, log, broken, cycles, faults>>

\* An exception takes the worktree with it and fails the cycle; a death leaves it.
Fault(dies) ==
    /\ cycle # Resting /\ faults < MaxFaults
    /\ faults' = faults + 1
    /\ branches' = IF dies THEN branches ELSE branches \ {cycles}
    /\ broken' = broken \cup {cycles}
    /\ cycle' = Resting
    /\ UNCHANGED <<failures, sets, versions, reports, log, cycles>>

Next ==
    \/ \E s \in Symbols : Start(s)
    \/ \E h \in Catalog, b \in BOOLEAN : Test(h, b) \/ Compare(h, b)
    \/ NothingValid \/ Archive
    \/ \E a, b \in BOOLEAN : Propose(a, b)
    \/ \E sized \in BOOLEAN, penalty \in Penalties, alike \in 0..MaxCycles :
           RiskGate(sized, penalty, alike)
    \/ \E uneasy \in BOOLEAN : Supervise(uneasy)
    \/ Record \/ Remember \/ Evolve \/ Finish
    \/ \E dies \in BOOLEAN : Fault(dies)

-----------------------------------------------------------------------------
TypeOK ==
    /\ \A f \in ToSet(failures) : f.hyp \in Catalog /\ f.sym \in Symbols /\ f.row \in 0..Len(log)
    /\ \A r \in ToSet(sets) : r.hyp \in Catalog /\ r.sym \in Symbols /\ r.row \in 0..Len(log)
    /\ \A r \in ToSet(log) : r.outcome \in {"pending_approval", "rejected"}
                             /\ {r.gates.risk, r.gates.supervisor} \subseteq Verdicts \cup {"missing"}
    /\ \A v \in ToSet(versions) : v.hyp \in Catalog /\ v.row \in 0..Len(log)
    /\ reports \subseteq {"backtest", "risk", "supervision"} \X (1..MaxCycles)
    /\ branches \subseteq 1..MaxCycles /\ broken \subseteq 1..MaxCycles
    /\ cycle.at \in {"idle", "testing", "archiving", "promoting", "gated", "assessed", "vetted",
                    "recorded", "promoted", "remembered"}
    /\ cycles \in 0..MaxCycles /\ faults \in 0..MaxFaults

\* A strategy counts as promoted, and so weighs on every later candidate's limits and
\* conflicts, only by a row of its own in the audit log that both extra gates let pass.
PromotedWasVetted ==
    \A i \in DOMAIN sets : sets[i].best =>
        /\ sets[i].row # 0
        /\ log[sets[i].row].outcome = "pending_approval"
        /\ ~log[sets[i].row].gates.guarded
        /\ {log[sets[i].row].gates.risk, log[sets[i].row].gates.supervisor} \subseteq Verdicts \ {"REJECTED"}
        /\ \A j \in DOMAIN sets : sets[j].row = sets[i].row => i = j

\* What waits for a human has its branch, and what was refused left none, unless the
\* submission was cut short.
BranchMatchesRow ==
    cycle = Resting => \A r \in ToSet(log) : r.branch \notin broken =>
        (r.branch \in branches <=> r.outcome = "pending_approval")

\* A proposal a human finds in the log comes with the evidence of both extra gates, and a
\* promoted strategy with the version that tells where its code is, unless it was cut short.
EvidenceIsKept ==
    /\ \A r \in ToSet(log) : ~r.gates.guarded =>
           {<<k, r.branch>> : k \in {"backtest", "risk", "supervision"}} \subseteq reports
    /\ cycle = Resting => \A r \in ToSet(sets) : r.best /\ log[r.row].branch \notin broken =>
           \E v \in ToSet(versions) : v.hyp = r.hyp /\ v.row = r.row

\* A hypothesis whose failure a search still returns waits for newer failures to push it out.
RecalledIsNotTested == cycle.at = "testing" => cycle.todo \cap Recalled(cycle.sym) = {}
=============================================================================

----------------------------- MODULE MCPlatform -----------------------------
(***************************************************************************)
(* Parts of the platform that share no state, checked side by side: each   *)
(* behaviour exercises one of them, the others rest in their first state.  *)
(* The parts PlatformProofs proves about have their constants, variables   *)
(* and instances there.  Of the researcher and of shadow mode the proofs   *)
(* are here, after the properties; what is proved of each part alone is    *)
(* said of the parts side by side at the end of this module.               *)
(***************************************************************************)
EXTENDS Integers, Sequences, TLC, PlatformProofs

CONSTANTS Exercised, \* the parts that a run exercises
          MaxTrades,
          \* of the researcher
          Hypotheses, ResearchSymbols, Sides, Remembered, PerSymbol, InAll, Penalties, MaxResearch,
          ResearchFaults,
          \* of shadow mode
          Evaluators, ShadowSignals, ShadowSpot, ShadowLevels, Validity, PassLimit, MaxShadowTime,
          MaxPredictions

VARIABLES part,
          failures, sets, versions, reports, log, research_branches, research_cycle, broken,
          cycles, research_faults,
          now, archive, observed, predictions, outcomes, pass,
          engine_engine, bucket, rows, front, cool, timeouts, engine_faults, unclosed,
          open, closed, day, gate_granted

\* What the researcher's hypotheses bet on.
Bets == [h \in {"h1", "h2"} |-> IF h = "h1" THEN "long" ELSE "short"]

\* Predictions the evaluator grades against candles of the underlying.
Premiums == {[direction |-> "CE", entry |-> 2, target |-> 4], [direction |-> "PE", entry |-> 2, target |-> 4],
             [direction |-> Nothing, entry |-> 20, target |-> 20]}
Spots    == {[low |-> 18, high |-> 20], [low |-> 20, high |-> 23]}

\* What the gates say of a change: one report per gate that can fail alone, the skipped ones,
\* and a clean one.
Clean    == [g \in {"unit_tests", "integration_tests", "backtest_compare", "code_quality",
                    "risk_gate", "supervisor_gate"} |-> "passed"]
Verdicts == {Clean, [Clean EXCEPT !["backtest_compare"] = "failed"],
             [Clean EXCEPT !["backtest_compare"] = "skipped", !["code_quality"] = "skipped"],
             [Clean EXCEPT !["risk_gate"] = "failed"], [Clean EXCEPT !["unit_tests"] = "failed"]}

Interchangeable == Permutations(Humans)

\* Positions under guard: one of calls, one of puts.
Registered == {[direction |-> "CE", entry |-> 10, sl |-> 6], [direction |-> "PE", entry |-> 10, sl |-> 6]}

\* What the exits of one position see: distances from its entry, its stop, its targets, its level.
Touched == {-3, 0, 2, 4, 9}
Bottoms == {-3}
Ladder  == <<3, 6, 9>>
Level   == -1

\* Candles in gain: a stop touched with and without a target, each target reached, a quiet one.
Bar(low, high, close) == [low |-> low, high |-> high, close |-> close]
LowStop == -3
Rungs   == <<2, 4, 6>>
Bars == {Bar(-4, 1, -1), Bar(-4, 7, 3), Bar(-1, 1, 0), Bar(1, 3, 1), Bar(3, 3, 3), Bar(1, 5, 3), Bar(3, 7, 5)}

Researcher == INSTANCE Research WITH
    branches <- research_branches, cycle <- research_cycle, faults <- research_faults,
    Catalog <- Hypotheses, Symbols <- ResearchSymbols, Direction <- Sides, Recall <- Remembered,
    SymbolLimit <- PerSymbol, TotalLimit <- InAll, MaxCycles <- MaxResearch, MaxFaults <- ResearchFaults

Shadow == INSTANCE ShadowMode WITH
    Signals <- ShadowSignals, Spot <- ShadowSpot, Levels <- ShadowLevels,
    Valid <- Validity, Limit <- PassLimit, MaxTime <- MaxShadowTime

Engine == INSTANCE PaperEngines WITH
    engine <- engine_engine, faults <- engine_faults, Quotes <- {90, 150, 200},
    Entry <- 100, Target <- 200, Stop <- 90, MaxTrades <- MaxTrades, Cooldown <- 1,
    Streak <- 1, Contracts <- {1, 2}, MaxFaults <- 1

Gate == INSTANCE EntryGate WITH
    granted <- gate_granted, Symbols <- {"s1", "s2"}, Budget <- 16, Entry <- 10,
    Risks <- {4}, Scales <- {8, 16}, LossLimit <- 16, SymbolLimit <- 45, MaxOpen <- 1,
    LotQty <- 3, MinTrades <- 1, MaxClosed <- 2, MaxDay <- 1, NoTrade <- Nothing

\* Assumed of the constants: bounds and the reach of a search are naturals.
ResearchConstants == MaxResearch \in Nat /\ ResearchFaults \in Nat /\ Remembered \in Nat

Observations == [at : Nat, until : Nat, underlying : {ShadowSpot}, direction : {"CE", "PE", Nothing},
                 entry : Int, low : Int, high : Int]
Classes      == {"correct", "partial", "incorrect", "expired"}

\* Assumed of the constants: times and bounds are naturals, premiums are integers, and no
\* observation is no observation.
ShadowConstants ==
    /\ Validity \in Nat /\ MaxShadowTime \in Nat /\ MaxPredictions \in Nat
    /\ ShadowSignals \subseteq [direction : {"CE", "PE", Nothing}, entry : Int, target : Int]
    /\ Nothing \notin Observations

\* What the proofs about the parts assume of the constants.
ASSUME PartsAssumption ==
    /\ HealthConstants /\ WatchdogConstants /\ SessionConstants /\ StatusConstants
    /\ Backup!ConstantsFit /\ ExitConstants /\ GuardianConstants
    /\ CandleConstants /\ ChainConstants /\ ResearchConstants /\ ShadowConstants /\ MaxJobs \in Nat

healthVars == <<tick, breaker, beat, watch, stopped>>
watchdogVars == <<watchdog_saved, draft, watchdog_cycle, watchdog_told, unsent>>
sessionVars == <<client, sinceLogin, sinceCold, lock, call>>
statusVars == <<status_row, status_job, status_loop, escalated, orphaned, spent>>
jobsVars == <<jobs_job, thread, asked, twin, raced>>
profilesVars == <<profiles_row, cache, reading, request, excused>>
researchVars == <<failures, sets, versions, reports, log, research_branches,
                    research_cycle, broken, cycles, research_faults>>
backupVars == <<live, files, op, made, backup_faults>>
shadowVars == <<now, archive, observed, predictions, outcomes, pass>>
proposalVars == <<origin, main, branches, trees, base, guarded, results, author, row,
                    lesson, human, undone, granted, raised, crashes>>
engineVars == <<engine_engine, bucket, rows, front, cool, timeouts, engine_faults,
                  unclosed>>
gateVars == <<open, closed, day, gate_granted>>
exitVars == <<exit_engine, breakeven, position, exit_candle, exit_trade>>
guardianVars == <<plan, guardian_saved, guardian_loop, guardian_told, lost,
                    guardian_faults>>
candlesVars == <<style, candles_candle, candles_trade, wait, action, candles_trades>>
chainVars == <<chain_engine, snap, chain_cycle, price, chain_trade, until, streak,
                 chain_trades>>

\* What a part that is not the one exercised starts with, where it could choose.
Settled ==
    /\ part # "session" => client = "live"
    /\ part # "proposal" => origin = [p \in Proposals |-> "human"] /\ guarded = [p \in Proposals |-> FALSE]
    /\ part # "engine" => engine_engine = "v3" /\ rows = <<>>
    /\ part # "exit" => exit_engine = "dsr" /\ breakeven = FALSE
    /\ part # "candles" => style = "dsr"
    /\ part # "chain" => chain_engine = "oi" /\ snap = [d \in 1 .. 2 |-> 0]

AllInit == /\ part \in Exercised
           /\ Health!Init
           /\ Watchdog!Init
           /\ Session!Init
           /\ Status!Init
           /\ Jobs!Init
           /\ Profiles!Init
           /\ Researcher!Init
           /\ Backup!Init
           /\ Shadow!Init
           /\ Init
           /\ Engine!Init
           /\ Gate!Init
           /\ Exits!Init
           /\ Guardian!Init
           /\ ByCandle!Init
           /\ ByChain!Init
           /\ Settled

Resting(p, state) == \/ part = p
                     \/ part # p /\ UNCHANGED state

AllNext ==
    /\ UNCHANGED part
    /\ \/ part = "health" /\ Health!Next
       \/ part = "watchdog" /\ Watchdog!Next
       \/ part = "session" /\ Session!Next
       \/ part = "status" /\ Status!Next
       \/ part = "jobs" /\ Jobs!Next
       \/ part = "profiles" /\ Profiles!Next
       \/ part = "research" /\ Researcher!Next
       \/ part = "backup" /\ Backup!Next
       \/ part = "shadow" /\ Shadow!Next
       \/ part = "proposal" /\ Next
       \/ part = "engine" /\ Engine!Next
       \/ part = "gate" /\ Gate!Next
       \/ part = "exit" /\ Exits!Next
       \/ part = "guardian" /\ Guardian!Next
       \/ part = "candles" /\ ByCandle!Next
       \/ part = "chain" /\ ByChain!Next
    /\ Resting("health", healthVars)
    /\ Resting("watchdog", watchdogVars)
    /\ Resting("session", sessionVars)
    /\ Resting("status", statusVars)
    /\ Resting("jobs", jobsVars)
    /\ Resting("profiles", profilesVars)
    /\ Resting("research", researchVars)
    /\ Resting("backup", backupVars)
    /\ Resting("shadow", shadowVars)
    /\ Resting("proposal", proposalVars)
    /\ Resting("engine", engineVars)
    /\ Resting("gate", gateVars)
    /\ Resting("exit", exitVars)
    /\ Resting("guardian", guardianVars)
    /\ Resting("candles", candlesVars)
    /\ Resting("chain", chainVars)

allVars == <<part, healthVars, watchdogVars, sessionVars, statusVars, jobsVars, profilesVars,
             researchVars, backupVars, shadowVars, proposalVars, engineVars, gateVars,
             exitVars, guardianVars, candlesVars, chainVars>>

AllSpec == AllInit /\ [][AllNext]_allVars

\* The fairness of each part, for the part exercised.
HealthFair  == /\ WF_healthVars(part = "health" /\ Health!Tick)
               /\ WF_healthVars(part = "health" /\ Health!Elapse)
SessionFair == /\ \A t \in Callers : /\ WF_sessionVars(part = "session" /\ Session!Step(t))
                                        /\ SF_sessionVars(part = "session" /\ Session!Accepted(t))
                                        /\ SF_sessionVars(part = "session" /\ Session!SessionError(t))
               /\ WF_sessionVars(part = "session" /\ Session!Elapse)
StatusFair  == /\ WF_statusVars(part = "status" /\ Status!Tick)
               /\ SF_statusVars(part = "status" /\ Status!Elapse)
               /\ WF_statusVars(part = "status" /\ Status!Boot)
JobsFair    == \A i \in Jobs!Ids : WF_jobsVars(part = "jobs" /\ Jobs!Work(i))
EngineFair  == /\ WF_engineVars(part = "engine" /\ Engine!PricedCycle)
               /\ WF_engineVars(part = "engine" /\ Engine!Elapse)

Fairness == HealthFair /\ SessionFair /\ StatusFair /\ JobsFair /\ EngineFair

FairSpec == AllSpec /\ Fairness

\* What the platform says of its own health is what happened to it: breaker, heartbeat and
\* watchdog agree with the ticks, an alarm goes out once and in time, an agent shown as
\* running runs, and no thread works with half a login.
AlarmsTellTheTruth ==
    /\ part = "health" => /\ Health!TypeOK
                          /\ Health!BreakerTellsTheTruth
                          /\ Health!StaleMeansFailing
    /\ part = "watchdog" => /\ Watchdog!TypeOK
                            /\ Watchdog!OneAlertPerStreak
                            /\ Watchdog!NoSilentStreak
    /\ part = "session" => Session!TypeOK /\ Session!NoHalfMadeClient
    /\ part = "status" => /\ Status!TypeOK
                          /\ Status!RunningIsHonest
                          /\ Status!EscalatedInTime
                          /\ Status!ScoreFollowsFailures

\* A result that is shown or used is that of the latest request, the live profile, the
\* experiment that was run and the prediction that is over, whatever older thread, request
\* or evaluator writes late.
ResultsAreCurrent ==
    /\ [](part = "jobs" => Jobs!TypeOK /\ Jobs!LiveJobIsShown)
    /\ [](part = "profiles" => /\ Profiles!TypeOK
                               /\ Profiles!OneLiveProfile
                               /\ Profiles!NextCycleFollows)
    /\ [](part = "research" => /\ Researcher!TypeOK
                               /\ Researcher!PromotedWasVetted
                               /\ Researcher!BranchMatchesRow
                               /\ Researcher!EvidenceIsKept
                               /\ Researcher!RecalledIsNotTested)
    /\ [](part = "shadow" => Shadow!TypeOK /\ Shadow!ExpiredHadItsTime)
    /\ Shadow!VerdictIsFinal

\* A backup restored is one that was verified, and what it replaced is on disk.
RestoresAreSound ==
    part = "backup" => Backup!RestoresAreSound

\* What must happen in the end happens: an open circuit is tried again, a broker session
\* comes back, a crashed agent is healed, a backtest job ends and a paper trade is closed.
ItEnds ==
    /\ Health!CircuitIsTried
    /\ Session!SessionComesBack
    /\ Status!CrashIsHealed
    /\ Jobs!JobEnds
    /\ Engine!TradesEnd

\* The bucket in memory and the rows of the table tell one story: every trade counted once,
\* closed for good, its expiry kept and its stop never back.
RecordsAddUp ==
    /\ [](part = "engine" => Engine!TypeOK /\ Engine!RecordAddsUp /\ Engine!ClosedStaysClosed)
    /\ Engine!StopOnlyRises
    /\ Engine!RowExpiryKept

\* However sizes, limits and streaks round and whatever order trades close in, an entry
\* stays within the budget, the exposure and the day's loss.
EntriesAreBounded ==
    /\ [](part = "gate" => /\ Gate!TypeOK
                           /\ Gate!StopLossWithinBudget
                           /\ Gate!TiWithinLimit
                           /\ Gate!StreakIsDampened)
    /\ Gate!LossStopsEntries

\* Exits and guards keep their word: a protected trade loses nothing, a stop is executed
\* where it stood, a guarded plan stands, and what a trader is told is what is saved.
StopsHold ==
    /\ [](part = "exit" => Exits!TypeOK /\ Exits!ProtectedIsNoLoss /\ Exits!StoppedWhereItStood)
    /\ [](part = "guardian" => /\ Guardian!TypeOK
                               /\ Guardian!ToldWhatIsSaved
                               /\ Guardian!NeverWidens)
    /\ Exits!TargetsOnlyAdvance
    /\ Guardian!PlanIsKept

\* A replay sees nothing of the future, holds one trade at a time, takes the worse of two
\* outcomes and names the result it counts.
ReplaysAreFair ==
    /\ part = "candles" => /\ ByCandle!TypeOK
                           /\ ByCandle!WorstIsAssumed
                           /\ ByCandle!NameMatchesResult
                           /\ ByCandle!DayTradesOnly
                           /\ ByCandle!NoOverlap
    /\ part = "chain" => /\ ByChain!TypeOK
                         /\ ByChain!NoLookahead
                         /\ ByChain!OneAtATime
                         /\ ByChain!OverdueIsUnpriced

-----------------------------------------------------------------------------
(* The quant researcher (Research): what its cycles promote, and what is left *)
(* of one that is cut short.                                                 *)
Given    == Researcher!Verdicts
GateVerdicts    == [guarded : BOOLEAN, common : BOOLEAN, risk : Given \cup {"missing"}, supervisor : Given \cup {"missing"}]
Logged   == {"recorded", "promoted", "remembered"}
Submitted == {"gated", "assessed", "vetted"} \cup Logged
Trying   == [at : {"testing"}, sym : ResearchSymbols, todo : SUBSET Hypotheses, valid : SUBSET Hypotheses]
Chosen   == [at : {"archiving", "promoting"}, sym : ResearchSymbols, hyp : Hypotheses]
Sent     == [at : Submitted, sym : ResearchSymbols, hyp : Hypotheses, gates : GateVerdicts]
Failures == [hyp : Hypotheses, sym : ResearchSymbols, kind : {"cycle", "promotion"}, row : Nat]
Sets     == [hyp : Hypotheses, sym : ResearchSymbols, best : BOOLEAN, row : Nat]
Versions == [hyp : Hypotheses, row : Nat]
Audits   == [hyp : Hypotheses, sym : ResearchSymbols, branch : Nat, gates : GateVerdicts,
             outcome : {"pending_approval", "rejected"}]

ResearchTyped ==
    /\ failures \in Seq(Failures) /\ sets \in Seq(Sets) /\ versions \in Seq(Versions) /\ log \in Seq(Audits)
    /\ \A i \in 1..Len(failures) : failures[i].row <= Len(log)
    /\ \A i \in 1..Len(sets) : sets[i].row <= Len(log)
    /\ \A i \in 1..Len(versions) : versions[i].row <= Len(log)
    /\ reports \subseteq {"backtest", "risk", "supervision"} \X (1..MaxResearch)
    /\ cycles \in 0..MaxResearch /\ research_faults \in 0..ResearchFaults
    /\ research_branches \subseteq 1..cycles /\ broken \subseteq 1..cycles

\* Both extra gates have given their verdict on submission b, and their evidence.
Evidenced(g, b) ==
    /\ g.risk \in Given /\ g.supervisor \in Given
    /\ <<"backtest", b>> \in reports /\ <<"risk", b>> \in reports /\ <<"supervision", b>> \in reports

\* Where the cycle under way is, and what it has left behind by then.
UnderWay ==
    /\ research_cycle \in {Researcher!Resting} \cup Trying \cup Chosen \cup Sent
    /\ research_cycle.at # "idle" => cycles \in 1..MaxResearch /\ cycles \notin broken
    /\ research_cycle.at = "testing" => research_cycle.todo \cap Researcher!Recalled(research_cycle.sym) = {}
    /\ research_cycle.at = "promoting" => <<"backtest", cycles>> \in reports
    /\ research_cycle.at \in Submitted =>
          /\ cycles \in research_branches /\ <<"backtest", cycles>> \in reports
          /\ research_cycle.at \notin {"vetted", "recorded"} => ~research_cycle.gates.guarded
          /\ research_cycle.at = "assessed" => <<"risk", cycles>> \in reports /\ research_cycle.gates.risk \in Given
          /\ research_cycle.at \notin {"gated", "assessed"} /\ ~research_cycle.gates.guarded
                => Evidenced(research_cycle.gates, cycles)

\* The row of the cycle under way is the last, once there is one.
OwnRow ==
    research_cycle.at \in Logged =>
        /\ Len(log) > 0
        /\ log[Len(log)].branch = cycles /\ log[Len(log)].hyp = research_cycle.hyp
        /\ log[Len(log)].gates = research_cycle.gates
        /\ research_cycle.at = "promoted" => log[Len(log)].outcome = "pending_approval"

Own(i) == research_cycle.at \in Logged /\ i = Len(log)

\* A row says what its gates said, and rests on their evidence.
Audited ==
    \A i \in 1..Len(log) :
        /\ log[i].outcome = IF Researcher!Refused(log[i].gates) THEN "rejected" ELSE "pending_approval"
        /\ ~log[i].gates.guarded => Evidenced(log[i].gates, log[i].branch)

\* Rows of earlier cycles, and their branches.
Filed ==
    \A i \in 1..Len(log) : ~Own(i) =>
        /\ log[i].branch <= cycles /\ (research_cycle.at # "idle" => log[i].branch < cycles)
        /\ log[i].branch \notin broken =>
             (log[i].branch \in research_branches <=> log[i].outcome = "pending_approval")

\* A strategy counts as the best by one row that passed, and its version tells of it.
Promoted ==
    /\ \A i \in 1..Len(sets) :
         /\ sets[i].best <=> sets[i].row # 0
         /\ sets[i].best => /\ log[sets[i].row].outcome = "pending_approval"
                            /\ log[sets[i].row].hyp = sets[i].hyp
                            /\ Own(sets[i].row) => research_cycle.at # "recorded"
                            /\ \/ log[sets[i].row].branch \in broken
                               \/ Own(sets[i].row) /\ research_cycle.at = "promoted"
                               \/ \E k \in 1..Len(versions) : /\ versions[k].hyp = sets[i].hyp
                                                              /\ versions[k].row = sets[i].row
    /\ \A i, j \in 1..Len(sets) : sets[i].row = sets[j].row /\ sets[i].row # 0 => i = j

ResearchInv == ResearchTyped /\ UnderWay /\ OwnRow /\ Audited /\ Filed /\ Promoted

LEMMA CycleShape ==
    ASSUME UnderWay
    PROVE  /\ research_cycle.at \in {"idle", "testing", "archiving", "promoting"} \cup Submitted
           /\ research_cycle.at = "idle" => research_cycle = Researcher!Resting
           /\ research_cycle.at = "testing" => research_cycle \in Trying
           /\ research_cycle.at \in {"archiving", "promoting"} => research_cycle \in Chosen
           /\ research_cycle.at \in Submitted => research_cycle \in Sent
<1>1. CASE research_cycle = Researcher!Resting
  BY <1>1 DEF Researcher!Resting, Submitted, Logged
<1>2. CASE research_cycle \in Trying
  <2>1. research_cycle.at = "testing"
    BY <1>2 DEF Trying
  <2> QED BY <1>2, <2>1 DEF Submitted, Logged
<1>3. CASE research_cycle \in Chosen
  <2>1. research_cycle.at \in {"archiving", "promoting"}
    BY <1>3 DEF Chosen
  <2> QED BY <1>3, <2>1 DEF Submitted, Logged
<1>4. CASE research_cycle \in Sent
  <2>1. research_cycle.at \in Submitted
    BY <1>4 DEF Sent
  <2> QED BY <1>4, <2>1 DEF Submitted, Logged
<1> QED BY <1>1, <1>2, <1>3, <1>4 DEF UnderWay

LEMMA RestingIsIdle == Researcher!Resting.at = "idle"
BY DEF Researcher!Resting

LEMMA ResearchBegins ==
    ASSUME ResearchConstants, Researcher!Init
    PROVE  ResearchInv
<1>1. /\ failures = <<>> /\ sets = <<>> /\ versions = <<>> /\ log = <<>>
      /\ Len(failures) = 0 /\ Len(sets) = 0 /\ Len(versions) = 0 /\ Len(log) = 0
      /\ reports = {} /\ research_branches = {} /\ broken = {} /\ cycles = 0 /\ research_faults = 0
      /\ research_cycle = Researcher!Resting
  BY DEF Researcher!Init
<1>2. ResearchTyped
  BY <1>1 DEF ResearchTyped, ResearchConstants
<1>3. UnderWay /\ OwnRow
  BY <1>1, RestingIsIdle DEF UnderWay, OwnRow, Submitted, Logged
<1>4. Audited /\ Filed /\ Promoted
  BY <1>1 DEF Audited, Filed, Promoted
<1> QED BY <1>2, <1>3, <1>4 DEF ResearchInv

-----------------------------------------------------------------------------
\* Steps that leave the rows of the log alone.
LEMMA AuditedStays ==
    ASSUME Audited, UNCHANGED log, reports \subseteq reports'
    PROVE  Audited'
BY DEF Audited, Evidenced

LEMMA FiledStays ==
    ASSUME ResearchConstants, ResearchTyped, Filed, UNCHANGED log, research_cycle.at \in Logged <=> research_cycle'.at \in Logged,
           \/ /\ UNCHANGED cycles
              /\ research_cycle.at = "idle" => research_cycle'.at = "idle"
           \/ cycles' = cycles + 1,
           broken \subseteq broken',
           \A b \in Nat : b < cycles => (b \in research_branches <=> b \in research_branches'),
           UNCHANGED research_branches \/ research_cycle.at # "idle"
    PROVE  Filed'
<1> SUFFICES ASSUME NEW i \in 1..Len(log), ~Own(i)
             PROVE  /\ log[i].branch <= cycles' /\ (research_cycle'.at # "idle" => log[i].branch < cycles')
                    /\ log[i].branch \notin broken' =>
                         (log[i].branch \in research_branches' <=> log[i].outcome = "pending_approval")
  BY DEF Filed, Own
<1>1. /\ log[i].branch <= cycles /\ (research_cycle.at # "idle" => log[i].branch < cycles)
      /\ log[i].branch \notin broken =>
           (log[i].branch \in research_branches <=> log[i].outcome = "pending_approval")
  BY DEF Filed
<1>2. log[i].branch \in Nat /\ cycles \in Nat
  <2>1. log[i] \in Audits
    BY DEF ResearchTyped
  <2>2. cycles \in Nat
    BY DEF ResearchTyped, ResearchConstants
  <2> QED BY <2>1, <2>2 DEF Audits
<1>3. /\ log[i].branch <= cycles' /\ (research_cycle'.at # "idle" => log[i].branch < cycles')
  BY <1>1, <1>2
<1> QED BY <1>1, <1>2, <1>3

LEMMA PromotedStays ==
    ASSUME ResearchTyped, Promoted, UNCHANGED <<sets, log>>, broken \subseteq broken',
           NEW v \in Versions, versions' \in {versions, Append(versions, v)},
           research_cycle.at \notin Logged, research_cycle'.at \notin Logged
    PROVE  Promoted'
<1>1. /\ Len(versions') \in Nat /\ Len(versions) <= Len(versions') /\ Len(versions) \in Nat
      /\ \A k \in 1..Len(versions) : versions'[k] = versions[k]
  <2>1. versions \in Seq(Versions)
    BY DEF ResearchTyped
  <2>2. CASE versions' = Append(versions, v)
    BY <2>1, <2>2
  <2> QED BY <2>1, <2>2
<1>2. \A k \in 1..Len(versions) : k \in 1..Len(versions') /\ versions'[k] = versions[k]
  BY <1>1
<1>3. \A i \in Nat : ~Own(i) /\ ~Own(i)'
  BY DEF Own
<1> QED BY <1>2, <1>3 DEF Promoted, Own

\* What a search returns does not change with what it does not look at; a newer failure adds
\* itself, and may push out the oldest.
LEMMA RecalledStays ==
    ASSUME UNCHANGED failures, NEW s
    PROVE  Researcher!Recalled(s)' = Researcher!Recalled(s)
BY DEF Researcher!Recalled, Researcher!FailedOn

LEMMA RecalledMoves ==
    ASSUME ResearchConstants, failures \in Seq(Failures), NEW f \in Failures, failures' = <<f>> \o failures,
           NEW s, NEW h \in Researcher!Recalled(s)'
    PROVE  h = f.hyp \/ h \in Researcher!Recalled(s)
<1>1. /\ Len(failures) \in Nat /\ Len(failures') = Len(failures) + 1 /\ failures'[1] = f
      /\ \A i \in 1..Len(failures) : failures'[i + 1] = failures[i]
      /\ DOMAIN failures' = 1..(Len(failures) + 1) /\ DOMAIN failures = 1..Len(failures)
  OBVIOUS
<1>2. PICK k \in 1..(Len(failures) + 1) :
        /\ h = failures'[k].hyp /\ Researcher!FailedOn(k, s)'
        /\ Researcher!Cardinality({j \in 1..(k - 1) : Researcher!FailedOn(j, s)'}) < Remembered
  BY <1>1 DEF Researcher!Recalled
<1>3. CASE k = 1
  BY <1>1, <1>2, <1>3
<1>4. CASE k > 1
  <2> DEFINE i == k - 1
             F == {j \in 1..(i - 1) : Researcher!FailedOn(j, s)}
             G == {j \in 1..(k - 1) : Researcher!FailedOn(j, s)'}
             m == [j \in F |-> j + 1]
  <2>1. /\ i \in 1..Len(failures) /\ failures'[k] = failures[i] /\ k - 1 \in Nat /\ i - 1 \in Nat
        /\ \A j \in 1..(i - 1) : j + 1 \in 1..(k - 1) /\ failures'[j + 1] = failures[j]
    BY <1>1, <1>4
  <2>2. \A j \in F : j + 1 \in G
    BY <2>1 DEF Researcher!FailedOn
  <2>3. m \in Injection(F, G)
    BY <2>2 DEF Injection, IsInjective
  <2>4. IsFiniteSet(G) /\ IsFiniteSet(F)
    <3>1. IsFiniteSet(1..(k - 1)) /\ IsFiniteSet(1..(i - 1))
      BY <2>1, FS_Interval
    <3>2. G \in SUBSET (1..(k - 1)) /\ F \in SUBSET (1..(i - 1))
      OBVIOUS
    <3> QED BY <3>1, <3>2, FS_Subset
  <2>5. Cardinality(F) <= Cardinality(G)
    BY <2>3, <2>4, FS_Injection
  <2>6. \A S : Researcher!Cardinality(S) = Cardinality(S)
    BY DEF Researcher!Cardinality, Cardinality
  <2>8. Cardinality(G) < Remembered
    BY <1>2, <2>6
  <2>9. Cardinality(F) \in Nat /\ Cardinality(G) \in Nat
    BY <2>4, FS_CardinalityType
  <2>10. Researcher!Cardinality(F) < Remembered
    BY <2>5, <2>6, <2>8, <2>9 DEF ResearchConstants
  <2>7. Researcher!FailedOn(i, s) /\ h = failures[i].hyp
    BY <1>2, <2>1 DEF Researcher!FailedOn
  <2> QED BY <1>1, <2>1, <2>10, <2>7 DEF Researcher!Recalled
<1> QED BY <1>2, <1>3, <1>4

LEMMA AddedVersion ==
    ASSUME ResearchTyped, NEW v \in Versions, v.row <= Len(log), versions' = Append(versions, v)
    PROVE  /\ versions' \in Seq(Versions)
           /\ \A i \in 1..Len(versions') : versions'[i].row <= Len(log)
<1>1. versions \in Seq(Versions) /\ \A i \in 1..Len(versions) : versions[i].row <= Len(log)
  BY DEF ResearchTyped
<1>2. /\ versions' \in Seq(Versions) /\ Len(versions) \in Nat /\ Len(versions') = Len(versions) + 1
      /\ versions'[Len(versions) + 1] = v
      /\ \A i \in 1..Len(versions) : versions'[i] = versions[i]
  BY <1>1
<1>3. \A i \in 1..Len(versions') : i \in 1..Len(versions) \/ i = Len(versions) + 1
  BY <1>2
<1> QED BY <1>1, <1>2, <1>3

LEMMA AddedFailure ==
    ASSUME ResearchTyped, NEW f \in Failures, f.row <= Len(log), failures' = <<f>> \o failures
    PROVE  /\ failures' \in Seq(Failures)
           /\ \A i \in 1..Len(failures') : failures'[i].row <= Len(log)
<1>1. failures \in Seq(Failures) /\ \A i \in 1..Len(failures) : failures[i].row <= Len(log)
  BY DEF ResearchTyped
<1>2. /\ failures' \in Seq(Failures) /\ Len(failures) \in Nat /\ Len(failures') = Len(failures) + 1
      /\ failures'[1] = f
      /\ \A i \in 1..Len(failures) : failures'[i + 1] = failures[i]
  BY <1>1
<1>3. \A i \in 1..Len(failures') : i = 1 \/ (i - 1 \in 1..Len(failures) /\ i = (i - 1) + 1)
  BY <1>2
<1> QED BY <1>1, <1>2, <1>3

LEMMA AddedSet ==
    ASSUME ResearchTyped, NEW r \in Sets, r.row <= Len(log), sets' = Append(sets, r)
    PROVE  /\ sets' \in Seq(Sets) /\ Len(sets) \in Nat /\ Len(sets') = Len(sets) + 1
           /\ sets'[Len(sets) + 1] = r
           /\ \A i \in 1..Len(sets) : sets'[i] = sets[i]
           /\ \A i \in 1..Len(sets') : i \in 1..Len(sets) \/ i = Len(sets) + 1
           /\ \A i \in 1..Len(sets') : sets'[i].row <= Len(log)
<1>1. sets \in Seq(Sets) /\ \A i \in 1..Len(sets) : sets[i].row <= Len(log)
  BY DEF ResearchTyped
<1>2. /\ sets' \in Seq(Sets) /\ Len(sets) \in Nat /\ Len(sets') = Len(sets) + 1
      /\ sets'[Len(sets) + 1] = r
      /\ \A i \in 1..Len(sets) : sets'[i] = sets[i]
  BY <1>1
<1>3. \A i \in 1..Len(sets') : i \in 1..Len(sets) \/ i = Len(sets) + 1
  BY <1>2
<1> QED BY <1>1, <1>2, <1>3

-----------------------------------------------------------------------------
\* Every step of a cycle.
LEMMA StartIsSound ==
    ASSUME ResearchConstants, ResearchInv, NEW s \in ResearchSymbols, Researcher!Start(s)
    PROVE  ResearchInv'
<1>1. /\ research_cycle = Researcher!Resting /\ cycles < MaxResearch /\ cycles' = cycles + 1
      /\ research_cycle' = [at |-> "testing", sym |-> s, todo |-> Hypotheses \ Researcher!Recalled(s), valid |-> {}]
      /\ UNCHANGED <<failures, sets, versions, reports, log, research_branches, broken, research_faults>>
  BY DEF Researcher!Start
<1>2. /\ research_cycle.at = "idle" /\ research_cycle'.at = "testing" /\ research_cycle' \in Trying
      /\ research_cycle'.todo = Hypotheses \ Researcher!Recalled(s) /\ research_cycle'.sym = s
  BY <1>1, RestingIsIdle DEF Trying
<1>3. ResearchTyped /\ Audited /\ Filed /\ Promoted
  BY DEF ResearchInv
<1>4. ResearchTyped'
  <2>1. cycles' \in 0..MaxResearch /\ 1..cycles \subseteq 1..cycles'
    BY <1>1, <1>3 DEF ResearchTyped, ResearchConstants
  <2> QED BY <1>1, <1>3, <2>1 DEF ResearchTyped
<1>5. UnderWay'
  <2>1. cycles' \in 1..MaxResearch /\ cycles' \notin broken
    BY <1>1, <1>3 DEF ResearchTyped, ResearchConstants
  <2>2. (research_cycle.todo \cap Researcher!Recalled(research_cycle.sym) = {})'
    BY <1>1, <1>2, RecalledStays
  <2> QED BY <1>1, <1>2, <2>1, <2>2 DEF UnderWay, Submitted, Logged
<1>6. OwnRow'
  BY <1>2 DEF OwnRow, Logged
<1>7. Audited'
  BY <1>1, <1>3, AuditedStays
<1>8. Filed'
  BY <1>1, <1>2, <1>3, FiledStays DEF Logged
<1>9. Promoted'
  <2>1. research_cycle.at \notin Logged /\ research_cycle'.at \notin Logged
    BY <1>2 DEF Logged
  <2> QED BY <1>1, <1>3, <2>1 DEF Promoted, Own
<1> QED BY <1>4, <1>5, <1>6, <1>7, <1>8, <1>9 DEF ResearchInv

LEMMA TestKeeps ==
    ASSUME ResearchConstants, ResearchInv, NEW h \in Hypotheses, NEW significant \in BOOLEAN,
           Researcher!Test(h, significant)
    PROVE  ResearchInv'
<1>1. /\ research_cycle.at = "testing" /\ h \in research_cycle.todo
      /\ UNCHANGED <<sets, reports, log, research_branches, broken, cycles, research_faults>>
  BY DEF Researcher!Test
<1>2. research_cycle \in Trying /\ ResearchTyped /\ UnderWay /\ Audited /\ Filed /\ Promoted
  BY <1>1, CycleShape DEF ResearchInv
<1>3. /\ research_cycle' \in Trying /\ research_cycle'.at = "testing" /\ research_cycle'.sym = research_cycle.sym
      /\ research_cycle'.todo = research_cycle.todo \ {h}
  <2>1. /\ research_cycle.sym \in ResearchSymbols
        /\ research_cycle.todo \ {h} \in SUBSET Hypotheses
        /\ research_cycle.valid \cup {h} \in SUBSET Hypotheses
        /\ research_cycle.valid \in SUBSET Hypotheses
    BY <1>2 DEF Trying
  <2>2. \/ research_cycle' = [research_cycle EXCEPT !.todo = @ \ {h}, !.valid = @ \cup {h}]
        \/ research_cycle' = [research_cycle EXCEPT !.todo = @ \ {h}]
    BY DEF Researcher!Test
  <2>3. research_cycle' = [at |-> "testing", sym |-> research_cycle.sym, todo |-> research_cycle.todo \ {h},
                           valid |-> research_cycle'.valid]
        /\ research_cycle'.valid \in SUBSET Hypotheses
    BY <1>2, <2>1, <2>2 DEF Trying
  <2> HIDE DEF Trying
  <2>4. research_cycle' \in Trying
    BY <2>1, <2>3 DEF Trying
  <2> QED BY <2>3, <2>4
<1>4. ASSUME significant
      PROVE  /\ ResearchTyped' /\ Promoted'
             /\ (research_cycle.todo \cap Researcher!Recalled(research_cycle.sym) = {})'
  <2>1. versions' = Append(versions, [hyp |-> h, row |-> 0]) /\ UNCHANGED failures
    BY <1>4 DEF Researcher!Test
  <2>2. [hyp |-> h, row |-> 0] \in Versions
    BY DEF Versions
  <2>3. /\ versions' \in Seq(Versions)
        /\ \A i \in 1..Len(versions') : versions'[i].row <= Len(log)
    BY <1>2, <2>1, <2>2, AddedVersion
  <2>4. (research_cycle.todo \cap Researcher!Recalled(research_cycle.sym) = {})'
    BY <1>1, <1>2, <1>3, <2>1, RecalledStays DEF UnderWay
  <2>5. Promoted'
    BY <1>1, <1>2, <1>3, <2>1, <2>2, PromotedStays DEF Logged
  <2>6. ResearchTyped'
    <3>1. UNCHANGED failures
      BY <2>1
    <3> QED BY <1>1, <1>2, <2>3, <3>1 DEF ResearchTyped
  <2> QED BY <2>4, <2>5, <2>6
<1>5. ASSUME ~significant
      PROVE  /\ ResearchTyped' /\ Promoted'
             /\ (research_cycle.todo \cap Researcher!Recalled(research_cycle.sym) = {})'
  <2> DEFINE f == [hyp |-> h, sym |-> research_cycle.sym, kind |-> "cycle", row |-> 0]
  <2>1. failures' = <<f>> \o failures /\ UNCHANGED versions
    BY <1>5 DEF Researcher!Test
  <2>2. f \in Failures /\ f.row = 0 /\ f.hyp = h
    BY <1>2 DEF Failures, Trying
  <2> HIDE DEF f
  <2>3. /\ failures' \in Seq(Failures)
        /\ \A i \in 1..Len(failures') : failures'[i].row <= Len(log)
    BY <1>2, <2>1, <2>2, AddedFailure
  <2>4. (research_cycle.todo \cap Researcher!Recalled(research_cycle.sym) = {})'
    <3>1. \A x \in Researcher!Recalled(research_cycle.sym)' : x = h \/ x \in Researcher!Recalled(research_cycle.sym)
      BY <1>2, <1>3, <2>1, <2>2, RecalledMoves DEF ResearchTyped
    <3> QED BY <1>1, <1>2, <1>3, <3>1 DEF UnderWay
  <2>5. Promoted'
    <3>1. research_cycle.at \notin Logged /\ research_cycle'.at \notin Logged
      BY <1>1, <1>3 DEF Logged
    <3> QED BY <1>1, <1>2, <2>1, <3>1 DEF Promoted, Own
  <2>6. ResearchTyped'
    <3>1. UNCHANGED versions
      BY <2>1
    <3> QED BY <1>1, <1>2, <2>3, <3>1 DEF ResearchTyped
  <2> QED BY <2>4, <2>5, <2>6
<1>6. UnderWay'
  BY <1>1, <1>2, <1>3, <1>4, <1>5 DEF UnderWay, Submitted, Logged
<1>7. OwnRow'
  BY <1>3 DEF OwnRow, Logged
<1>8. Audited'
  BY <1>1, <1>2, AuditedStays
<1>9. Filed'
  BY <1>1, <1>2, <1>3, FiledStays DEF Logged
<1> QED BY <1>4, <1>5, <1>6, <1>7, <1>8, <1>9 DEF ResearchInv

\* A cycle that ends before it has a row of its own.
LEMMA EndsKeep ==
    ASSUME ResearchConstants, ResearchInv, research_cycle.at \in {"testing", "archiving"},
           research_cycle' = Researcher!Resting,
           UNCHANGED <<failures, versions, reports, log, research_branches, broken, cycles, research_faults>>
    PROVE  /\ UnderWay' /\ OwnRow' /\ Audited' /\ Filed'
           /\ UNCHANGED sets => ResearchTyped' /\ Promoted'
<1>1. research_cycle'.at = "idle" /\ research_cycle.at \notin Logged /\ research_cycle'.at \notin Logged
  BY RestingIsIdle DEF Logged
<1>2. ResearchTyped /\ Audited /\ Filed /\ Promoted
  BY DEF ResearchInv
<1>3. UnderWay' /\ OwnRow'
  BY <1>1 DEF UnderWay, OwnRow, Submitted, Logged
<1>4. Audited'
  BY <1>2, AuditedStays
<1>5. Filed'
  BY <1>1, <1>2, FiledStays
<1>6. UNCHANGED sets => Promoted'
  BY <1>1, <1>2 DEF Promoted, Own
<1>7. UNCHANGED sets => ResearchTyped'
  BY <1>2 DEF ResearchTyped
<1> QED BY <1>3, <1>4, <1>5, <1>6, <1>7

LEMMA ArchiveKeeps ==
    ASSUME ResearchConstants, ResearchInv, Researcher!Archive
    PROVE  ResearchInv'
<1> DEFINE r == [hyp |-> research_cycle.hyp, sym |-> research_cycle.sym, best |-> FALSE, row |-> 0]
<1>1. /\ research_cycle.at = "archiving" /\ sets' = Append(sets, r) /\ research_cycle' = Researcher!Resting
      /\ UNCHANGED <<failures, versions, reports, log, research_branches, broken, cycles, research_faults>>
  BY DEF Researcher!Archive
<1>2. research_cycle \in Chosen /\ ResearchTyped /\ Promoted
  BY <1>1, CycleShape DEF ResearchInv
<1>3. r \in Sets /\ ~r.best /\ r.row = 0
  BY <1>2 DEF Sets, Chosen
<1> HIDE DEF r
<1>4. UnderWay' /\ OwnRow' /\ Audited' /\ Filed'
  BY <1>1, EndsKeep
<1>5. r.row <= Len(log)
  BY <1>2, <1>3 DEF ResearchTyped
<1>6. /\ sets' \in Seq(Sets) /\ Len(sets) \in Nat /\ Len(sets') = Len(sets) + 1
      /\ sets'[Len(sets) + 1] = r
      /\ \A i \in 1..Len(sets) : sets'[i] = sets[i]
      /\ \A i \in 1..Len(sets') : i \in 1..Len(sets) \/ i = Len(sets) + 1
      /\ \A i \in 1..Len(sets') : sets'[i].row <= Len(log)
  BY <1>1, <1>2, <1>3, <1>5, AddedSet
<1>7. ResearchTyped'
  BY <1>1, <1>2, <1>6 DEF ResearchTyped
<1>8. research_cycle.at \notin Logged /\ research_cycle'.at \notin Logged
  BY <1>1, RestingIsIdle DEF Logged
<1>9. Promoted'
  BY <1>1, <1>2, <1>3, <1>6, <1>8 DEF Promoted, Own
<1> QED BY <1>4, <1>7, <1>9 DEF ResearchInv

LEMMA CompareKeeps ==
    ASSUME ResearchConstants, ResearchInv, NEW h \in Hypotheses, NEW beats \in BOOLEAN, Researcher!Compare(h, beats)
    PROVE  ResearchInv'
<1>1. /\ research_cycle.at = "testing" /\ reports' = reports \cup {<<"backtest", cycles>>}
      /\ research_cycle' = [at |-> IF beats THEN "promoting" ELSE "archiving", sym |-> research_cycle.sym, hyp |-> h]
      /\ UNCHANGED <<failures, sets, versions, log, research_branches, broken, cycles, research_faults>>
  BY DEF Researcher!Compare
<1>2. /\ research_cycle \in Trying /\ ResearchTyped /\ UnderWay /\ Audited /\ Filed /\ Promoted
      /\ cycles \in 1..MaxResearch /\ cycles \notin broken
  BY <1>1, CycleShape DEF ResearchInv, UnderWay
<1>3. research_cycle' \in Chosen /\ research_cycle'.at \in {"promoting", "archiving"}
  BY <1>1, <1>2 DEF Trying, Chosen
<1>4. research_cycle.at \notin Logged /\ research_cycle'.at \notin Logged
  BY <1>1, <1>3 DEF Logged
<1>5. ResearchTyped'
  BY <1>1, <1>2 DEF ResearchTyped
<1>6. UnderWay'
  BY <1>1, <1>2, <1>3 DEF UnderWay, Submitted, Logged
<1>7. OwnRow'
  BY <1>4 DEF OwnRow
<1>8. Audited'
  BY <1>1, <1>2, AuditedStays
<1>9. Filed'
  BY <1>1, <1>2, <1>4, FiledStays
<1>10. Promoted'
  BY <1>1, <1>2, <1>4 DEF Promoted, Own
<1> QED BY <1>5, <1>6, <1>7, <1>8, <1>9, <1>10 DEF ResearchInv

LEMMA ProposeKeeps ==
    ASSUME ResearchConstants, ResearchInv, NEW drawn \in BOOLEAN, NEW common \in BOOLEAN,
           Researcher!Propose(drawn, common)
    PROVE  ResearchInv'
<1> DEFINE g == [guarded |-> drawn, common |-> common, risk |-> "missing", supervisor |-> "missing"]
           a == IF drawn THEN "vetted" ELSE "gated"
<1>1. /\ research_cycle.at = "promoting" /\ research_branches' = research_branches \cup {cycles}
      /\ research_cycle' = [at |-> a, sym |-> research_cycle.sym, hyp |-> research_cycle.hyp, gates |-> g]
      /\ UNCHANGED <<failures, sets, versions, reports, log, broken, cycles, research_faults>>
  BY DEF Researcher!Propose
<1>2. /\ research_cycle \in Chosen /\ ResearchTyped /\ UnderWay /\ Audited /\ Filed /\ Promoted
      /\ cycles \in 1..MaxResearch /\ cycles \notin broken /\ <<"backtest", cycles>> \in reports
  BY <1>1, CycleShape DEF ResearchInv, UnderWay
<1>3. g \in GateVerdicts /\ g.guarded = drawn /\ a \in {"gated", "vetted"} /\ (a = "gated" => ~drawn)
      /\ (a = "vetted" => drawn)
  BY DEF GateVerdicts
<1> HIDE DEF g, a
<1>4. research_cycle' \in Sent /\ research_cycle'.at = a /\ research_cycle'.gates = g
  BY <1>1, <1>2, <1>3 DEF Chosen, Sent, Submitted
<1>5. research_cycle.at \notin Logged /\ research_cycle'.at \notin Logged
  BY <1>1, <1>3, <1>4 DEF Logged
<1>6. ResearchTyped'
  <2>1. research_branches' \subseteq 1..cycles
    BY <1>1, <1>2 DEF ResearchTyped
  <2> QED BY <1>1, <1>2, <2>1 DEF ResearchTyped
<1>7. UnderWay'
  <2>1. research_cycle'.at \notin {"testing", "promoting", "assessed", "recorded"}
    BY <1>3, <1>4
  <2>2. ~(research_cycle'.at \notin {"gated", "assessed"} /\ ~research_cycle'.gates.guarded)
    BY <1>3, <1>4
  <2>3. research_cycle'.at \notin {"vetted", "recorded"} => ~research_cycle'.gates.guarded
    BY <1>3, <1>4
  <2>4. cycles' \in research_branches' /\ UNCHANGED <<reports, cycles, broken>>
    BY <1>1
  <2> QED BY <1>2, <1>4, <2>1, <2>2, <2>3, <2>4 DEF UnderWay
<1>8. OwnRow'
  BY <1>5 DEF OwnRow
<1>9. Audited'
  BY <1>1, <1>2, AuditedStays
<1>10. Filed'
  <2>1. \A b \in Nat : b < cycles => (b \in research_branches <=> b \in research_branches')
    BY <1>1, <1>2
  <2> QED BY <1>1, <1>2, <1>5, <2>1, FiledStays
<1>11. Promoted'
  BY <1>1, <1>2, <1>5 DEF Promoted, Own
<1> QED BY <1>6, <1>7, <1>8, <1>9, <1>10, <1>11 DEF ResearchInv

LEMMA MovesOn ==
    ASSUME research_cycle \in Sent, NEW a \in Submitted, research_cycle' = [research_cycle EXCEPT !.at = a]
    PROVE  /\ research_cycle' \in Sent /\ research_cycle'.at = a /\ research_cycle'.sym = research_cycle.sym
           /\ research_cycle'.hyp = research_cycle.hyp /\ research_cycle'.gates = research_cycle.gates
<1>1. /\ research_cycle = [at |-> research_cycle.at, sym |-> research_cycle.sym, hyp |-> research_cycle.hyp,
                           gates |-> research_cycle.gates]
      /\ research_cycle.sym \in ResearchSymbols /\ research_cycle.hyp \in Hypotheses
      /\ research_cycle.gates \in GateVerdicts
  BY DEF Sent
<1>2. research_cycle' = [at |-> a, sym |-> research_cycle.sym, hyp |-> research_cycle.hyp,
                         gates |-> research_cycle.gates]
  BY <1>1
<1> QED BY <1>1, <1>2 DEF Sent

LEMMA VerdictsAreGiven ==
    /\ \A h, s, sized, penalty, alike :
          Researcher!Assessed(h, Researcher!Score(h, s, sized, penalty, alike)) \in Given
    /\ \A h, s, g, uneasy : Researcher!Supervised(h, s, g, uneasy) \in Given
BY DEF Researcher!Assessed, Researcher!Decided, Researcher!Supervised, Given, Researcher!Verdicts

\* A gate looks at a submission.
LEMMA GateKeeps ==
    ASSUME ResearchConstants, ResearchInv, research_cycle.at \in {"gated", "assessed"},
           NEW a \in {"assessed", "vetted"}, NEW g \in GateVerdicts, NEW k \in {"risk", "supervision"},
           ~g.guarded,
           research_cycle' = [at |-> a, sym |-> research_cycle.sym, hyp |-> research_cycle.hyp, gates |-> g],
           reports' = reports \cup {<<k, cycles>>},
           a = "assessed" => k = "risk" /\ g.risk \in Given,
           a = "vetted" => /\ k = "supervision" /\ g.risk \in Given /\ g.supervisor \in Given
                           /\ <<"risk", cycles>> \in reports,
           UNCHANGED <<failures, sets, versions, log, research_branches, broken, cycles, research_faults>>
    PROVE  ResearchInv'
<1>1. /\ research_cycle \in Sent /\ ResearchTyped /\ UnderWay /\ Audited /\ Filed /\ Promoted
      /\ cycles \in 1..MaxResearch /\ cycles \notin broken /\ cycles \in research_branches
      /\ <<"backtest", cycles>> \in reports
  BY CycleShape DEF ResearchInv, UnderWay, Submitted
<1>2. research_cycle' \in Sent /\ research_cycle'.at = a /\ research_cycle'.gates = g
  BY <1>1 DEF Sent, Submitted
<1>3. research_cycle.at \notin Logged /\ research_cycle'.at \notin Logged
  BY <1>2 DEF Logged
<1>4. ResearchTyped'
  BY <1>1 DEF ResearchTyped
<1>5. UnderWay'
  <2>1. research_cycle'.at \notin {"testing", "promoting", "idle"}
    BY <1>2
  <2>2. a = "vetted" => Evidenced(g, cycles)'
    BY <1>1 DEF Evidenced
  <2> QED BY <1>1, <1>2, <2>1, <2>2 DEF UnderWay
<1>6. OwnRow'
  BY <1>3 DEF OwnRow
<1>7. Audited'
  BY <1>1, AuditedStays
<1>8. Filed'
  BY <1>1, <1>3, FiledStays
<1>9. Promoted'
  BY <1>1, <1>3 DEF Promoted, Own
<1> QED BY <1>4, <1>5, <1>6, <1>7, <1>8, <1>9 DEF ResearchInv

LEMMA RiskGateKeeps ==
    ASSUME ResearchConstants, ResearchInv, NEW sized, NEW penalty, NEW alike,
           Researcher!RiskGate(sized, penalty, alike)
    PROVE  ResearchInv'
<1> DEFINE v == Researcher!Assessed(research_cycle.hyp,
                    Researcher!Score(research_cycle.hyp, research_cycle.sym, sized, penalty, alike))
           g == [research_cycle.gates EXCEPT !.risk = v]
<1>1. /\ research_cycle.at = "gated" /\ reports' = reports \cup {<<"risk", cycles>>}
      /\ research_cycle' = [research_cycle EXCEPT !.at = "assessed", !.gates.risk = v]
      /\ UNCHANGED <<failures, sets, versions, log, research_branches, broken, cycles, research_faults>>
  BY DEF Researcher!RiskGate
<1>2. research_cycle \in Sent /\ ~research_cycle.gates.guarded
  BY <1>1, CycleShape DEF ResearchInv, UnderWay, Submitted
<1>3. v \in Given
  BY VerdictsAreGiven
<1> HIDE DEF v
<1>4. research_cycle' = [at |-> "assessed", sym |-> research_cycle.sym, hyp |-> research_cycle.hyp, gates |-> g]
  BY <1>1, <1>2 DEF Sent
<1>5. research_cycle.gates \in GateVerdicts
  BY <1>2 DEF Sent
<1>6. g \in GateVerdicts /\ g.risk \in Given /\ ~g.guarded
  BY <1>2, <1>3, <1>5 DEF GateVerdicts
<1> HIDE DEF g
<1> QED BY <1>1, <1>4, <1>6, GateKeeps

LEMMA SuperviseKeeps ==
    ASSUME ResearchConstants, ResearchInv, NEW uneasy, Researcher!Supervise(uneasy)
    PROVE  ResearchInv'
<1> DEFINE v == Researcher!Supervised(research_cycle.hyp, research_cycle.sym, research_cycle.gates, uneasy)
           g == [research_cycle.gates EXCEPT !.supervisor = v]
<1>1. /\ research_cycle.at = "assessed" /\ reports' = reports \cup {<<"supervision", cycles>>}
      /\ research_cycle' = [research_cycle EXCEPT !.at = "vetted", !.gates.supervisor = v]
      /\ UNCHANGED <<failures, sets, versions, log, research_branches, broken, cycles, research_faults>>
  BY DEF Researcher!Supervise
<1>2. /\ research_cycle \in Sent /\ ~research_cycle.gates.guarded
      /\ <<"risk", cycles>> \in reports /\ research_cycle.gates.risk \in Given
  BY <1>1, CycleShape DEF ResearchInv, UnderWay, Submitted
<1>3. v \in Given
  BY VerdictsAreGiven
<1> HIDE DEF v
<1>4. research_cycle' = [at |-> "vetted", sym |-> research_cycle.sym, hyp |-> research_cycle.hyp, gates |-> g]
  BY <1>1, <1>2 DEF Sent
<1>5. research_cycle.gates \in GateVerdicts
  BY <1>2 DEF Sent
<1>6. g \in GateVerdicts /\ g.risk \in Given /\ g.supervisor \in Given /\ ~g.guarded
  BY <1>2, <1>3, <1>5 DEF GateVerdicts
<1> HIDE DEF g
<1> QED BY <1>1, <1>2, <1>4, <1>6, GateKeeps

LEMMA RecordsKeep ==
    ASSUME ResearchConstants, ResearchInv, Researcher!Record
    PROVE  ResearchInv'
<1> DEFINE o == IF Researcher!Refused(research_cycle.gates) THEN "rejected" ELSE "pending_approval"
           r == [hyp |-> research_cycle.hyp, sym |-> research_cycle.sym, branch |-> cycles,
                 gates |-> research_cycle.gates, outcome |-> o]
           n == Len(log) + 1
<1>1. /\ research_cycle.at = "vetted" /\ log' = Append(log, r)
      /\ research_cycle' = [research_cycle EXCEPT !.at = "recorded"]
      /\ UNCHANGED <<failures, sets, versions, reports, research_branches, broken, cycles, research_faults>>
  BY DEF Researcher!Record
<1>2. /\ research_cycle \in Sent /\ ResearchTyped /\ UnderWay /\ Audited /\ Filed /\ Promoted
      /\ cycles \in 1..MaxResearch /\ cycles \notin broken /\ cycles \in research_branches
      /\ <<"backtest", cycles>> \in reports
      /\ ~research_cycle.gates.guarded => Evidenced(research_cycle.gates, cycles)
  BY <1>1, CycleShape DEF ResearchInv, UnderWay, Submitted
<1>3. /\ research_cycle' \in Sent /\ research_cycle'.at = "recorded"
      /\ research_cycle'.hyp = research_cycle.hyp /\ research_cycle'.gates = research_cycle.gates
  BY <1>1, <1>2, MovesOn DEF Submitted, Logged
<1>4. /\ r \in Audits /\ r.branch = cycles /\ r.hyp = research_cycle.hyp /\ r.gates = research_cycle.gates
      /\ r.outcome = IF Researcher!Refused(r.gates) THEN "rejected" ELSE "pending_approval"
  <2>1. /\ research_cycle.hyp \in Hypotheses /\ research_cycle.sym \in ResearchSymbols
        /\ research_cycle.gates \in GateVerdicts /\ o \in {"pending_approval", "rejected"} /\ cycles \in Nat
    BY <1>2 DEF Sent
  <2> QED BY <2>1 DEF Audits
<1> HIDE DEF r
<1>5. /\ log' \in Seq(Audits) /\ Len(log) \in Nat /\ Len(log') = n /\ log'[n] = r
      /\ \A i \in 1..Len(log) : log'[i] = log[i]
  BY <1>1, <1>2, <1>4 DEF ResearchTyped
<1>6. \A i \in 1..Len(log') : i \in 1..Len(log) \/ i = n
  BY <1>5
<1>7. \A i : ~Own(i)
  BY <1>1 DEF Own, Logged
<1>8. ResearchTyped'
  <2>1. Len(log) <= Len(log')
    BY <1>5
  <2>2. /\ \A i \in 1..Len(failures) : failures[i].row \in Nat /\ failures[i].row <= Len(log)
        /\ \A i \in 1..Len(sets) : sets[i].row \in Nat /\ sets[i].row <= Len(log)
        /\ \A i \in 1..Len(versions) : versions[i].row \in Nat /\ versions[i].row <= Len(log)
    <3>1. /\ \A i \in 1..Len(failures) : failures[i] \in Failures /\ failures[i].row <= Len(log)
          /\ \A i \in 1..Len(sets) : sets[i] \in Sets /\ sets[i].row <= Len(log)
          /\ \A i \in 1..Len(versions) : versions[i] \in Versions /\ versions[i].row <= Len(log)
      BY <1>2 DEF ResearchTyped
    <3> QED BY <3>1 DEF Failures, Sets, Versions
  <2>3. /\ \A i \in 1..Len(failures) : failures[i].row <= Len(log')
        /\ \A i \in 1..Len(sets) : sets[i].row <= Len(log')
        /\ \A i \in 1..Len(versions) : versions[i].row <= Len(log')
    BY <1>5, <2>1, <2>2
  <2> QED BY <1>1, <1>2, <1>5, <2>3 DEF ResearchTyped
<1>9. UnderWay'
  <2>1. Evidenced(research_cycle.gates, cycles) => Evidenced(research_cycle.gates, cycles)'
    BY <1>1, <1>3 DEF Evidenced
  <2> QED BY <1>1, <1>2, <1>3, <2>1 DEF UnderWay
<1>10. OwnRow'
  BY <1>1, <1>3, <1>4, <1>5 DEF OwnRow
<1>11. Audited'
  <2>1. \A g, b : Evidenced(g, b) => Evidenced(g, b)'
    BY <1>1 DEF Evidenced
  <2> QED BY <1>2, <1>4, <1>5, <1>6, <2>1 DEF Audited
<1>12. Filed'
  <2>1. Own(Len(log))'
    BY <1>3, <1>5 DEF Own, Logged
  <2> QED BY <1>1, <1>2, <1>5, <1>6, <1>7, <2>1 DEF Filed
<1>13. Promoted'
  <2>1. \A i \in 1..Len(sets) : sets[i].best => sets[i].row \in 1..Len(log)
    <3>1. \A i \in 1..Len(sets) : sets[i] \in Sets /\ sets[i].row <= Len(log) /\ (sets[i].best => sets[i].row # 0)
      BY <1>2 DEF ResearchTyped, Promoted
    <3>2. \A i \in 1..Len(sets) : sets[i].row \in Nat
      BY <3>1 DEF Sets
    <3> QED BY <1>5, <3>1, <3>2
  <2>2. \A i \in 1..Len(log) : ~Own(i)'
    BY <1>5 DEF Own
  <2> QED BY <1>1, <1>2, <1>5, <1>7, <2>1, <2>2 DEF Promoted
<1> QED BY <1>8, <1>9, <1>10, <1>11, <1>12, <1>13 DEF ResearchInv

LEMMA RememberKeeps ==
    ASSUME ResearchConstants, ResearchInv, Researcher!Remember
    PROVE  ResearchInv'
<1> DEFINE n == Len(log)
           f == [hyp |-> research_cycle.hyp, sym |-> research_cycle.sym, kind |-> "promotion", row |-> n]
           r == [hyp |-> research_cycle.hyp, sym |-> research_cycle.sym, best |-> TRUE, row |-> n]
<1>1. /\ research_cycle.at = "recorded" /\ ~research_cycle.gates.guarded
      /\ UNCHANGED <<versions, reports, log, research_branches, broken, cycles, research_faults>>
  BY DEF Researcher!Remember
<1>2. /\ research_cycle \in Sent /\ ResearchTyped /\ UnderWay /\ Audited /\ Filed /\ Promoted /\ OwnRow
      /\ cycles \in 1..MaxResearch /\ cycles \notin broken /\ cycles \in research_branches
      /\ <<"backtest", cycles>> \in reports /\ Evidenced(research_cycle.gates, cycles)
  BY <1>1, CycleShape DEF ResearchInv, UnderWay, Submitted, Logged
<1>3. /\ n \in Nat /\ n > 0 /\ log[n].hyp = research_cycle.hyp /\ log[n].branch = cycles
      /\ log[n].gates = research_cycle.gates
  BY <1>1, <1>2 DEF OwnRow, Logged, ResearchTyped
<1>4. log[n].outcome \in {"rejected", "pending_approval"}
  <2>1. log[n] \in Audits
    BY <1>2, <1>3 DEF ResearchTyped
  <2> QED BY <2>1 DEF Audits
<1>5. f \in Failures /\ f.row = n /\ r \in Sets /\ r.row = n /\ r.best /\ r.hyp = research_cycle.hyp
  BY <1>2, <1>3 DEF Failures, Sets, Sent
<1>6. /\ \/ /\ failures' = <<f>> \o failures /\ UNCHANGED sets
            /\ research_cycle' = [research_cycle EXCEPT !.at = "remembered"]
         \/ /\ log[n].outcome = "pending_approval" /\ sets' = Append(sets, r) /\ UNCHANGED failures
            /\ research_cycle' = [research_cycle EXCEPT !.at = "promoted"]
  BY <1>4 DEF Researcher!Remember, Researcher!Last
<1> HIDE DEF f, r
<1>7. \A i \in 1..Len(sets) : sets[i].row # n
  <2>1. Own(n) /\ n # 0
    BY <1>1, <1>3 DEF Own, Logged
  <2> QED BY <1>1, <1>2, <2>1 DEF Promoted
<1>8. ASSUME NEW a \in {"remembered", "promoted"}, research_cycle' = [research_cycle EXCEPT !.at = a],
             a = "promoted" => log[n].outcome = "pending_approval"
      PROVE  UnderWay' /\ OwnRow' /\ Audited' /\ Filed' /\ research_cycle'.at = a
  <2>1. /\ research_cycle' \in Sent /\ research_cycle'.at = a
        /\ research_cycle'.hyp = research_cycle.hyp /\ research_cycle'.gates = research_cycle.gates
    BY <1>2, <1>8, MovesOn DEF Submitted, Logged
  <2>2. a \in Logged
    BY DEF Logged
  <2>3. UnderWay'
    <3>1. Evidenced(research_cycle.gates, cycles)'
      BY <1>1, <1>2, <2>1 DEF Evidenced
    <3> QED BY <1>1, <1>2, <2>1, <3>1 DEF UnderWay
  <2>4. OwnRow'
    BY <1>1, <1>3, <1>8, <2>1 DEF OwnRow
  <2>5. Audited'
    BY <1>1, <1>2, AuditedStays
  <2>6. Filed'
    BY <1>1, <1>2, <2>1, <2>2, FiledStays DEF Logged
  <2> QED BY <2>1, <2>3, <2>4, <2>5, <2>6
<1>9. CASE /\ failures' = <<f>> \o failures /\ UNCHANGED sets
           /\ research_cycle' = [research_cycle EXCEPT !.at = "remembered"]
  <2>1. UnderWay' /\ OwnRow' /\ Audited' /\ Filed' /\ research_cycle'.at = "remembered"
    BY <1>8, <1>9
  <2>2. /\ failures' \in Seq(Failures)
        /\ \A i \in 1..Len(failures') : failures'[i].row <= Len(log)
    BY <1>2, <1>3, <1>5, <1>9, AddedFailure
  <2>3. ResearchTyped'
    BY <1>1, <1>2, <1>9, <2>2 DEF ResearchTyped
  <2>4. Promoted'
    BY <1>1, <1>2, <1>9, <2>1 DEF Promoted, Own
  <2> QED BY <2>1, <2>3, <2>4 DEF ResearchInv
<1>10. CASE /\ log[n].outcome = "pending_approval" /\ sets' = Append(sets, r) /\ UNCHANGED failures
            /\ research_cycle' = [research_cycle EXCEPT !.at = "promoted"]
  <2>1. UnderWay' /\ OwnRow' /\ Audited' /\ Filed' /\ research_cycle'.at = "promoted"
    BY <1>8, <1>10
  <2>2. /\ sets' \in Seq(Sets) /\ Len(sets) \in Nat /\ Len(sets') = Len(sets) + 1
        /\ sets'[Len(sets) + 1] = r
        /\ \A i \in 1..Len(sets) : sets'[i] = sets[i]
        /\ \A i \in 1..Len(sets') : i \in 1..Len(sets) \/ i = Len(sets) + 1
        /\ \A i \in 1..Len(sets') : sets'[i].row <= Len(log)
    BY <1>2, <1>3, <1>5, <1>10, AddedSet
  <2>3. ResearchTyped'
    BY <1>1, <1>2, <1>10, <2>2 DEF ResearchTyped
  <2>4. /\ \A i \in 1..Len(log) : Own(i)' <=> i = n
        /\ \A i \in 1..Len(log) : Own(i) <=> i = n
    BY <1>1, <2>1 DEF Own, Logged
  <2>5. ASSUME NEW i \in 1..Len(sets')
        PROVE  /\ sets'[i].best <=> sets'[i].row # 0
               /\ sets'[i].best => /\ log[sets'[i].row].outcome = "pending_approval"
                                   /\ log[sets'[i].row].hyp = sets'[i].hyp
                                   /\ \/ log[sets'[i].row].branch \in broken
                                      \/ sets'[i].row = n
                                      \/ \E k \in 1..Len(versions) : /\ versions[k].hyp = sets'[i].hyp
                                                                     /\ versions[k].row = sets'[i].row
    <3>1. CASE i = Len(sets) + 1
      BY <1>3, <1>5, <1>10, <2>2, <3>1
    <3>2. CASE i \in 1..Len(sets)
      <4>1. sets'[i] = sets[i] /\ research_cycle.at # "promoted"
        BY <1>1, <2>2, <3>2
      <4> QED BY <1>2, <3>2, <4>1 DEF Promoted
    <3> QED BY <2>2, <3>1, <3>2
  <2>6. ASSUME NEW i \in 1..Len(sets'), NEW j \in 1..Len(sets'), sets'[i].row = sets'[j].row, sets'[i].row # 0
        PROVE  i = j
    <3>1. CASE i \in 1..Len(sets) /\ j \in 1..Len(sets)
      <4>1. sets[i].row = sets[j].row /\ sets[i].row # 0
        BY <2>2, <2>6, <3>1
      <4> QED BY <1>2, <3>1, <4>1 DEF Promoted
    <3>2. CASE i \in 1..Len(sets) /\ j = Len(sets) + 1
      BY <1>5, <1>7, <2>2, <2>6, <3>2
    <3>3. CASE i = Len(sets) + 1 /\ j \in 1..Len(sets)
      BY <1>5, <1>7, <2>2, <2>6, <3>3
    <3> QED BY <2>2, <3>1, <3>2, <3>3
  <2>7. \A i \in 1..Len(sets') : sets'[i].row = n => Own(sets[i].row)'
    BY <1>1, <2>1 DEF Own, Logged
  <2>8. Promoted'
    BY <1>1, <2>1, <2>5, <2>6, <2>7 DEF Promoted
  <2> QED BY <2>1, <2>3, <2>8 DEF ResearchInv
<1> QED BY <1>6, <1>9, <1>10

LEMMA EvolveKeeps ==
    ASSUME ResearchConstants, ResearchInv, Researcher!Evolve
    PROVE  ResearchInv'
<1> DEFINE n == Len(log)
           v == [hyp |-> research_cycle.hyp, row |-> n]
<1>1. /\ research_cycle.at = "promoted" /\ versions' = Append(versions, v)
      /\ research_cycle' = [research_cycle EXCEPT !.at = "remembered"]
      /\ UNCHANGED <<failures, sets, reports, log, research_branches, broken, cycles, research_faults>>
  BY DEF Researcher!Evolve
<1>2. /\ research_cycle \in Sent /\ ResearchTyped /\ UnderWay /\ Audited /\ Filed /\ Promoted /\ OwnRow
      /\ cycles \in 1..MaxResearch /\ cycles \notin broken /\ cycles \in research_branches
      /\ <<"backtest", cycles>> \in reports /\ ~research_cycle.gates.guarded
      /\ Evidenced(research_cycle.gates, cycles)
  BY <1>1, CycleShape DEF ResearchInv, UnderWay, Submitted, Logged
<1>3. n \in Nat /\ n > 0 /\ log[n].hyp = research_cycle.hyp /\ log[n].branch = cycles
      /\ log[n].gates = research_cycle.gates
  BY <1>1, <1>2 DEF OwnRow, Logged, ResearchTyped
<1>4. v \in Versions /\ v.row = n /\ v.hyp = research_cycle.hyp
  BY <1>2, <1>3 DEF Versions, Sent
<1> HIDE DEF v
<1>5. /\ research_cycle' \in Sent /\ research_cycle'.at = "remembered"
      /\ research_cycle'.hyp = research_cycle.hyp /\ research_cycle'.gates = research_cycle.gates
  BY <1>1, <1>2, MovesOn DEF Submitted, Logged
<1>6. UnderWay'
  <2>1. Evidenced(research_cycle.gates, cycles)'
    BY <1>1, <1>2, <1>5 DEF Evidenced
  <2> QED BY <1>1, <1>2, <1>5, <2>1 DEF UnderWay
<1>7. OwnRow'
  BY <1>1, <1>3, <1>5 DEF OwnRow
<1>8. Audited'
  BY <1>1, <1>2, AuditedStays
<1>9. Filed'
  BY <1>1, <1>2, <1>5, FiledStays DEF Logged
<1>10. /\ versions' \in Seq(Versions)
       /\ \A i \in 1..Len(versions') : versions'[i].row <= Len(log)
  BY <1>1, <1>2, <1>3, <1>4, AddedVersion
<1>11. ResearchTyped'
  BY <1>1, <1>2, <1>10 DEF ResearchTyped
<1>12. /\ Len(versions) \in Nat /\ Len(versions') = Len(versions) + 1 /\ versions'[Len(versions) + 1] = v
       /\ \A k \in 1..Len(versions) : k \in 1..Len(versions') /\ versions'[k] = versions[k]
       /\ Len(versions) + 1 \in 1..Len(versions')
  <2>1. versions \in Seq(Versions)
    BY <1>2 DEF ResearchTyped
  <2> QED BY <1>1, <2>1
<1>13. ASSUME NEW i \in 1..Len(sets), sets[i].best
       PROVE  \/ log[sets[i].row].branch \in broken
              \/ \E k \in 1..Len(versions') : versions'[k].hyp = sets[i].hyp /\ versions'[k].row = sets[i].row
  <2>1. CASE Own(sets[i].row)
    <3>1. sets[i].row = n /\ sets[i].hyp = log[n].hyp
      BY <1>2, <1>13, <2>1 DEF Own, Promoted
    <3> QED BY <1>3, <1>4, <1>12, <3>1
  <2>2. CASE ~Own(sets[i].row)
    <3>1. \/ log[sets[i].row].branch \in broken
          \/ \E k \in 1..Len(versions) : versions[k].hyp = sets[i].hyp /\ versions[k].row = sets[i].row
      BY <1>2, <1>13, <2>2 DEF Promoted
    <3> QED BY <1>12, <3>1
  <2> QED BY <2>1, <2>2
<1>14. Promoted'
  BY <1>1, <1>2, <1>5, <1>13 DEF Promoted
<1> QED BY <1>6, <1>7, <1>8, <1>9, <1>11, <1>14 DEF ResearchInv

\* A cycle that ends, well or badly, with its branch or without it.
LEMMA LeavesKeep ==
    ASSUME ResearchConstants, ResearchInv, research_cycle.at # "idle", research_cycle' = Researcher!Resting,
           research_branches' \in {research_branches, research_branches \ {cycles}},
           research_faults' \in 0..ResearchFaults,
           \/ broken' = broken \cup {cycles}
           \/ /\ UNCHANGED broken
              /\ \/ research_cycle.at = "remembered"
                 \/ research_cycle.at = "recorded"
              /\ cycles \in research_branches' <=> log[Len(log)].outcome = "pending_approval",
           UNCHANGED <<failures, sets, versions, reports, log, cycles>>
    PROVE  ResearchInv'
<1>1. /\ ResearchTyped /\ UnderWay /\ Audited /\ Filed /\ Promoted /\ OwnRow
      /\ cycles \in 1..MaxResearch
  BY DEF ResearchInv, UnderWay
<1>2. research_cycle'.at = "idle" /\ research_cycle'.at \notin Logged
  BY RestingIsIdle DEF Logged
<1>3. ResearchTyped'
  <2>1. cycles \in 1..cycles /\ research_branches \subseteq 1..cycles /\ broken \subseteq 1..cycles
    BY <1>1 DEF ResearchTyped, ResearchConstants
  <2>2. research_branches' \subseteq 1..cycles /\ broken' \subseteq 1..cycles
    BY <2>1
  <2> QED BY <1>1, <2>2 DEF ResearchTyped
<1>4. UnderWay' /\ OwnRow'
  BY <1>2 DEF UnderWay, OwnRow, Submitted, Logged
<1>5. Audited'
  BY <1>1, AuditedStays
<1>6. ASSUME NEW i \in 1..Len(log)
      PROVE  /\ log[i].branch <= cycles
             /\ log[i].branch \notin broken' =>
                  (log[i].branch \in research_branches' <=> log[i].outcome = "pending_approval")
  <2>1. log[i].branch \in Nat
    <3>1. log[i] \in Audits
      BY <1>1 DEF ResearchTyped
    <3> QED BY <3>1 DEF Audits
  <2>2. CASE Own(i)
    <3>1. log[i].branch = cycles /\ i = Len(log)
      BY <1>1, <2>2 DEF Own, OwnRow
    <3> QED BY <1>1, <3>1
  <2>3. CASE ~Own(i)
    <3>1. /\ log[i].branch < cycles
          /\ log[i].branch \notin broken =>
               (log[i].branch \in research_branches <=> log[i].outcome = "pending_approval")
      BY <1>1, <2>3 DEF Filed
    <3>2. log[i].branch # cycles /\ log[i].branch <= cycles
      BY <1>1, <2>1, <3>1
    <3> QED BY <3>1, <3>2
  <2> QED BY <2>2, <2>3
<1>7. Filed'
  BY <1>2, <1>6 DEF Filed
<1>8. ASSUME NEW i \in 1..Len(sets), sets[i].best
      PROVE  \/ log[sets[i].row].branch \in broken'
             \/ \E k \in 1..Len(versions) : versions[k].hyp = sets[i].hyp /\ versions[k].row = sets[i].row
  <2>1. CASE Own(sets[i].row) /\ research_cycle.at = "promoted"
    <3>1. log[sets[i].row].branch = cycles
      BY <1>1, <2>1 DEF Own, OwnRow
    <3> QED BY <2>1, <3>1
  <2>2. CASE ~(Own(sets[i].row) /\ research_cycle.at = "promoted")
    BY <1>1, <1>8, <2>2 DEF Promoted
  <2> QED BY <2>1, <2>2
<1>9. Promoted'
  <2>1. \A i : ~Own(i)'
    BY <1>2 DEF Own
  <2> QED BY <1>1, <1>8, <2>1 DEF Promoted
<1> QED BY <1>3, <1>4, <1>5, <1>7, <1>9 DEF ResearchInv

LEMMA FinishedKeeps ==
    ASSUME ResearchConstants, ResearchInv, Researcher!Finish
    PROVE  ResearchInv'
<1>1. /\ research_cycle.at \in {"remembered", "recorded"} /\ research_cycle' = Researcher!Resting
      /\ research_branches' = IF log[Len(log)].outcome = "rejected" THEN research_branches \ {cycles}
                              ELSE research_branches
      /\ UNCHANGED <<failures, sets, versions, reports, log, broken, cycles, research_faults>>
  BY DEF Researcher!Finish, Researcher!Last
<1>2. cycles \in research_branches /\ Len(log) > 0 /\ ResearchTyped
  BY <1>1 DEF ResearchInv, UnderWay, OwnRow, Submitted, Logged
<1>3. log[Len(log)].outcome \in {"rejected", "pending_approval"}
  <2>1. log[Len(log)] \in Audits
    BY <1>2 DEF ResearchTyped
  <2> QED BY <2>1 DEF Audits
<1>4. cycles \in research_branches' <=> log[Len(log)].outcome = "pending_approval"
  BY <1>1, <1>2, <1>3
<1>5. research_faults' \in 0..ResearchFaults
  BY <1>1, <1>2 DEF ResearchTyped
<1>6. research_branches' \in {research_branches, research_branches \ {cycles}}
  BY <1>1
<1>7. research_cycle.at = "remembered" \/ research_cycle.at = "recorded"
  BY <1>1
<1> QED BY <1>1, <1>4, <1>5, <1>6, <1>7, LeavesKeep

LEMMA FaultKeeps ==
    ASSUME ResearchConstants, ResearchInv, NEW dies \in BOOLEAN, Researcher!Fault(dies)
    PROVE  ResearchInv'
<1>1. /\ research_cycle # Researcher!Resting /\ research_faults < ResearchFaults
      /\ research_faults' = research_faults + 1
      /\ research_branches' = IF dies THEN research_branches ELSE research_branches \ {cycles}
      /\ broken' = broken \cup {cycles} /\ research_cycle' = Researcher!Resting
      /\ UNCHANGED <<failures, sets, versions, reports, log, cycles>>
  BY DEF Researcher!Fault
<1>2. research_cycle.at # "idle"
  BY <1>1, CycleShape DEF ResearchInv
<1>3. research_faults' \in 0..ResearchFaults
  BY <1>1 DEF ResearchInv, ResearchTyped, ResearchConstants
<1>4. research_branches' \in {research_branches, research_branches \ {cycles}}
  BY <1>1
<1> QED BY <1>1, <1>2, <1>3, <1>4, LeavesKeep

LEMMA ResearchRests ==
    ASSUME ResearchInv, UNCHANGED Researcher!research
    PROVE  ResearchInv'
<1>1. UNCHANGED <<failures, sets, versions, reports, log, research_branches, research_cycle, broken, cycles,
                  research_faults>>
  BY DEF Researcher!research
<1>2. ResearchTyped' /\ OwnRow' /\ Audited' /\ Filed' /\ Promoted'
  BY <1>1 DEF ResearchInv, ResearchTyped, OwnRow, Audited, Filed, Promoted, Evidenced, Own
<1>3. UnderWay'
  <2>1. Researcher!Recalled(research_cycle.sym)' = Researcher!Recalled(research_cycle.sym)
    BY <1>1, RecalledStays
  <2> QED BY <1>1, <2>1 DEF ResearchInv, UnderWay, Evidenced
<1> QED BY <1>2, <1>3 DEF ResearchInv

LEMMA NothingKeeps ==
    ASSUME ResearchConstants, ResearchInv, Researcher!NothingValid
    PROVE  ResearchInv'
BY EndsKeep DEF Researcher!NothingValid, ResearchInv

LEMMA ResearchSteps ==
    ASSUME ResearchConstants, ResearchInv, [Researcher!Next]_(Researcher!research)
    PROVE  ResearchInv'
BY StartIsSound, TestKeeps, CompareKeeps, NothingKeeps, ArchiveKeeps, ProposeKeeps, RiskGateKeeps, SuperviseKeeps,
   RecordsKeep, RememberKeeps, EvolveKeeps, FinishedKeeps, FaultKeeps, ResearchRests DEF Researcher!Next

LEMMA ResearchSays ==
    ASSUME ResearchConstants, ResearchInv
    PROVE  /\ Researcher!TypeOK /\ Researcher!PromotedWasVetted /\ Researcher!BranchMatchesRow
           /\ Researcher!EvidenceIsKept /\ Researcher!RecalledIsNotTested
<1>1. /\ ResearchTyped /\ UnderWay /\ Audited /\ Filed /\ Promoted /\ OwnRow
      /\ cycles \in 0..MaxResearch /\ Len(log) \in Nat
  <2>1. ResearchTyped
    BY DEF ResearchInv
  <2>2. cycles \in 0..MaxResearch /\ log \in Seq(Audits)
    BY <2>1 DEF ResearchTyped
  <2> QED BY <2>2 DEF ResearchInv
<1>2. /\ \A i \in 1..Len(log) : log[i] \in Audits
      /\ \A i \in 1..Len(sets) : sets[i] \in Sets /\ sets[i].row <= Len(log)
      /\ \A i \in 1..Len(failures) : failures[i] \in Failures /\ failures[i].row <= Len(log)
      /\ \A i \in 1..Len(versions) : versions[i] \in Versions /\ versions[i].row <= Len(log)
      /\ DOMAIN log = 1..Len(log) /\ DOMAIN sets = 1..Len(sets)
      /\ DOMAIN failures = 1..Len(failures) /\ DOMAIN versions = 1..Len(versions)
  BY <1>1 DEF ResearchTyped
<1>3. /\ \A i \in 1..Len(log) : /\ log[i].outcome \in {"pending_approval", "rejected"}
                                /\ {log[i].gates.risk, log[i].gates.supervisor} \subseteq Given \cup {"missing"}
      /\ \A i \in 1..Len(sets) : sets[i].hyp \in Hypotheses /\ sets[i].sym \in ResearchSymbols /\ sets[i].row \in Nat
      /\ \A i \in 1..Len(failures) : /\ failures[i].hyp \in Hypotheses /\ failures[i].sym \in ResearchSymbols
                                     /\ failures[i].row \in Nat
      /\ \A i \in 1..Len(versions) : versions[i].hyp \in Hypotheses /\ versions[i].row \in Nat
  BY <1>2 DEF Audits, Sets, Failures, Versions, GateVerdicts
<1>4. /\ \A i \in 1..Len(sets) : sets[i].row \in 0..Len(log)
      /\ \A i \in 1..Len(failures) : failures[i].row \in 0..Len(log)
      /\ \A i \in 1..Len(versions) : versions[i].row \in 0..Len(log)
  BY <1>1, <1>2, <1>3
<1>5. Researcher!TypeOK
  <2>1. research_cycle.at \in {"idle", "testing", "archiving", "promoting", "gated", "assessed", "vetted",
                               "recorded", "promoted", "remembered"}
    BY <1>1, CycleShape DEF Submitted, Logged
  <2>2. research_branches \subseteq 1..MaxResearch /\ broken \subseteq 1..MaxResearch
        /\ research_faults \in 0..ResearchFaults
        /\ reports \subseteq {"backtest", "risk", "supervision"} \X (1..MaxResearch)
    BY <1>1 DEF ResearchTyped, ResearchConstants
  <2> QED BY <1>1, <1>2, <1>3, <1>4, <2>1, <2>2 DEF Researcher!TypeOK, Researcher!ToSet, Given
<1>6. ASSUME NEW i \in 1..Len(sets), sets[i].best
      PROVE  /\ sets[i].row \in 1..Len(log) /\ log[sets[i].row].outcome = "pending_approval"
             /\ ~log[sets[i].row].gates.guarded
             /\ {log[sets[i].row].gates.risk, log[sets[i].row].gates.supervisor} \subseteq Given \ {"REJECTED"}
  <2>1. /\ sets[i].row # 0 /\ log[sets[i].row].outcome = "pending_approval"
    BY <1>1, <1>6 DEF Promoted
  <2>2. sets[i].row \in 1..Len(log)
    BY <1>1, <1>4, <2>1
  <2>3. ~Researcher!Refused(log[sets[i].row].gates)
    BY <1>1, <2>1, <2>2 DEF Audited
  <2>4. /\ ~log[sets[i].row].gates.guarded
        /\ log[sets[i].row].gates.risk # "REJECTED" /\ log[sets[i].row].gates.supervisor # "REJECTED"
    BY <2>3 DEF Researcher!Refused
  <2>5. Evidenced(log[sets[i].row].gates, log[sets[i].row].branch)
    BY <1>1, <2>2, <2>4 DEF Audited
  <2> QED BY <2>1, <2>2, <2>4, <2>5 DEF Evidenced
<1>7. Researcher!PromotedWasVetted
  <2>1. ASSUME NEW i \in 1..Len(sets), sets[i].best
        PROVE  sets[i].row # 0 /\ \A j \in 1..Len(sets) : sets[j].row = sets[i].row => i = j
    BY <1>1, <2>1 DEF Promoted
  <2> QED BY <1>2, <1>6, <2>1 DEF Researcher!PromotedWasVetted, Given
<1>8. Researcher!BranchMatchesRow
  <2>1. ASSUME research_cycle = Researcher!Resting, NEW i \in 1..Len(log), log[i].branch \notin broken
        PROVE  log[i].branch \in research_branches <=> log[i].outcome = "pending_approval"
    <3>1. ~Own(i)
      BY <2>1, RestingIsIdle DEF Own, Logged
    <3> QED BY <1>1, <2>1, <3>1 DEF Filed
  <2> QED BY <1>2, <2>1 DEF Researcher!BranchMatchesRow, Researcher!ToSet
<1>9. Researcher!EvidenceIsKept
  <2>1. ASSUME NEW i \in 1..Len(log), ~log[i].gates.guarded
        PROVE  {<<k, log[i].branch>> : k \in {"backtest", "risk", "supervision"}} \subseteq reports
    BY <1>1, <2>1 DEF Audited, Evidenced
  <2>2. ASSUME research_cycle = Researcher!Resting, NEW i \in 1..Len(sets), sets[i].best,
               log[sets[i].row].branch \notin broken
        PROVE  \E k \in 1..Len(versions) : versions[k].hyp = sets[i].hyp /\ versions[k].row = sets[i].row
    <3>1. ~Own(sets[i].row)
      BY <2>2, RestingIsIdle DEF Own, Logged
    <3> QED BY <1>1, <2>2, <3>1 DEF Promoted
  <2>3. \A r \in Researcher!ToSet(log) : ~r.gates.guarded =>
            {<<k, r.branch>> : k \in {"backtest", "risk", "supervision"}} \subseteq reports
    BY <2>1 DEF Researcher!ToSet
  <2>4. ASSUME research_cycle = Researcher!Resting, NEW r \in Researcher!ToSet(sets),
               r.best, log[r.row].branch \notin broken
        PROVE  \E v \in Researcher!ToSet(versions) : v.hyp = r.hyp /\ v.row = r.row
    <3>1. PICK i \in 1..Len(sets) : sets[i] = r
      BY <1>2, <2>4 DEF Researcher!ToSet
    <3>2. PICK k \in 1..Len(versions) : versions[k].hyp = r.hyp /\ versions[k].row = r.row
      BY <2>2, <2>4, <3>1
    <3>3. versions[k] \in Researcher!ToSet(versions)
      BY <1>2, <3>2 DEF Researcher!ToSet
    <3> QED BY <3>2, <3>3
  <2> QED BY <2>3, <2>4 DEF Researcher!EvidenceIsKept
<1>10. Researcher!RecalledIsNotTested
  BY <1>1 DEF UnderWay, Researcher!RecalledIsNotTested
<1> QED BY <1>5, <1>7, <1>8, <1>9, <1>10

\* For any catalog, symbols, limits, cycles and faults: a strategy counts as promoted by a row of its own
\* that both extra gates let pass, what waits for a human has its branch and its evidence, and what a search
\* still remembers as failed is not tested again (quant_researcher/research_engine.py).
THEOREM PromotionsAreEarned ==
    ASSUME ResearchConstants
    PROVE  Researcher!Init /\ [][Researcher!Next]_(Researcher!research) =>
              [](/\ Researcher!TypeOK /\ Researcher!PromotedWasVetted /\ Researcher!BranchMatchesRow
                 /\ Researcher!EvidenceIsKept /\ Researcher!RecalledIsNotTested)
<1>1. Researcher!Init => ResearchInv
  BY ResearchBegins
<1>2. ResearchInv /\ [Researcher!Next]_(Researcher!research) => ResearchInv'
  BY ResearchSteps
<1> QED BY <1>1, <1>2, ResearchSays, PTL

-----------------------------------------------------------------------------
(* Shadow mode (ShadowMode): predictions, and the verdicts several evaluators *)
(* reach on them.                                                            *)
\* A verdict v that writes prediction p off came after its window, without a candle.
InTime(v, p) == v.class = "expired" /\ p.direction # Nothing => v.at >= p.until /\ v.candles = 0

\* The prediction a pass is at was still to be graded when its verdict was reached.
Judging(e) ==
    /\ pass[e].left \subseteq 1..Len(predictions)
    /\ pass[e].verdict # Nothing =>
          /\ pass[e].left # {} /\ pass[e].verdict.class \in Classes
          /\ InTime(pass[e].verdict, predictions[Shadow!At(e)])

Graded(p) ==
    outcomes[p] # Nothing =>
        /\ p \in 1..Len(predictions) /\ outcomes[p].class \in Classes
        /\ InTime(outcomes[p], predictions[p])

Archived(n) == \A t \in 1..MaxShadowTime : archive[t] = Nothing \/ (archive[t] \in ShadowLevels /\ t <= n)

ShadowTyped ==
    /\ now \in 0..MaxShadowTime
    /\ DOMAIN archive = 1..MaxShadowTime
    /\ observed \in Observations \cup {Nothing}
    /\ predictions \in Seq(Observations) /\ Len(predictions) <= MaxPredictions
    /\ observed # Nothing => Len(predictions) < MaxPredictions
    /\ outcomes = [p \in 1..MaxPredictions |-> outcomes[p]]
    /\ pass = [e \in Evaluators |-> pass[e]]

ShadowInv ==
    /\ ShadowTyped /\ Archived(now)
    /\ \A e \in Evaluators : Judging(e)
    /\ \A p \in 1..MaxPredictions : Graded(p)

LEMMA AtIsLeft ==
    ASSUME NEW e, pass[e].left \subseteq Nat, pass[e].left # {}
    PROVE  Shadow!At(e) \in pass[e].left
BY LeastExists DEF Shadow!At, Shadow!Min

LEMMA JudgedIsThere ==
    ASSUME NEW e, Judging(e), pass[e].left # {}, Len(predictions) \in Nat
    PROVE  Shadow!At(e) \in pass[e].left /\ Shadow!At(e) \in 1..Len(predictions)
<1>1. pass[e].left \subseteq 1..Len(predictions)
  BY DEF Judging
<1>2. \A n \in 1..Len(predictions) : n \in Nat
  OBVIOUS
<1>3. Shadow!At(e) \in pass[e].left
  BY <1>1, <1>2, AtIsLeft
<1> QED BY <1>1, <1>3

LEMMA LeastOfTwo ==
    ASSUME NEW a \in Int, NEW b \in Int
    PROVE  Shadow!Min({a, b}) \in Int /\ Shadow!Max({a, b}) \in Int
<1>1. \E x \in {a, b} : \A y \in {a, b} : x <= y
  OBVIOUS
<1>2. \E x \in {a, b} : \A y \in {a, b} : x >= y
  OBVIOUS
<1> QED BY <1>1, <1>2 DEF Shadow!Min, Shadow!Max

LEMMA ShadowBegins ==
    ASSUME ShadowConstants, Shadow!Init
    PROVE  ShadowInv
<1>1. /\ now = 0 /\ archive = [t \in 1..MaxShadowTime |-> Nothing] /\ observed = Nothing
      /\ predictions = <<>> /\ Len(predictions) = 0 /\ outcomes = [p \in 1..MaxPredictions |-> Nothing]
      /\ pass = [e \in Evaluators |-> [left |-> {}, verdict |-> Nothing]]
  BY DEF Shadow!Init, Shadow!Ids, Shadow!Rest
<1>2. ShadowTyped /\ Archived(now)
  BY <1>1 DEF ShadowTyped, Archived, ShadowConstants
<1>3. \A e \in Evaluators : Judging(e)
  BY <1>1 DEF Judging
<1>4. \A p \in 1..MaxPredictions : Graded(p)
  BY <1>1 DEF Graded
<1> QED BY <1>2, <1>3, <1>4 DEF ShadowInv

\* What a verdict says of a prediction holds whatever is predicted after it.
LEMMA EarlierKeeps ==
    ASSUME ShadowConstants, ShadowInv, NEW x \in Observations, Len(predictions) < MaxPredictions,
           predictions' = Append(predictions, x), UNCHANGED <<outcomes, pass>>
    PROVE  /\ predictions' \in Seq(Observations) /\ Len(predictions') = Len(predictions) + 1
           /\ \A e \in Evaluators : Judging(e)'
           /\ \A p \in 1..MaxPredictions : Graded(p)'
<1>1. /\ predictions' \in Seq(Observations) /\ Len(predictions') = Len(predictions) + 1
      /\ \A p \in 1..Len(predictions) : predictions'[p] = predictions[p]
  BY DEF ShadowInv, ShadowTyped
<1>2. Len(predictions) \in Nat
  BY DEF ShadowInv, ShadowTyped
<1>3. ASSUME NEW e \in Evaluators PROVE Judging(e)'
  <2>1. Judging(e) /\ pass'[e] = pass[e]
    BY DEF ShadowInv
  <2>2. pass'[e].left \subseteq 1..Len(predictions')
    BY <1>1, <1>2, <2>1 DEF Judging
  <2>3. ASSUME pass[e].verdict # Nothing
        PROVE  InTime(pass[e].verdict, predictions'[Shadow!At(e)'])
    <3>1. Shadow!At(e)' = Shadow!At(e)
      BY DEF Shadow!At
    <3>2. Shadow!At(e) \in 1..Len(predictions)
      BY <1>2, <2>1, <2>3, AtIsLeft DEF Judging
    <3> QED BY <1>1, <2>1, <2>3, <3>1, <3>2 DEF Judging
  <2> QED BY <2>1, <2>2, <2>3 DEF Judging, InTime
<1>4. ASSUME NEW p \in 1..MaxPredictions PROVE Graded(p)'
  <2>1. Graded(p) /\ outcomes'[p] = outcomes[p]
    BY DEF ShadowInv
  <2> QED BY <1>1, <1>2, <2>1 DEF Graded, InTime
<1> QED BY <1>1, <1>3, <1>4

\* A verdict is in time when it is reached.
LEMMA ClassifiedInTime ==
    ASSUME ShadowConstants, now \in Nat, NEW p \in Observations, Shadow!Classify(p) # Nothing
    PROVE  Shadow!Classify(p).class \in Classes /\ InTime(Shadow!Classify(p), p)
<1> DEFINE v == Shadow!Classify(p)
<1>1. CASE p.direction = Nothing
  BY <1>1 DEF Shadow!Classify, Shadow!Expired, InTime, Classes
<1>2. CASE p.direction # Nothing /\ Shadow!Window(p) = {}
  <2>1. ~(now < p.until) /\ v = [class |-> "expired", at |-> now, candles |-> 0]
    BY <1>2 DEF Shadow!Classify, Shadow!Expired
  <2>2. p.until \in Nat
    BY DEF Observations
  <2>3. now >= p.until
    BY <2>1, <2>2
  <2> QED BY <2>1, <2>3 DEF InTime, Classes
<1>3. CASE p.direction # Nothing /\ Shadow!Window(p) # {}
  <2>1. \E c \in {"incorrect", "correct", "partial"} : v.class = c
    BY <1>3 DEF Shadow!Classify
  <2> QED BY <2>1 DEF InTime, Classes
<1> QED BY <1>1, <1>2, <1>3

LEMMA JudgeKeeps ==
    ASSUME ShadowConstants, ShadowInv, NEW e \in Evaluators, Shadow!Judge(e)
    PROVE  ShadowInv'
<1> DEFINE p == Shadow!At(e)
           v == IF outcomes[p] # Nothing THEN Nothing ELSE Shadow!Classify(predictions[p])
           l == IF v = Nothing THEN Shadow!Later(e) ELSE pass[e].left
<1>1. /\ pass[e].left # {} /\ pass[e].verdict = Nothing /\ UNCHANGED <<now, archive, observed, predictions, outcomes>>
      /\ pass' = [pass EXCEPT ![e] = [left |-> l, verdict |-> v]]
  BY DEF Shadow!Judge
<1>2. pass = [f \in Evaluators |-> pass[f]] /\ Judging(e) /\ Len(predictions) \in Nat /\ now \in Nat
  BY DEF ShadowInv, ShadowTyped, ShadowConstants
<1>3. p \in pass[e].left /\ p \in 1..Len(predictions)
  BY <1>1, <1>2, JudgedIsThere DEF Judging
<1>4. predictions[p] \in Observations
  BY <1>3 DEF ShadowInv, ShadowTyped
<1>5. v # Nothing => v.class \in Classes /\ InTime(v, predictions[p]) /\ l = pass[e].left
  BY <1>2, <1>4, ClassifiedInTime
<1>6. l \subseteq pass[e].left
  BY DEF Shadow!Later
<1> HIDE DEF v, l
<1>7. /\ pass' = [f \in Evaluators |-> pass'[f]]
      /\ pass'[e].left = l /\ pass'[e].verdict = v
      /\ \A f \in Evaluators \ {e} : pass'[f] = pass[f]
  BY <1>1, <1>2
<1>8. Judging(e)'
  <2>1. v # Nothing => Shadow!At(e)' = p
    BY <1>5, <1>7 DEF Shadow!At
  <2> QED BY <1>1, <1>2, <1>5, <1>6, <1>7, <2>1 DEF Judging, InTime
<1>9. ASSUME NEW f \in Evaluators \ {e} PROVE Judging(f)'
  <2>1. Shadow!At(f)' = Shadow!At(f) /\ pass'[f] = pass[f] /\ predictions' = predictions
    BY <1>1, <1>7 DEF Shadow!At
  <2> QED BY <2>1 DEF Judging, InTime, ShadowInv
<1>10. \A q \in 1..MaxPredictions : Graded(q)'
  BY <1>1 DEF ShadowInv, Graded, InTime
<1>11. ShadowTyped' /\ Archived(now)'
  BY <1>1, <1>7 DEF ShadowInv, ShadowTyped, Archived
<1> QED BY <1>8, <1>9, <1>10, <1>11 DEF ShadowInv

LEMMA RecordKeeps ==
    ASSUME ShadowConstants, ShadowInv, NEW e \in Evaluators, Shadow!Record(e)
    PROVE  ShadowInv' /\ \A p \in 1..MaxPredictions : outcomes[p] # Nothing => outcomes'[p] = outcomes[p]
<1> DEFINE p == Shadow!At(e)
           l == IF Shadow!Gradable(p) THEN Shadow!Later(e) ELSE {}
<1>1. /\ pass[e].verdict # Nothing /\ UNCHANGED <<now, archive, observed, predictions>>
      /\ pass' = [pass EXCEPT ![e] = [left |-> l, verdict |-> Nothing]]
      /\ outcomes' = IF Shadow!Gradable(p) THEN [outcomes EXCEPT ![p] = pass[e].verdict] ELSE outcomes
  BY DEF Shadow!Record, Shadow!Rest
<1>2. /\ pass = [f \in Evaluators |-> pass[f]] /\ outcomes = [q \in 1..MaxPredictions |-> outcomes[q]]
      /\ Judging(e) /\ Len(predictions) \in Nat /\ Len(predictions) <= MaxPredictions
  BY DEF ShadowInv, ShadowTyped
<1>3. pass[e].left # {}
  BY <1>1, <1>2 DEF Judging
<1>13. p \in 1..Len(predictions)
  BY <1>2, <1>3, JudgedIsThere
<1>14. p \in 1..MaxPredictions
  BY <1>2, <1>13 DEF ShadowConstants
<1>4. l \subseteq pass[e].left
  BY DEF Shadow!Later
<1> HIDE DEF l
<1>5. /\ pass' = [f \in Evaluators |-> pass'[f]]
      /\ pass'[e].left = l /\ pass'[e].verdict = Nothing
      /\ \A f \in Evaluators \ {e} : pass'[f] = pass[f]
  BY <1>1, <1>2
<1>6. /\ outcomes' = [q \in 1..MaxPredictions |-> outcomes'[q]]
      /\ \A q \in 1..MaxPredictions : \/ outcomes'[q] = outcomes[q]
                                      \/ q = p /\ outcomes[q] = Nothing /\ outcomes'[q] = pass[e].verdict
  BY <1>1, <1>2, <1>14 DEF Shadow!Gradable
<1>7. Judging(e)'
  BY <1>1, <1>2, <1>4, <1>5 DEF Judging
<1>8. ASSUME NEW f \in Evaluators \ {e} PROVE Judging(f)'
  <2>1. Shadow!At(f)' = Shadow!At(f) /\ pass'[f] = pass[f] /\ predictions' = predictions
    BY <1>1, <1>5 DEF Shadow!At
  <2> QED BY <2>1 DEF Judging, InTime, ShadowInv
<1>9. ASSUME NEW q \in 1..MaxPredictions PROVE Graded(q)'
  <2>1. Graded(q) /\ predictions' = predictions
    BY <1>1 DEF ShadowInv
  <2>2. CASE outcomes'[q] = outcomes[q]
    BY <2>1, <2>2 DEF Graded, InTime
  <2>3. CASE q = p /\ outcomes'[q] = pass[e].verdict
    BY <1>1, <1>2, <1>13, <2>1, <2>3 DEF Graded, Judging, InTime
  <2> QED BY <1>6, <2>2, <2>3
<1>10. ShadowTyped' /\ Archived(now)'
  BY <1>1, <1>5, <1>6 DEF ShadowInv, ShadowTyped, Archived
<1> QED BY <1>6, <1>7, <1>8, <1>9, <1>10 DEF ShadowInv

\* Steps that leave predictions, verdicts and passes alone.
LEMMA OthersKeep ==
    ASSUME ShadowInv, UNCHANGED <<predictions, outcomes, pass>>
    PROVE  /\ \A e \in Evaluators : Judging(e)'
           /\ \A p \in 1..MaxPredictions : Graded(p)'
<1>1. ASSUME NEW e \in Evaluators PROVE Judging(e)'
  <2>1. Shadow!At(e)' = Shadow!At(e)
    BY DEF Shadow!At
  <2> QED BY <2>1 DEF ShadowInv, Judging, InTime
<1>2. \A p \in 1..MaxPredictions : Graded(p)'
  BY DEF ShadowInv, Graded, InTime
<1> QED BY <1>1, <1>2

LEMMA ShadowSteps ==
    ASSUME ShadowConstants, ShadowInv, [Shadow!Next]_(Shadow!shadow)
    PROVE  /\ ShadowInv'
           /\ \A p \in 1..MaxPredictions : outcomes[p] # Nothing => outcomes'[p] = outcomes[p]
<1>1. CASE Shadow!Observe
  <2>1. PICK s \in ShadowSignals :
          observed' = [at |-> now, until |-> now + Validity, underlying |-> ShadowSpot,
                       direction |-> s.direction, entry |-> s.entry,
                       low |-> Shadow!Min({s.entry, s.target}), high |-> Shadow!Max({s.entry, s.target})]
    BY <1>1 DEF Shadow!Observe
  <2>2. /\ Len(predictions) < MaxPredictions /\ UNCHANGED <<now, archive, predictions, outcomes, pass>>
    BY <1>1 DEF Shadow!Observe
  <2>3. /\ s.direction \in {"CE", "PE", Nothing} /\ s.entry \in Int /\ s.target \in Int
        /\ now \in Nat /\ now + Validity \in Nat
    BY DEF ShadowConstants, ShadowInv, ShadowTyped
  <2>4. observed' \in Observations
    BY <2>1, <2>3, LeastOfTwo DEF Observations
  <2>5. ShadowTyped' /\ Archived(now)'
    BY <2>2, <2>4 DEF ShadowInv, ShadowTyped, Archived
  <2> QED BY <2>2, <2>5, OthersKeep DEF ShadowInv
<1>2. CASE Shadow!Predict
  <2>1. /\ observed \in Observations /\ Len(predictions) < MaxPredictions
        /\ predictions' = Append(predictions, observed) /\ observed' = Nothing
        /\ UNCHANGED <<now, archive, outcomes, pass>>
    BY <1>2 DEF Shadow!Predict, ShadowInv, ShadowTyped
  <2>2. /\ predictions' \in Seq(Observations) /\ Len(predictions') = Len(predictions) + 1
        /\ \A e \in Evaluators : Judging(e)'
        /\ \A p \in 1..MaxPredictions : Graded(p)'
    BY <2>1, EarlierKeeps
  <2>3. Len(predictions') <= MaxPredictions
    BY <2>1, <2>2 DEF ShadowInv, ShadowTyped, ShadowConstants
  <2>4. ShadowTyped' /\ Archived(now)'
    BY <2>1, <2>2, <2>3 DEF ShadowInv, ShadowTyped, Archived
  <2> QED BY <2>1, <2>2, <2>4 DEF ShadowInv
<1>3. CASE Shadow!Abandon
  <2>1. observed' = Nothing /\ UNCHANGED <<now, archive, predictions, outcomes, pass>>
    BY <1>3 DEF Shadow!Abandon
  <2>2. ShadowTyped' /\ Archived(now)'
    BY <2>1 DEF ShadowInv, ShadowTyped, Archived
  <2> QED BY <2>1, <2>2, OthersKeep DEF ShadowInv
<1>4. CASE Shadow!Tick
  <2>1. /\ now' \in 0..MaxShadowTime /\ now <= now' /\ now \in Nat
        /\ UNCHANGED <<archive, observed, predictions, outcomes, pass>>
    BY <1>4 DEF Shadow!Tick, ShadowInv, ShadowTyped, ShadowConstants
  <2>2. Archived(now)'
    BY <2>1 DEF ShadowInv, Archived
  <2>3. ShadowTyped'
    BY <2>1 DEF ShadowInv, ShadowTyped
  <2> QED BY <2>1, <2>2, <2>3, OthersKeep DEF ShadowInv
<1>5. CASE Shadow!Archive
  <2>1. PICK t \in 1..now, l \in ShadowLevels : archive' = [archive EXCEPT ![t] = l]
    BY <1>5 DEF Shadow!Archive
  <2>2. UNCHANGED <<now, observed, predictions, outcomes, pass>>
    BY <1>5 DEF Shadow!Archive
  <2>3. Archived(now)' /\ DOMAIN archive' = DOMAIN archive
    BY <2>1, <2>2 DEF ShadowInv, ShadowTyped, Archived
  <2>4. ShadowTyped'
    BY <2>2, <2>3 DEF ShadowInv, ShadowTyped
  <2> QED BY <2>2, <2>3, <2>4, OthersKeep DEF ShadowInv
<1>6. ASSUME NEW e \in Evaluators, Shadow!Begin(e)
      PROVE  ShadowInv' /\ outcomes' = outcomes
  <2>1. /\ pass[e] = [left |-> {}, verdict |-> Nothing] /\ pass' = [pass EXCEPT ![e].left = Shadow!Pending]
        /\ UNCHANGED <<now, archive, observed, predictions, outcomes>>
    BY <1>6 DEF Shadow!Begin, Shadow!Rest
  <2>2. Shadow!Pending \subseteq 1..Len(predictions)
    BY DEF Shadow!Pending, ShadowInv, ShadowTyped
  <2>3. pass = [f \in Evaluators |-> pass[f]]
    BY DEF ShadowInv, ShadowTyped
  <2>4. /\ pass' = [f \in Evaluators |-> pass'[f]]
        /\ pass'[e].left = Shadow!Pending /\ pass'[e].verdict = Nothing
        /\ \A f \in Evaluators \ {e} : pass'[f] = pass[f]
    BY <2>1, <2>3
  <2>5. Judging(e)'
    BY <2>1, <2>2, <2>4 DEF Judging
  <2>6. ASSUME NEW f \in Evaluators \ {e} PROVE Judging(f)'
    <3>1. Shadow!At(f)' = Shadow!At(f) /\ pass'[f] = pass[f] /\ predictions' = predictions
      BY <2>1, <2>4 DEF Shadow!At
    <3> QED BY <3>1 DEF Judging, InTime, ShadowInv
  <2>7. \A q \in 1..MaxPredictions : Graded(q)'
    BY <2>1 DEF ShadowInv, Graded, InTime
  <2>8. ShadowTyped' /\ Archived(now)'
    BY <2>1, <2>4 DEF ShadowInv, ShadowTyped, Archived
  <2> QED BY <2>1, <2>5, <2>6, <2>7, <2>8 DEF ShadowInv
<1>7. ASSUME NEW e \in Evaluators, Shadow!Judge(e)
      PROVE  ShadowInv' /\ outcomes' = outcomes
  BY <1>7, JudgeKeeps DEF Shadow!Judge
<1>8. CASE UNCHANGED Shadow!shadow
  <2>1. UNCHANGED <<now, archive, observed, predictions, outcomes, pass>>
    BY <1>8 DEF Shadow!shadow
  <2>2. ShadowTyped' /\ Archived(now)'
    BY <2>1 DEF ShadowInv, ShadowTyped, Archived
  <2> QED BY <2>1, <2>2, OthersKeep DEF ShadowInv
<1>9. UNCHANGED outcomes => \A p \in 1..MaxPredictions : outcomes[p] # Nothing => outcomes'[p] = outcomes[p]
  OBVIOUS
<1>10. Shadow!Observe \/ Shadow!Predict \/ Shadow!Abandon \/ Shadow!Tick \/ Shadow!Archive => UNCHANGED outcomes
  BY DEF Shadow!Observe, Shadow!Predict, Shadow!Abandon, Shadow!Tick, Shadow!Archive
<1>11. UNCHANGED Shadow!shadow => UNCHANGED outcomes
  BY DEF Shadow!shadow
<1> QED BY <1>1, <1>2, <1>3, <1>4, <1>5, <1>6, <1>7, <1>8, <1>9, <1>10, <1>11, RecordKeeps DEF Shadow!Next

LEMMA ShadowSays ==
    ASSUME ShadowConstants, ShadowInv
    PROVE  Shadow!TypeOK /\ Shadow!ExpiredHadItsTime
<1>1. Shadow!TypeOK
  BY DEF ShadowInv, ShadowTyped, Archived, Judging, Graded, Shadow!TypeOK, Shadow!Ids, Classes
<1>2. ASSUME NEW p \in 1..Len(predictions), outcomes[p] # Nothing, outcomes[p].class = "expired",
             predictions[p].direction # Nothing
      PROVE  outcomes[p].at >= predictions[p].until /\ outcomes[p].candles = 0
  <2>1. p \in 1..MaxPredictions
    BY DEF ShadowInv, ShadowTyped, ShadowConstants
  <2> QED BY <1>2, <2>1 DEF ShadowInv, Graded, InTime
<1>3. DOMAIN predictions = 1..Len(predictions)
  BY DEF ShadowInv, ShadowTyped
<1> QED BY <1>1, <1>2, <1>3 DEF Shadow!ExpiredHadItsTime

\* For any number of evaluators, signals and predictions: a verdict stays as it was stored, and a
\* prediction is written off only after its window and without a candle to judge it by
\* (shadow_mode/evaluator.py).
THEOREM VerdictsAreFair ==
    ASSUME ShadowConstants
    PROVE  Shadow!Init /\ [][Shadow!Next]_(Shadow!shadow) =>
              [](Shadow!TypeOK /\ Shadow!ExpiredHadItsTime) /\ Shadow!VerdictIsFinal
<1>1. Shadow!Init => ShadowInv
  BY ShadowBegins
<1>2. ShadowInv /\ [Shadow!Next]_(Shadow!shadow) => ShadowInv'
  BY ShadowSteps
<1>3. ShadowInv => Shadow!TypeOK /\ Shadow!ExpiredHadItsTime
  BY ShadowSays
<1>4. ShadowInv /\ [Shadow!Next]_(Shadow!shadow) =>
        [\A p \in Shadow!Ids : outcomes[p] # Nothing => outcomes'[p] = outcomes[p]]_(Shadow!shadow)
  BY ShadowSteps DEF Shadow!Ids
<1> QED BY <1>1, <1>2, <1>3, <1>4, PTL DEF Shadow!VerdictIsFinal

-----------------------------------------------------------------------------
(* Proofs: what is proved of a part holds of the parts side by side, as a    *)
(* step of one leaves the others alone.                                      *)
LEMMA PartsBegin ==
    ASSUME AllInit
    PROVE  /\ Health!Init /\ Watchdog!Init /\ Session!Init /\ Status!Init /\ Backup!Init
           /\ Exits!Init /\ Guardian!Init /\ ByCandle!Init /\ ByChain!Init
           /\ Jobs!Init /\ Profiles!Init /\ Researcher!Init /\ Shadow!Init
BY DEF AllInit

LEMMA HealthSteps == ASSUME [AllNext]_allVars PROVE [Health!Next]_(Health!health)
BY DEF AllNext, Resting, allVars, healthVars, Health!health

LEMMA WatchdogSteps == ASSUME [AllNext]_allVars PROVE [Watchdog!Next]_(Watchdog!watchdog)
BY DEF AllNext, Resting, allVars, watchdogVars, Watchdog!watchdog

LEMMA SessionSteps == ASSUME [AllNext]_allVars PROVE [Session!Next]_(Session!broker)
BY DEF AllNext, Resting, allVars, sessionVars, Session!broker

LEMMA StatusSteps == ASSUME [AllNext]_allVars PROVE [Status!Next]_(Status!vars)
BY DEF AllNext, Resting, allVars, statusVars, Status!vars

LEMMA BackupSteps == ASSUME [AllNext]_allVars PROVE [Backup!Next]_(Backup!backups)
BY DEF AllNext, Resting, allVars, backupVars, Backup!backups

LEMMA JobSteps == ASSUME [AllNext]_allVars PROVE [Jobs!Next]_(Jobs!jobs)
BY DEF AllNext, Resting, allVars, jobsVars, Jobs!jobs

LEMMA ProfileSteps == ASSUME [AllNext]_allVars PROVE [Profiles!Next]_(Profiles!profiles)
BY DEF AllNext, Resting, allVars, profilesVars, Profiles!profiles

LEMMA ResearcherSteps == ASSUME [AllNext]_allVars PROVE [Researcher!Next]_(Researcher!research)
BY DEF AllNext, Resting, allVars, researchVars, Researcher!research

LEMMA EvaluatorSteps == ASSUME [AllNext]_allVars PROVE [Shadow!Next]_(Shadow!shadow)
BY DEF AllNext, Resting, allVars, shadowVars, Shadow!shadow

LEMMA ExitSteps == ASSUME [AllNext]_allVars PROVE [Exits!Next]_(Exits!exits)
BY DEF AllNext, Resting, allVars, exitVars, Exits!exits

LEMMA GuardianSteps == ASSUME [AllNext]_allVars PROVE [Guardian!Next]_(Guardian!guardian)
BY DEF AllNext, Resting, allVars, guardianVars, Guardian!guardian

LEMMA CandleSteps == ASSUME [AllNext]_allVars PROVE [ByCandle!Next]_(ByCandle!candles)
BY DEF AllNext, Resting, allVars, candlesVars, ByCandle!candles

LEMMA ChainSteps == ASSUME [AllNext]_allVars PROVE [ByChain!Next]_(ByChain!replay)
BY DEF AllNext, Resting, allVars, chainVars, ByChain!replay

\* For all constants that fit: breaker, heartbeat, watchdog, broker session and agent rows tell what
\* happened to them, whatever the other parts do beside them.
THEOREM AlarmsAreTrue == AllSpec => []AlarmsTellTheTruth
<1>1. AllInit => Health!Init /\ Watchdog!Init /\ Session!Init /\ Status!Init
  BY PartsBegin
<1>2. [AllNext]_allVars => /\ [Health!Next]_(Health!health) /\ [Watchdog!Next]_(Watchdog!watchdog)
                          /\ [Session!Next]_(Session!broker) /\ [Status!Next]_(Status!vars)
  BY HealthSteps, WatchdogSteps, SessionSteps, StatusSteps
<1>3. /\ Health!TypeOK /\ Health!BreakerTellsTheTruth /\ Health!StaleMeansFailing
      /\ Watchdog!TypeOK /\ Watchdog!OneAlertPerStreak /\ Watchdog!NoSilentStreak
      /\ Session!TypeOK /\ Session!NoHalfMadeClient
      /\ Status!TypeOK /\ Status!RunningIsHonest /\ Status!EscalatedInTime /\ Status!ScoreFollowsFailures
      => AlarmsTellTheTruth
  BY DEF AlarmsTellTheTruth
<1>4. HealthConstants /\ WatchdogConstants /\ SessionConstants /\ StatusConstants
  BY PartsAssumption
<1>5. Health!Init /\ [][Health!Next]_(Health!health) =>
          [](Health!TypeOK /\ Health!BreakerTellsTheTruth /\ Health!StaleMeansFailing)
  BY <1>4, HealthIsTold
<1>6. Watchdog!Init /\ [][Watchdog!Next]_(Watchdog!watchdog) =>
          [](Watchdog!TypeOK /\ Watchdog!OneAlertPerStreak /\ Watchdog!NoSilentStreak)
  BY <1>4, StreaksAreTold
<1>7. Session!Init /\ [][Session!Next]_(Session!broker) => [](Session!TypeOK /\ Session!NoHalfMadeClient)
  BY <1>4, NoHalfLogin
<1>8. Status!Init /\ [][Status!Next]_(Status!vars) =>
          [](Status!TypeOK /\ Status!RunningIsHonest /\ Status!EscalatedInTime /\ Status!ScoreFollowsFailures)
  BY <1>4, AgentsAreTold
<1> QED BY <1>1, <1>2, <1>3, <1>5, <1>6, <1>7, <1>8, PTL DEF AllSpec

\* For all constants that fit: the restores of the run are sound.
THEOREM RestoresStaySound == AllSpec => []RestoresAreSound
<1>1. AllInit => Backup!Init
  BY PartsBegin
<1>2. [AllNext]_allVars => [Backup!Next]_(Backup!backups)
  BY BackupSteps
<1>3. Backup!RestoresAreSound => RestoresAreSound
  BY DEF RestoresAreSound
<1>4. Backup!Spec => []Backup!RestoresAreSound
  BY PartsAssumption, RestoresLoseNothing
<1> QED BY <1>1, <1>2, <1>3, <1>4, PTL DEF AllSpec, Backup!Spec

\* For all constants that fit: jobs, profiles, promotions and verdicts are current, whatever the other
\* parts do beside them.
THEOREM ResultsStayCurrent == AllSpec => ResultsAreCurrent
<1>1. AllInit => Jobs!Init /\ Profiles!Init /\ Researcher!Init /\ Shadow!Init
  BY PartsBegin
<1>2. [AllNext]_allVars => /\ [Jobs!Next]_(Jobs!jobs) /\ [Profiles!Next]_(Profiles!profiles)
                          /\ [Researcher!Next]_(Researcher!research) /\ [Shadow!Next]_(Shadow!shadow)
  BY JobSteps, ProfileSteps, ResearcherSteps, EvaluatorSteps
<1>3. Jobs!Init /\ [][Jobs!Next]_(Jobs!jobs) => [](Jobs!TypeOK /\ Jobs!LiveJobIsShown)
  BY PartsAssumption, JobIsShown
<1>4. Profiles!Init /\ [][Profiles!Next]_(Profiles!profiles) =>
          [](Profiles!TypeOK /\ Profiles!OneLiveProfile /\ Profiles!NextCycleFollows)
  BY ProfilesAreFollowed
<1>5. Researcher!Init /\ [][Researcher!Next]_(Researcher!research) =>
          [](/\ Researcher!TypeOK /\ Researcher!PromotedWasVetted /\ Researcher!BranchMatchesRow
             /\ Researcher!EvidenceIsKept /\ Researcher!RecalledIsNotTested)
  BY PartsAssumption, PromotionsAreEarned
<1>6. Shadow!Init /\ [][Shadow!Next]_(Shadow!shadow) =>
          [](Shadow!TypeOK /\ Shadow!ExpiredHadItsTime) /\ Shadow!VerdictIsFinal
  BY PartsAssumption, VerdictsAreFair
<1> QED BY <1>1, <1>2, <1>3, <1>4, <1>5, <1>6, PTL DEF AllSpec, ResultsAreCurrent

\* For all constants that fit: stops and guarded plans hold, whatever the other parts do beside them.
THEOREM StopsAlwaysHold == AllSpec => StopsHold
<1>1. AllInit => Exits!Init /\ Guardian!Init
  BY PartsBegin
<1>2. [AllNext]_allVars => [Exits!Next]_(Exits!exits) /\ [Guardian!Next]_(Guardian!guardian)
  BY ExitSteps, GuardianSteps
<1>3. Exits!Init /\ [][Exits!Next]_(Exits!exits) =>
          /\ [](Exits!TypeOK /\ Exits!ProtectedIsNoLoss /\ Exits!StoppedWhereItStood)
          /\ Exits!TargetsOnlyAdvance
  BY PartsAssumption, StopsAreHonoured
<1>4. Guardian!Init /\ [][Guardian!Next]_(Guardian!guardian) =>
          /\ [](Guardian!TypeOK /\ Guardian!ToldWhatIsSaved /\ Guardian!NeverWidens)
          /\ Guardian!PlanIsKept
  BY PartsAssumption, PlansAreGuarded
<1> QED BY <1>1, <1>2, <1>3, <1>4, PTL DEF AllSpec, StopsHold

\* For all constants that fit: both kinds of replay are fair, whatever the other parts do beside them.
THEOREM ReplaysStayFair == AllSpec => []ReplaysAreFair
<1>1. AllInit => ByCandle!Init /\ ByChain!Init
  BY PartsBegin
<1>2. [AllNext]_allVars => [ByCandle!Next]_(ByCandle!candles) /\ [ByChain!Next]_(ByChain!replay)
  BY CandleSteps, ChainSteps
<1>3. ByCandle!Init /\ [][ByCandle!Next]_(ByCandle!candles) =>
          [](/\ ByCandle!TypeOK /\ ByCandle!WorstIsAssumed /\ ByCandle!NameMatchesResult
             /\ ByCandle!DayTradesOnly /\ ByCandle!NoOverlap)
  BY PartsAssumption, ReplaysAssumeTheWorst
<1>4. ByChain!Init /\ [][ByChain!Next]_(ByChain!replay) =>
          [](ByChain!TypeOK /\ ByChain!NoLookahead /\ ByChain!OneAtATime /\ ByChain!OverdueIsUnpriced)
  BY PartsAssumption, ReplaysSeeThePast
<1>5. /\ ByCandle!TypeOK /\ ByCandle!WorstIsAssumed /\ ByCandle!NameMatchesResult
      /\ ByCandle!DayTradesOnly /\ ByCandle!NoOverlap
      /\ ByChain!TypeOK /\ ByChain!NoLookahead /\ ByChain!OneAtATime /\ ByChain!OverdueIsUnpriced
      => ReplaysAreFair
  BY DEF ReplaysAreFair
<1> QED BY <1>1, <1>2, <1>3, <1>4, <1>5, PTL DEF AllSpec
=============================================================================

--------------------------- MODULE WorkflowProofs ---------------------------
(***************************************************************************)
(* Theorems about the workflow engine, for every number of workflows,      *)
(* scheduler loops, operators, calls and crashes.                          *)
(***************************************************************************)
EXTENDS Workflow, FiniteSets, SequenceTheorems, FiniteSetTheorems, TLAPS

\* The history backs a row: its stage, and human_approval when it waits.
Backed(w, r) == /\ Earned(w, r.stage)
                /\ r.status = "waiting_approval" => Earned(w, "human_approval")

\* The same for the columns an update is given.
Fits(w, u) == /\ u.stage # "keep" => Earned(w, u.stage)
              /\ u.status = "waiting_approval" => Earned(w, "human_approval")

\* What a thread in the middle of a call still remembers is backed, too: the
\* stage it loaded, the row it saw and every update it is about to make.
Pending(p) ==
    /\ at[p] # "idle" => target[p] \in Workflows
    /\ at[p] \in {"stage", "auto"} => Earned(target[p], loaded[p])
    /\ at[p] = "auto" => loaded[p] = "human_approval"
    /\ at[p] \in {"read", "write"} =>
          todo[p] # << >> /\ \A i \in 1..Len(todo[p]) : Fits(target[p], todo[p][i])
    /\ at[p] = "write" => Backed(target[p], seen[p])

IInv == /\ TypeOK
        /\ \A w \in Workflows : Backed(w, row[w])
        /\ \A p \in Threads : Pending(p)

LogGrows == \A w \in Workflows : log[w] \subseteq log'[w]

-----------------------------------------------------------------------------
(* The history only grows, so what was earned stays earned.                *)

LEMMA EarnedStays ==
    ASSUME LogGrows, NEW w \in Workflows, NEW s, Earned(w, s)
    PROVE  Earned(w, s)'
BY DEF LogGrows, Earned

LEMMA BackedStays ==
    ASSUME LogGrows, NEW w \in Workflows, NEW r, Backed(w, r)
    PROVE  Earned(w, r.stage)' /\ (r.status = "waiting_approval" => Earned(w, "human_approval")')
BY EarnedStays DEF Backed

\* Each stage adds one kind of evidence to that of the stage before it.
LEMMA Ladder ==
    ASSUME NEW w
    PROVE  /\ Earned(w, "market_data")
           /\ "data" \in log[w] => Earned(w, "research")
           /\ Earned(w, "research") /\ "researched" \in log[w] => Earned(w, "human_approval")
           /\ Earned(w, "human_approval") /\ (Granting \cap log[w] # {}) => Earned(w, "execution")
           /\ Earned(w, "execution") /\ "executed" \in log[w] => Earned(w, "learning")
           /\ Earned(w, "learning") /\ "learned" \in log[w] => Earned(w, "memory_update")
<1>1. Earned(w, "market_data")
  BY DEF Earned, Needs
<1>2. Earned(w, "research") <=> "data" \in log[w]
  BY DEF Earned, Needs
<1>3. Earned(w, "human_approval") <=> "data" \in log[w] /\ "researched" \in log[w]
  BY DEF Earned, Needs
<1>4. Earned(w, "execution") <=> /\ "data" \in log[w] /\ "researched" \in log[w]
                                 /\ Granting \cap log[w] # {}
  BY DEF Earned, Needs
<1>5. Earned(w, "learning") <=> /\ "data" \in log[w] /\ "researched" \in log[w]
                                /\ Granting \cap log[w] # {} /\ "executed" \in log[w]
  BY DEF Earned, Needs
<1>6. Earned(w, "memory_update") <=>
                                /\ "data" \in log[w] /\ "researched" \in log[w]
                                /\ Granting \cap log[w] # {} /\ "executed" \in log[w]
                                /\ "learned" \in log[w]
  BY DEF Earned, Needs
<1> QED
  BY <1>1, <1>2, <1>3, <1>4, <1>5, <1>6

-----------------------------------------------------------------------------
(* What the steps have in common.                                          *)

\* A thread that does not move keeps what it remembers.
LEMMA OthersKept ==
    ASSUME TypeOK, LogGrows, NEW p \in Threads, Pending(p),
           at'[p] = at[p], target'[p] = target[p], loaded'[p] = loaded[p],
           todo'[p] = todo[p], seen'[p] = seen[p]
    PROVE  Pending(p)'
<1>1. at[p] # "idle" => target[p] \in Workflows
  BY DEF Pending
<1>2. \A s : at[p] # "idle" /\ (\A E \in Needs(s) : E \cap log[target[p]] # {})
               => \A E \in Needs(s) : E \cap log'[target[p]] # {}
  BY <1>1, Zenon DEF LogGrows
<1>3. (at[p] \in {"stage", "auto"} => Earned(target[p], loaded[p]))'
  <2>1. at[p] \in {"stage", "auto"} => Earned(target[p], loaded[p])
    BY DEF Pending
  <2> QED
    BY <2>1, <1>2 DEF Earned
<1>4. (at[p] \in {"read", "write"} =>
         todo[p] # << >> /\ \A i \in 1..Len(todo[p]) : Fits(target[p], todo[p][i]))'
  <2>1. at[p] \in {"read", "write"} =>
           todo[p] # << >> /\ \A i \in 1..Len(todo[p]) : Fits(target[p], todo[p][i])
    BY DEF Pending
  <2> QED
    BY <2>1, <1>2 DEF Fits, Earned
<1>5. (at[p] = "write" => Backed(target[p], seen[p]))'
  <2>1. at[p] = "write" => Backed(target[p], seen[p])
    BY DEF Pending
  <2> QED
    BY <2>1, <1>2 DEF Backed, Earned
<1>6. (at[p] # "idle" => target[p] \in Workflows)' /\ (at[p] = "auto" => loaded[p] = "human_approval")'
  BY DEF Pending
<1> QED
  BY <1>3, <1>4, <1>5, <1>6 DEF Pending

\* Rows that do not change stay backed.
LEMMA RowsKept ==
    ASSUME LogGrows, \A w \in Workflows : Backed(w, row[w]), row' = row
    PROVE  (\A w \in Workflows : Backed(w, row[w]))'
<1> SUFFICES ASSUME NEW w \in Workflows PROVE Backed(w, row[w])'
  OBVIOUS
<1>1. Backed(w, row[w])
  OBVIOUS
<1> QED
  BY <1>1, BackedStays DEF Backed, Earned

\* Steps that leave the row and the history alone, and move one thread.
LEMMA OneThreadMoves ==
    ASSUME IInv, NEW p \in Threads, LogGrows, row' = row, Pending(p)',
           \A q \in Threads : q # p => /\ at'[q] = at[q] /\ target'[q] = target[q]
                                       /\ loaded'[q] = loaded[q] /\ todo'[q] = todo[q]
                                       /\ seen'[q] = seen[q]
    PROVE  (\A w \in Workflows : Backed(w, row[w]))' /\ (\A q \in Threads : Pending(q))'
<1>1. (\A w \in Workflows : Backed(w, row[w]))'
  BY RowsKept DEF IInv
<1>2. ASSUME NEW q \in Threads PROVE Pending(q)'
  BY <1>2, OthersKept DEF IInv
<1> QED
  BY <1>1, <1>2

\* A thread that decides: the history grows by its events, and its updates
\* have to be backed by the history as it is then.
LEMMA DecisionKept ==
    ASSUME IInv, NEW p \in Threads, NEW w \in Workflows,
           NEW events \in SUBSET Events, NEW updates \in Seq(Updates), updates # << >>,
           Decide(p, w, events, updates),
           (target' = target /\ target[p] = w) \/ target' = [target EXCEPT ![p] = w],
           row' = row, loaded' = loaded, seen' = seen,
           \A i \in 1..Len(updates) : Fits(w, updates[i])'
    PROVE  /\ log' \in [Workflows -> SUBSET Events]
           /\ todo' \in [Threads -> Seq(Updates)]
           /\ at' \in [Threads -> {"idle", "stage", "auto", "read", "write", "emit"}]
           /\ target' \in [Threads -> Workflows \cup {NoWorkflow}]
           /\ (\A v \in Workflows : Backed(v, row[v]))'
           /\ (\A q \in Threads : Pending(q))'
<1>1. /\ log' = [log EXCEPT ![w] = log[w] \cup events]
      /\ todo' = [todo EXCEPT ![p] = updates]
      /\ at' = [at EXCEPT ![p] = "read"]
  BY DEF Decide
<1>2. /\ log' \in [Workflows -> SUBSET Events]
      /\ todo' \in [Threads -> Seq(Updates)]
      /\ at' \in [Threads -> {"idle", "stage", "auto", "read", "write", "emit"}]
      /\ target' \in [Threads -> Workflows \cup {NoWorkflow}]
  BY <1>1 DEF IInv, TypeOK
<1>3. LogGrows
  BY <1>1 DEF IInv, TypeOK, LogGrows
<1>4. target'[p] = w /\ \A q \in Threads : q # p => target'[q] = target[q]
  BY DEF IInv, TypeOK
<1>5. at'[p] = "read" /\ todo'[p] = updates
  BY <1>1 DEF IInv, TypeOK
<1>6. Pending(p)'
  BY <1>4, <1>5 DEF Pending
<1>7. \A q \in Threads : q # p => at'[q] = at[q] /\ todo'[q] = todo[q]
  BY <1>1 DEF IInv, TypeOK
<1> QED
  BY <1>2, <1>3, <1>4, <1>6, <1>7, OneThreadMoves

-----------------------------------------------------------------------------
(* The stages.                                                             *)

\* One update with evidence for the stage it sets.
LEMMA SingleFits ==
    ASSUME NEW w, NEW u \in Updates, Fits(w, u)'
    PROVE  /\ <<u>> \in Seq(Updates) /\ <<u>> # << >>
           /\ \A i \in 1..Len(<<u>>) : Fits(w, <<u>>[i])'
<1>1. <<u>> \in Seq(Updates) /\ <<u>> # << >> /\ Len(<<u>>) = 1 /\ <<u>>[1] = u
  OBVIOUS
<1>2. \A i \in 1..Len(<<u>>) : i = 1
  BY <1>1
<1> QED
  BY <1>1, <1>2

\* Every way a stage can end records what it earns, and no more.
LEMMA OutcomesFit ==
    ASSUME NEW w \in Workflows, NEW s \in Stages \ {"human_approval"}, NEW o \in Outcomes(s),
           LogGrows, Earned(w, s), o.event \subseteq log'[w]
    PROVE  /\ o.event \in SUBSET Events
           /\ o.updates \in Seq(Updates)
           /\ o.updates # << >>
           /\ \A i \in 1..Len(o.updates) : Fits(w, o.updates[i])'
<1>1. Earned(w, s)'
  BY EarnedStays
<1>2. ASSUME NEW u \in Updates, u.stage = "keep", u.status # "waiting_approval"
      PROVE  Fits(w, u)'
  BY <1>2 DEF Fits
<1>3. ASSUME NEW u \in Updates, u.stage # "keep", u.status # "waiting_approval", Earned(w, u.stage)'
      PROVE  Fits(w, u)'
  BY <1>3 DEF Fits
<1>4. CASE s = "market_data"
  <2>1. CASE o = Outcome({"data"}, <<Set("research", "keep")>>)
    <3>1. o.event = {"data"} /\ o.updates = <<Set("research", "keep")>>
      BY <2>1 DEF Outcome
    <3>2. Set("research", "keep") \in Updates
      BY DEF Set, Updates, Stages
    <3>3. Earned(w, "research")'
      <4>1. "data" \in log'[w]
        BY <3>1
      <4> QED
        BY <4>1 DEF Earned, Needs
    <3> QED
      BY <3>1, <3>2, <3>3, <1>3, SingleFits DEF Set, Events
  <2>2. CASE o = Outcome({}, <<Set("keep", "failed")>>)
    <3>1. o.event = {} /\ o.updates = <<Set("keep", "failed")>>
      BY <2>2 DEF Outcome
    <3>2. Set("keep", "failed") \in Updates
      BY DEF Set, Updates, Statuses, Terminal
    <3> QED
      BY <3>1, <3>2, <1>2, SingleFits DEF Set
  <2> QED
    BY <1>4, <2>1, <2>2 DEF Outcomes
<1>5. CASE s = "research"
  <2>1. CASE o = Outcome({"researched"}, <<Set("human_approval", "keep")>>)
    <3>1. o.event = {"researched"} /\ o.updates = <<Set("human_approval", "keep")>>
      BY <2>1 DEF Outcome
    <3>2. Set("human_approval", "keep") \in Updates
      BY DEF Set, Updates, Stages
    <3>3. Earned(w, "human_approval")'
      <4>1. "researched" \in log'[w]
        BY <3>1
      <4> QED
        BY <4>1, <1>1, <1>5 DEF Earned, Needs
    <3> QED
      BY <3>1, <3>2, <3>3, <1>3, SingleFits DEF Set, Events
  <2>2. ASSUME NEW u \in {Set("research", "completed"), Set("keep", "failed")},
               o = Outcome({}, <<Set("keep", "keep"), u>>)
        PROVE  /\ o.event \in SUBSET Events
               /\ o.updates \in Seq(Updates)
               /\ o.updates # << >>
               /\ \A i \in 1..Len(o.updates) : Fits(w, o.updates[i])'
    <3>1. o.event = {} /\ o.updates = <<Set("keep", "keep"), u>>
      BY <2>2 DEF Outcome
    <3>2. Set("keep", "keep") \in Updates /\ u \in Updates
      BY DEF Set, Updates, Stages, Statuses, Terminal
    <3>3. Fits(w, Set("keep", "keep"))'
      BY <3>2, <1>2 DEF Set
    <3>4. Fits(w, u)'
      BY <3>2, <1>1, <1>2, <1>3, <1>5 DEF Set
    <3>5. /\ o.updates \in Seq(Updates) /\ o.updates # << >> /\ Len(o.updates) = 2
          /\ o.updates[1] = Set("keep", "keep") /\ o.updates[2] = u
      BY <3>1, <3>2
    <3>6. \A i \in 1..Len(o.updates) : i = 1 \/ i = 2
      BY <3>5
    <3> QED
      BY <3>1, <3>3, <3>4, <3>5, <3>6
  <2> QED
    BY <1>5, <2>1, <2>2 DEF Outcomes
<1>6. CASE s = "execution"
  <2>1. o.event = {"executed"} /\ o.updates = <<Set("learning", "keep")>>
    BY <1>6 DEF Outcomes, Outcome
  <2>2. Set("learning", "keep") \in Updates
    BY DEF Set, Updates, Stages
  <2>3. "executed" \in log'[w]
    BY <2>1
  <2>4. Earned(w, "learning")'
    BY <2>3, <1>1, <1>6 DEF Earned, Needs
  <2> QED
    BY <2>1, <2>2, <2>4, <1>3, SingleFits DEF Set, Events
<1>7. CASE s = "learning"
  <2>1. o.event = {"learned"} /\ o.updates = <<Set("memory_update", "keep")>>
    BY <1>7 DEF Outcomes, Outcome
  <2>2. Set("memory_update", "keep") \in Updates
    BY DEF Set, Updates, Stages
  <2>3. "learned" \in log'[w]
    BY <2>1
  <2>4. Earned(w, "memory_update")'
    BY <2>3, <1>1, <1>7 DEF Earned, Needs
  <2> QED
    BY <2>1, <2>2, <2>4, <1>3, SingleFits DEF Set, Events
<1>8. CASE s = "memory_update"
  <2>1. o.event = {} /\ o.updates = <<Set("memory_update", "completed")>>
    BY <1>8 DEF Outcomes, Outcome
  <2>2. Set("memory_update", "completed") \in Updates
    BY DEF Set, Updates, Stages, Statuses, Terminal
  <2> QED
    BY <2>1, <2>2, <1>1, <1>3, <1>8, SingleFits DEF Set
<1> QED
  BY <1>4, <1>5, <1>6, <1>7, <1>8 DEF Stages

-----------------------------------------------------------------------------
(* The invariant is inductive.                                             *)

LEMMA InitIInv == Init => IInv
<1> SUFFICES ASSUME Init PROVE IInv
  OBVIOUS
<1>1. TypeOK
  BY WorkflowAssumption DEF Init, TypeOK, Row, NoRow, Stages, Statuses
<1>2. \A w \in Workflows : Backed(w, row[w])
  BY Ladder DEF Init, Backed, NoRow
<1>3. \A p \in Threads : Pending(p)
  BY DEF Init, Pending
<1> QED
  BY <1>1, <1>2, <1>3 DEF IInv

\* The UPDATE of update_workflow writes a row the history backs, whoever
\* wrote the row since the SELECT.
LEMMA WriteKept ==
    ASSUME IInv, NEW p \in Threads, WriteRow(p)
    PROVE  IInv'
<1> DEFINE t == target[p]
           u == Head(todo[p])
<1>1. /\ at[p] = "write"
      /\ row' = [row EXCEPT ![t] = Merged(u, seen[p])]
      /\ todo' = [todo EXCEPT ![p] = Tail(todo[p])]
      /\ seen' = [seen EXCEPT ![p] = NoRow]
      /\ UNCHANGED <<log, policy, target, loaded, caught, grants, lessons, calls, crashes>>
  BY DEF WriteRow
<1>2. t \in Workflows /\ todo[p] # << >> /\ todo[p] \in Seq(Updates) /\ seen[p] \in Row
  BY <1>1 DEF IInv, TypeOK, Pending
<1>3. u \in Updates /\ Fits(t, u)
  <2>1. u = todo[p][1] /\ 1 \in 1..Len(todo[p]) /\ u \in Updates
    BY <1>2
  <2> QED
    BY <2>1, <1>1 DEF IInv, Pending
<1>4. Merged(u, seen[p]) \in Row
  BY <1>2, <1>3 DEF Merged, Row, Updates
<1>5. Backed(t, Merged(u, seen[p]))
  <2>1. Backed(t, seen[p])
    BY <1>1 DEF IInv, Pending
  <2> QED
    BY <2>1, <1>3 DEF Backed, Fits, Merged
<1>6. /\ at' \in [Threads -> {"idle", "stage", "auto", "read", "write", "emit"}]
      /\ at'[p] \in {"read", "emit", "idle"}
      /\ at'[p] = "read" => Tail(todo[p]) # << >>
      /\ \A q \in Threads : q # p => at'[q] = at[q]
  BY DEF WriteRow, IInv, TypeOK
<1>7. LogGrows
  BY <1>1 DEF LogGrows
<1>8. TypeOK'
  <2>1. row' \in [Workflows -> Row] /\ seen' \in [Threads -> Row]
    BY <1>1, <1>2, <1>4 DEF IInv, TypeOK, NoRow, Row, Stages, Statuses
  <2>2. todo' \in [Threads -> Seq(Updates)]
    BY <1>1, <1>2, HeadTailProperties DEF IInv, TypeOK
  <2> QED
    BY <1>1, <1>6, <2>1, <2>2 DEF IInv, TypeOK
<1>9. (\A w \in Workflows : Backed(w, row[w]))'
  <2> SUFFICES ASSUME NEW w \in Workflows PROVE Backed(w, row[w])'
    OBVIOUS
  <2>1. row'[w] = IF w = t THEN Merged(u, seen[p]) ELSE row[w]
    BY <1>1, <1>2 DEF IInv, TypeOK
  <2>2. Backed(w, IF w = t THEN Merged(u, seen[p]) ELSE row[w])
    BY <1>5 DEF IInv
  <2>3. log' = log
    BY <1>1
  <2> QED
    BY <2>1, <2>2, <2>3 DEF Backed, Earned
<1>10. Pending(p)'
  <2>1. todo'[p] = Tail(todo[p]) /\ target'[p] = t /\ log' = log
    BY <1>1 DEF IInv, TypeOK
  <2>2. \A i \in 1..Len(Tail(todo[p])) : Fits(t, Tail(todo[p])[i])
    <3>1. \A i \in 1..Len(todo[p]) : Fits(t, todo[p][i])
      BY <1>1 DEF IInv, Pending
    <3>2. Len(todo[p]) \in Nat /\ Len(Tail(todo[p])) = Len(todo[p]) - 1
      BY <1>2, HeadTailProperties, LenProperties
    <3>3. \A i \in 1..Len(Tail(todo[p])) :
             i + 1 \in 1..Len(todo[p]) /\ Tail(todo[p])[i] = todo[p][i + 1]
      BY <1>2, <3>2, HeadTailProperties
    <3> QED
      BY <3>1, <3>3
  <2>3. (\A i \in 1..Len(todo[p]) : Fits(target[p], todo[p][i]))'
    BY <2>1, <2>2 DEF Fits, Earned
  <2> QED
    BY <1>2, <1>6, <2>1, <2>3 DEF Pending
<1>11. \A q \in Threads : Pending(q)'
  <2> SUFFICES ASSUME NEW q \in Threads, q # p PROVE Pending(q)'
    BY <1>10
  <2>1. /\ at'[q] = at[q] /\ target'[q] = target[q] /\ loaded'[q] = loaded[q]
        /\ todo'[q] = todo[q] /\ seen'[q] = seen[q]
    BY <1>1, <1>6 DEF IInv, TypeOK
  <2> QED
    BY <2>1, <1>7, OthersKept DEF IInv
<1> QED
  BY <1>8, <1>9, <1>11 DEF IInv

LEMMA NextIInv == IInv /\ [Next]_vars => IInv'
<1> SUFFICES ASSUME IInv, [Next]_vars PROVE IInv'
  OBVIOUS
<1>t. TypeOK /\ Runners \subseteq Threads /\ Operators \subseteq Threads
  BY DEF IInv, Threads
<1>1. ASSUME NEW w \in Workflows, Start(w) PROVE IInv'
  <2>1. row' = [row EXCEPT ![w] = Set("market_data", "running")] /\ log' = log
    BY <1>1 DEF Start
  <2>2. TypeOK'
    BY <1>1, <1>t, <2>1 DEF Start, TypeOK, Row, Set, Stages, Statuses
  <2>3. (\A v \in Workflows : Backed(v, row[v]))'
    <3> SUFFICES ASSUME NEW v \in Workflows PROVE Backed(v, row[v])'
      OBVIOUS
    <3>1. row'[v] = IF v = w THEN Set("market_data", "running") ELSE row[v]
      BY <2>1, <1>t DEF TypeOK
    <3>2. Backed(v, Set("market_data", "running")) /\ Backed(v, row[v])
      BY Ladder DEF IInv, Backed, Set
    <3> QED
      BY <2>1, <3>1, <3>2 DEF Backed, Earned
  <2>4. \A p \in Threads : Pending(p)'
    BY <1>1, <1>t, OthersKept DEF Start, IInv, LogGrows
  <2> QED
    BY <2>2, <2>3, <2>4 DEF IInv
<1>2. ASSUME NEW p \in Policies, SetPolicy(p) PROVE IInv'
  <2>1. TypeOK'
    BY <1>2, <1>t DEF SetPolicy, TypeOK
  <2>2. (\A v \in Workflows : Backed(v, row[v]))' /\ \A q \in Threads : Pending(q)'
    BY <1>2, <1>t, OthersKept, RowsKept DEF SetPolicy, IInv, LogGrows
  <2> QED
    BY <2>1, <2>2 DEF IInv
<1>3. ASSUME NEW r \in Runners, NEW w \in Workflows, Advance(r, w) PROVE IInv'
  <2>1. TypeOK'
    BY <1>3, <1>t DEF Advance, TypeOK, Row
  <2>2. at'[r] = "stage" /\ target'[r] = w /\ loaded'[r] = row[w].stage /\ log' = log
    BY <1>3, <1>t DEF Advance, TypeOK
  <2>3. Pending(r)'
    <3>1. Earned(w, row[w].stage)
      BY DEF IInv, Backed
    <3> QED
      BY <2>2, <3>1 DEF Pending, Earned
  <2>4. (\A v \in Workflows : Backed(v, row[v]))' /\ (\A q \in Threads : Pending(q))'
    BY <1>3, <1>t, <2>3, OneThreadMoves DEF Advance, TypeOK, LogGrows
  <2> QED
    BY <2>1, <2>4 DEF IInv
<1>4. ASSUME NEW r \in Runners, RunStage(r) PROVE IInv'
  <2>1. PICK o \in Outcomes(loaded[r]) : Decide(r, target[r], o.event, o.updates)
    BY <1>4 DEF RunStage
  <2>2. /\ target[r] \in Workflows /\ Earned(target[r], loaded[r])
        /\ loaded[r] \in Stages \ {"human_approval"}
    BY <1>4, <1>t DEF RunStage, IInv, Pending, TypeOK
  <2>3. LogGrows /\ o.event \subseteq log'[target[r]]
    BY <2>1, <2>2, <1>t DEF Decide, TypeOK, LogGrows
  <2>4. /\ o.event \in SUBSET Events /\ o.updates \in Seq(Updates) /\ o.updates # << >>
        /\ \A i \in 1..Len(o.updates) : Fits(target[r], o.updates[i])'
    <3> DEFINE w == target[r]
               s == loaded[r]
    <3>1. ASSUME NEW v \in Workflows, NEW x \in Stages \ {"human_approval"},
                 v = w, x = s
          PROVE  /\ o.event \in SUBSET Events /\ o.updates \in Seq(Updates) /\ o.updates # << >>
                 /\ \A i \in 1..Len(o.updates) : Fits(v, o.updates[i])'
      BY <2>1, <2>2, <2>3, <3>1, OutcomesFit
    <3>2. target' = target
      BY <1>4 DEF RunStage
    <3> QED
      BY <2>2, <3>1, <3>2 DEF Fits, Earned
  <2> QED
    <3>1. PICK w \in Workflows : w = target[r]
      BY <2>2
    <3>2. /\ row' = row /\ loaded' = loaded /\ seen' = seen /\ target' = target
          /\ policy' = policy /\ caught' = caught /\ grants' = grants
          /\ calls' = calls /\ crashes' = crashes
      BY <1>4 DEF RunStage
    <3>3. \A i \in 1..Len(o.updates) : Fits(w, o.updates[i])'
      BY <2>4, <3>1, <3>2 DEF Fits, Earned
    <3>4. /\ log' \in [Workflows -> SUBSET Events]
          /\ todo' \in [Threads -> Seq(Updates)]
          /\ at' \in [Threads -> {"idle", "stage", "auto", "read", "write", "emit"}]
          /\ (\A v \in Workflows : Backed(v, row[v]))'
          /\ (\A q \in Threads : Pending(q))'
      BY <1>t, <2>1, <2>4, <3>1, <3>2, <3>3, DecisionKept
    <3>5. lessons' \in [Workflows -> Nat]
      BY <1>4, <1>t, <2>2 DEF RunStage, TypeOK
    <3> QED
      BY <1>t, <3>2, <3>4, <3>5 DEF IInv, TypeOK
<1>5. ASSUME NEW r \in Runners, ObserveOnly(r) PROVE IInv'
  <2>1. PICK w \in Workflows : w = target[r]
    BY <1>5, <1>t DEF ObserveOnly, IInv, Pending
  <2>2. /\ Decide(r, w, {"stopped"}, <<Set("human_approval", "completed")>>)
        /\ row' = row /\ loaded' = loaded /\ seen' = seen /\ target' = target
        /\ UNCHANGED <<policy, caught, lessons, calls, crashes>>
    BY <1>5, <2>1 DEF ObserveOnly
  <2>3. Earned(w, "human_approval")
    BY <1>5, <1>t, <2>1 DEF ObserveOnly, IInv, Pending
  <2>4. LogGrows /\ {"stopped"} \subseteq log'[w]
    BY <2>2, <1>t DEF Decide, TypeOK, LogGrows
  <2>5. Set("human_approval", "completed") \in Updates /\ {"stopped"} \in SUBSET Events
    BY DEF Set, Updates, Stages, Statuses, Terminal, Events
  <2>6. Fits(w, Set("human_approval", "completed"))'
    BY <2>3, <2>4, EarnedStays DEF Fits, Set
  <2>7. grants' \in [Workflows -> Nat]
    BY <1>5, <1>t DEF ObserveOnly, TypeOK
  <2> QED
    BY <1>t, <2>1, <2>2, <2>5, <2>6, <2>7, SingleFits, DecisionKept DEF IInv, TypeOK
<1>6. ASSUME NEW r \in Runners, AutoApprove(r) PROVE IInv'
  <2>1. PICK w \in Workflows : w = target[r]
    BY <1>6, <1>t DEF AutoApprove, IInv, Pending
  <2>2. /\ Decide(r, w, {"auto_approved"}, <<Set("execution", "keep")>>)
        /\ row' = row /\ loaded' = loaded /\ seen' = seen /\ target' = target
        /\ UNCHANGED <<policy, caught, lessons, calls, crashes>>
    BY <1>6, <2>1 DEF AutoApprove
  <2>3. Earned(w, "human_approval")
    BY <1>6, <1>t, <2>1 DEF AutoApprove, IInv, Pending
  <2>4. LogGrows /\ {"auto_approved"} \subseteq log'[w]
    BY <2>2, <1>t DEF Decide, TypeOK, LogGrows
  <2>5. Set("execution", "keep") \in Updates /\ {"auto_approved"} \in SUBSET Events
    BY DEF Set, Updates, Stages, Statuses, Terminal, Events
  <2>6. Fits(w, Set("execution", "keep"))'
    <3>1. Granting \cap log'[w] # {}
      BY <2>4 DEF Granting
    <3>2. Earned(w, "human_approval")'
      BY <2>3, <2>4, EarnedStays
    <3>3. Earned(w, "execution")'
      BY <3>1, <3>2 DEF Earned, Needs
    <3> QED
      BY <3>3 DEF Fits, Set
  <2>7. grants' \in [Workflows -> Nat]
    <3>1. grants' = [grants EXCEPT ![w] = grants[w] + 1]
      BY <1>6, <2>1 DEF AutoApprove
    <3> QED
      BY <1>t, <3>1 DEF TypeOK
  <2> QED
    BY <1>t, <2>1, <2>2, <2>5, <2>6, <2>7, SingleFits, DecisionKept DEF IInv, TypeOK
<1>7. ASSUME NEW r \in Runners, AskHuman(r) PROVE IInv'
  <2>1. PICK w \in Workflows : w = target[r]
    BY <1>7, <1>t DEF AskHuman, IInv, Pending
  <2>2. /\ Decide(r, w, {}, <<Set("keep", "waiting_approval")>>)
        /\ row' = row /\ loaded' = loaded /\ seen' = seen /\ target' = target
        /\ UNCHANGED <<policy, caught, lessons, calls, crashes>>
    BY <1>7, <2>1 DEF AskHuman
  <2>3. Earned(w, "human_approval")
    BY <1>7, <1>t, <2>1 DEF AskHuman, IInv, Pending
  <2>4. LogGrows /\ {} \subseteq log'[w]
    BY <2>2, <1>t DEF Decide, TypeOK, LogGrows
  <2>5. Set("keep", "waiting_approval") \in Updates /\ {} \in SUBSET Events
    BY DEF Set, Updates, Stages, Statuses, Terminal, Events
  <2>6. Fits(w, Set("keep", "waiting_approval"))'
    BY <2>3, <2>4, EarnedStays DEF Fits, Set
  <2>7. grants' \in [Workflows -> Nat]
    BY <1>7, <1>t DEF AskHuman, TypeOK
  <2> QED
    BY <1>t, <2>1, <2>2, <2>5, <2>6, <2>7, SingleFits, DecisionKept DEF IInv, TypeOK
<1>8. ASSUME NEW o \in Operators, NEW w \in Workflows, Approve(o, w) PROVE IInv'
  <2>2. /\ Decide(o, w, {"approved"}, <<Set("execution", "running")>>)
        /\ row' = row /\ loaded' = loaded /\ seen' = seen
        /\ target' = [target EXCEPT ![o] = w]
        /\ UNCHANGED <<policy, caught, lessons, crashes>>
    BY <1>8 DEF Approve
  <2>4. LogGrows /\ {"approved"} \subseteq log'[w]
    BY <2>2, <1>t DEF Decide, TypeOK, LogGrows
  <2>5. Set("execution", "running") \in Updates /\ {"approved"} \in SUBSET Events
    BY DEF Set, Updates, Stages, Statuses, Terminal, Events
  <2>6. Fits(w, Set("execution", "running"))'
    <3>1. Granting \cap log'[w] # {}
      BY <2>4 DEF Granting
    <3>2. Earned(w, "human_approval")
      BY <1>8 DEF Approve, IInv, Backed
    <3>3. Earned(w, "human_approval")'
      BY <3>2, <2>4, EarnedStays
    <3>4. Earned(w, "execution")'
      BY <3>1, <3>3 DEF Earned, Needs
    <3> QED
      BY <3>4 DEF Fits, Set
  <2>7. grants' \in [Workflows -> Nat] /\ calls' \in 0..MaxCalls
    BY <1>8, <1>t, WorkflowAssumption DEF Approve, TypeOK
  <2> QED
    BY <1>t, <2>2, <2>5, <2>6, <2>7, SingleFits, DecisionKept DEF IInv, TypeOK
<1>9. ASSUME NEW o \in Operators, NEW w \in Workflows, Reject(o, w) PROVE IInv'
  <2>2. /\ Decide(o, w, {"rejected"}, <<Set("keep", "cancelled")>>)
        /\ row' = row /\ loaded' = loaded /\ seen' = seen
        /\ target' = [target EXCEPT ![o] = w]
        /\ UNCHANGED <<policy, caught, lessons, crashes>>
    BY <1>9 DEF Reject
  <2>4. LogGrows /\ {"rejected"} \subseteq log'[w]
    BY <2>2, <1>t DEF Decide, TypeOK, LogGrows
  <2>5. Set("keep", "cancelled") \in Updates /\ {"rejected"} \in SUBSET Events
    BY DEF Set, Updates, Stages, Statuses, Terminal, Events
  <2>6. Fits(w, Set("keep", "cancelled"))'
    BY DEF Fits, Set
  <2>7. grants' \in [Workflows -> Nat] /\ calls' \in 0..MaxCalls
    BY <1>9, <1>t, WorkflowAssumption DEF Reject, TypeOK
  <2> QED
    BY <1>t, <2>2, <2>5, <2>6, <2>7, SingleFits, DecisionKept DEF IInv, TypeOK
<1>10. ASSUME NEW r \in Runners, MayExecute(r) PROVE IInv'
  <2>1. TypeOK'
    BY <1>10, <1>t DEF MayExecute, TypeOK
  <2>2. Pending(r)'
    BY <1>10, <1>t DEF MayExecute, IInv, Pending, TypeOK, Earned
  <2> QED
    BY <1>10, <1>t, <2>1, <2>2, OneThreadMoves DEF MayExecute, IInv, TypeOK, LogGrows
<1>11. ASSUME NEW r \in Runners, Emitted(r) PROVE IInv'
  <2>1. TypeOK'
    BY <1>11, <1>t DEF Emitted, TypeOK
  <2>2. Pending(r)'
    BY <1>11, <1>t DEF Emitted, Pending, TypeOK
  <2> QED
    BY <1>11, <1>t, <2>1, <2>2, OneThreadMoves DEF Emitted, IInv, TypeOK, LogGrows
<1>12. ASSUME NEW p \in Threads, ReadRow(p) PROVE IInv'
  <2>1. target[p] \in Workflows
    BY <1>12 DEF ReadRow, IInv, Pending
  <2>2. TypeOK'
    BY <1>12, <1>t, <2>1 DEF ReadRow, TypeOK
  <2>3. Pending(p)'
    <3>1. Backed(target[p], row[target[p]])
      BY <2>1 DEF IInv
    <3> QED
      BY <1>12, <1>t, <2>1, <3>1 DEF ReadRow, IInv, Pending, TypeOK, Backed, Fits, Earned
  <2> QED
    BY <1>12, <1>t, <2>2, <2>3, OneThreadMoves DEF ReadRow, IInv, TypeOK, LogGrows
<1>13. ASSUME NEW p \in Threads, WriteRow(p) PROVE IInv'
  BY <1>13, WriteKept
<1>14. ASSUME NEW r \in Runners, Raise(r) PROVE IInv'
  <2>1. Set("keep", "failed") \in Updates
    BY DEF Set, Updates, Statuses, Terminal
  <2>2. TypeOK'
    BY <1>14, <1>t, <2>1 DEF Raise, TypeOK
  <2>3. Fits(target[r], Set("keep", "failed"))'
    BY DEF Fits, Set
  <2>4. at'[r] = "read" /\ todo'[r] = <<Set("keep", "failed")>> /\ target'[r] = target[r]
    BY <1>14, <1>t DEF Raise, TypeOK
  <2>5. Pending(r)'
    <3>1. target'[r] \in Workflows
      BY <1>14, <1>t, <2>4 DEF Raise, IInv, Pending
    <3>2. todo'[r] # << >> /\ \A i \in 1..Len(todo'[r]) : todo'[r][i] = Set("keep", "failed")
      BY <2>4
    <3>3. (\A i \in 1..Len(todo[r]) : Fits(target[r], todo[r][i]))'
      BY <3>2 DEF Fits, Set
    <3> QED
      BY <2>4, <3>1, <3>2, <3>3 DEF Pending
  <2> QED
    BY <1>14, <1>t, <2>2, <2>5, OneThreadMoves DEF Raise, IInv, TypeOK, LogGrows
<1>15. ASSUME NEW p \in Threads, Crash(p) PROVE IInv'
  <2>1. TypeOK'
    BY <1>15, <1>t, WorkflowAssumption DEF Crash, TypeOK
  <2>2. Pending(p)'
    BY <1>15, <1>t DEF Crash, Pending, TypeOK
  <2> QED
    BY <1>15, <1>t, <2>1, <2>2, OneThreadMoves DEF Crash, IInv, TypeOK, LogGrows
<1>16. ASSUME UNCHANGED vars PROVE IInv'
  <2>1. TypeOK'
    BY <1>16, <1>t DEF vars, TypeOK
  <2>2. (\A v \in Workflows : Backed(v, row[v]))' /\ \A q \in Threads : Pending(q)'
    BY <1>16, <1>t, OthersKept, RowsKept DEF vars, IInv, LogGrows
  <2> QED
    BY <2>1, <2>2 DEF IInv
<1> QED
  <2>1. ASSUME NEW r \in Runners, Work(r) PROVE IInv'
    BY <2>1, <1>t, <1>4, <1>5, <1>6, <1>7, <1>10, <1>11, <1>12, <1>13 DEF Work
  <2> QED
    BY <1>t, <1>1, <1>2, <1>3, <2>1, <1>8, <1>9, <1>12, <1>13, <1>14, <1>15, <1>16 DEF Next

THEOREM WorkflowInvariant == Spec => []IInv
<1> QED
  BY InitIInv, NextIInv, PTL DEF Spec

\* Every variable keeps its type, whatever threads interleave or die.
THEOREM WorkflowTypeCorrect == Spec => []TypeOK
<1>1. IInv => TypeOK
  BY DEF IInv
<1> QED
  BY <1>1, WorkflowInvariant, PTL

\* No interleaving of scheduler loops and operators, crash or resumption
\* makes a workflow skip a stage or execute without an approval.
THEOREM StagesAreEarned == Spec => []StageWasEarned
<1>1. IInv => StageWasEarned
  BY DEF IInv, Backed, StageWasEarned
<1> QED
  BY <1>1, WorkflowInvariant, PTL

-----------------------------------------------------------------------------
(* No run is learned twice.                                                *)

\* The row leads to a record in the memory store.
Live(r) == r.status = "running" /\ r.stage \in {"execution", "learning"}

\* The approvals of w that are granted and not in the row yet.
Approves(o, w) == at[o] \in {"read", "write"} /\ target[o] = w /\ todo[o] = <<Set("execution", "running")>>
Approving(w)   == {o \in Operators : Approves(o, w)}

\* The loop is about to learn a run of w, or to make the row lead there.
Carries(r, w) ==
    /\ target[r] = w
    /\ \/ at[r] = "stage" /\ loaded[r] \in {"execution", "learning"}
       \/ at[r] \in {"read", "write"} /\ Head(todo[r]).stage \in {"execution", "learning"}
       \/ at[r] = "write" /\ Live(Merged(Head(todo[r]), seen[r]))

\* The loop has learned the run and is about to say so in the row.
HasLearned(r, w) == target[r] = w /\ at[r] \in {"read", "write"} /\ loaded[r] = "learning"

\* Another record is due, unless somebody dies.
Due(w) == /\ \A r \in Runners : ~HasLearned(r, w)
          /\ Live(row[w]) \/ \E r \in Runners : Carries(r, w)

\* What the calls of a thread can be made of.
Shaped(p) ==
    /\ p \in Operators /\ at[p] # "idle" =>
          /\ at[p] \in {"read", "write"}
          /\ todo[p] \in {<<Set("execution", "running")>>, <<Set("keep", "cancelled")>>}
    /\ p \in Runners /\ at[p] \in {"read", "write"} =>
          /\ todo[p] # << >>
          /\ \A i \in 2..Len(todo[p]) : todo[p][i].stage \notin {"execution", "learning"}
          /\ \A i \in 1..Len(todo[p]) : todo[p][i].status # "running"
          /\ loaded[p] = "learning" => todo[p] \in {<<Set("memory_update", "keep")>>, <<Set("keep", "failed")>>}

\* Records, approvals on their way and the record that is due are all paid for.
Paid(w) == /\ IsFiniteSet(Approving(w))
           /\ lessons[w] + Cardinality(Approving(w)) + (IF Due(w) THEN 1 ELSE 0) <= grants[w] + crashes

Tally == (\A p \in Threads : Shaped(p)) /\ (\A w \in Workflows : Paid(w))

\* What p is doing is all that changes of the threads.
OnlyMoves(p) ==
    \A q \in Threads \ {p} : /\ at'[q] = at[q] /\ target'[q] = target[q] /\ loaded'[q] = loaded[q]
                             /\ todo'[q] = todo[q] /\ seen'[q] = seen[q]

\* The ways a step can change the account of a workflow and leave it balanced.
LEMMA Balance ==
    ASSUME TypeOK, TypeOK', NEW w \in Workflows, Paid(w),
           \/ /\ Approving(w)' \subseteq Approving(w) /\ (Due(w)' => Due(w))
              /\ lessons'[w] = lessons[w] /\ grants'[w] + crashes' >= grants[w] + crashes
           \/ \E o : /\ Approving(w)' = Approving(w) \cup {o} /\ (Due(w)' => Due(w))
                     /\ lessons'[w] = lessons[w] /\ grants'[w] + crashes' = grants[w] + crashes + 1
           \/ \E o \in Approving(w) : /\ Approving(w)' = Approving(w) \ {o} /\ lessons'[w] = lessons[w]
                                      /\ grants'[w] + crashes' = grants[w] + crashes
           \/ /\ Approving(w)' = Approving(w) /\ lessons'[w] = lessons[w]
              /\ grants'[w] + crashes' = grants[w] + crashes + 1
           \/ /\ Approving(w)' = Approving(w) /\ Due(w) /\ ~Due(w)' /\ lessons'[w] = lessons[w] + 1
              /\ grants'[w] + crashes' = grants[w] + crashes
    PROVE  Paid(w)'
<1> DEFINE A == Approving(w)
           B == Approving(w)'
           d == IF Due(w) THEN 1 ELSE 0
           e == IF Due(w)' THEN 1 ELSE 0
           g == grants[w] + crashes
           h == grants'[w] + crashes'
<1>1. /\ lessons[w] \in Nat /\ lessons'[w] \in Nat /\ g \in Nat /\ h \in Nat
      /\ d \in 0..1 /\ e \in 0..1 /\ (Due(w)' => e = 1) /\ (~Due(w)' => e = 0)
      /\ (Due(w) => d = 1) /\ (~Due(w) => d = 0)
  BY WorkflowAssumption DEF TypeOK
<1>2. IsFiniteSet(A) /\ lessons[w] + Cardinality(A) + d <= g
  BY DEF Paid
<1>3. Cardinality(A) \in Nat
  BY <1>2, FS_CardinalityType
<1>4. SUFFICES IsFiniteSet(B) /\ lessons'[w] + Cardinality(B) + e <= h
  BY DEF Paid
<1> HIDE DEF A, B, d, e, g, h
<1>5. CASE B \subseteq A /\ (Due(w)' => Due(w)) /\ lessons'[w] = lessons[w] /\ h >= g
  <2>1. IsFiniteSet(B) /\ Cardinality(B) <= Cardinality(A)
    BY <1>2, <1>5, FS_Subset
  <2>2. Cardinality(B) \in Nat
    BY <2>1, FS_CardinalityType
  <2> QED BY <1>1, <1>2, <1>3, <1>5, <2>1, <2>2
<1>6. ASSUME NEW o, B = A \cup {o}, Due(w)' => Due(w), lessons'[w] = lessons[w], h = g + 1
      PROVE  IsFiniteSet(B) /\ lessons'[w] + Cardinality(B) + e <= h
  <2>1. IsFiniteSet(B) /\ (Cardinality(B) = Cardinality(A) \/ Cardinality(B) = Cardinality(A) + 1)
    BY <1>2, <1>6, FS_AddElement
  <2> QED BY <1>1, <1>2, <1>3, <1>6, <2>1
<1>7. ASSUME NEW o \in A, B = A \ {o}, lessons'[w] = lessons[w], h = g
      PROVE  IsFiniteSet(B) /\ lessons'[w] + Cardinality(B) + e <= h
  <2>1. IsFiniteSet(B) /\ Cardinality(B) = Cardinality(A) - 1
    BY <1>2, <1>7, FS_RemoveElement
  <2> QED BY <1>1, <1>2, <1>3, <1>7, <2>1
<1>8. CASE B = A /\ lessons'[w] = lessons[w] /\ h = g + 1
  BY <1>1, <1>2, <1>3, <1>8
<1>9. CASE B = A /\ Due(w) /\ ~Due(w)' /\ lessons'[w] = lessons[w] + 1 /\ h = g
  BY <1>1, <1>2, <1>3, <1>9
<1> QED BY <1>5, <1>6, <1>7, <1>8, <1>9 DEF A, B, g, h

\* With a single loop, only its own work counts.
LEMMA DueOfOne ==
    ASSUME \A r, s \in Runners : r = s, NEW r \in Runners, NEW w
    PROVE  /\ Due(w) <=> ~HasLearned(r, w) /\ (Live(row[w]) \/ Carries(r, w))
           /\ Due(w)' <=> ~HasLearned(r, w)' /\ (Live(row[w])' \/ Carries(r, w)')
BY DEF Due

\* A step of the loop leaves the approvals on their way alone.
LEMMA LoopAside ==
    ASSUME NEW r \in Runners, OnlyMoves(r), NEW w
    PROVE  Approving(w)' = Approving(w)
BY WorkflowAssumption DEF OnlyMoves, Approving, Approves, Threads

\* A step of an operator leaves the loop alone.
LEMMA OperatorAside ==
    ASSUME NEW o \in Operators, OnlyMoves(o), NEW w, Live(row[w])' => Live(row[w])
    PROVE  Due(w)' => Due(w)
<1>1. ASSUME NEW r \in Runners
      PROVE  (HasLearned(r, w)' <=> HasLearned(r, w)) /\ (Carries(r, w)' <=> Carries(r, w))
  <2>1. r \in Threads \ {o}
    BY WorkflowAssumption DEF Threads
  <2> QED BY <2>1 DEF OnlyMoves, HasLearned, Carries
<1> QED BY <1>1 DEF Due

\* One call, and two in a row.
LEMMA OneCall ==
    ASSUME NEW u \in Updates
    PROVE  <<u>> \in Seq(Updates) /\ <<u>> # << >> /\ Head(<<u>>) = u /\ (\A i \in 2..Len(<<u>>) : FALSE)
           /\ \A i \in 1..Len(<<u>>) : <<u>>[i] = u
<1>1. Len(<<u>>) = 1 /\ <<u>>[1] = u
  OBVIOUS
<1>2. \A i \in 1..1 : i = 1
  OBVIOUS
<1> QED BY <1>1, <1>2

LEMMA TwoCalls ==
    ASSUME NEW u \in Updates, NEW v \in Updates
    PROVE  <<u, v>> \in Seq(Updates) /\ <<u, v>> # << >> /\ Head(<<u, v>>) = u
           /\ (\A i \in 2..Len(<<u, v>>) : <<u, v>>[i] = v)
           /\ \A i \in 1..Len(<<u, v>>) : <<u, v>>[i] \in {u, v}
<1>1. Len(<<u, v>>) = 2 /\ <<u, v>>[1] = u /\ <<u, v>>[2] = v
  OBVIOUS
<1>2. (\A i \in 2..2 : i = 2) /\ (\A i \in 1..2 : i = 1 \/ i = 2)
  OBVIOUS
<1> QED BY <1>1, <1>2

\* Of all outcomes of a stage only an execution leads on to a lesson.
LEMMA OutcomeShape ==
    ASSUME NEW s \in Stages, NEW o \in Outcomes(s)
    PROVE  /\ o.updates # << >> /\ o.updates \in Seq(Updates)
           /\ \A i \in 2..Len(o.updates) : o.updates[i].stage \notin {"execution", "learning"}
           /\ \A i \in 1..Len(o.updates) : o.updates[i].status # "running"
           /\ s = "learning" => o.updates = <<Set("memory_update", "keep")>>
           /\ Head(o.updates).stage \in {"execution", "learning"} => s = "execution"
<1>1. \A x \in Stages \cup {"keep"}, y \in Statuses \cup {"keep"} : Set(x, y) \in Updates
  BY DEF Set, Updates
<1>2. \A x, y : Set(x, y).stage = x /\ Set(x, y).status = y
  BY DEF Set
<1>3. ASSUME NEW u \in Updates, o.updates = <<u>>, u.status # "running",
             s = "learning" => u = Set("memory_update", "keep"),
             u.stage \in {"execution", "learning"} => s = "execution"
      PROVE  /\ o.updates # << >> /\ o.updates \in Seq(Updates)
             /\ \A i \in 2..Len(o.updates) : o.updates[i].stage \notin {"execution", "learning"}
             /\ \A i \in 1..Len(o.updates) : o.updates[i].status # "running"
             /\ s = "learning" => o.updates = <<Set("memory_update", "keep")>>
             /\ Head(o.updates).stage \in {"execution", "learning"} => s = "execution"
  BY <1>3, OneCall
<1>4. ASSUME s = "research",
             NEW u \in {Set("research", "completed"), Set("keep", "failed")},
             o.updates = <<Set("keep", "keep"), u>>
      PROVE  /\ o.updates # << >> /\ o.updates \in Seq(Updates)
             /\ \A i \in 2..Len(o.updates) : o.updates[i].stage \notin {"execution", "learning"}
             /\ \A i \in 1..Len(o.updates) : o.updates[i].status # "running"
           /\ \A i \in 1..Len(o.updates) : o.updates[i].status # "running"
             /\ Head(o.updates).stage \notin {"execution", "learning"}
  <2>1. Set("keep", "keep") \in Updates /\ u \in Updates
    BY <1>1 DEF Stages, Statuses, Terminal
  <2>2. /\ Set("keep", "keep").stage = "keep" /\ u.stage \in {"research", "keep"}
        /\ Set("keep", "keep").status # "running" /\ u.status # "running"
    BY <1>2
  <2> QED BY <1>4, <2>1, <2>2, TwoCalls
<1>5. CASE s = "market_data"
  <2>1. o.updates = <<Set("research", "keep")>> \/ o.updates = <<Set("keep", "failed")>>
    BY <1>5 DEF Outcomes, Outcome
  <2>2. Set("research", "keep") \in Updates /\ Set("keep", "failed") \in Updates
    BY <1>1 DEF Stages, Statuses, Terminal
  <2> QED BY <1>2, <1>3, <1>5, <2>1, <2>2
<1>6. CASE s = "research"
  <2>1. \/ \E u \in {Set("research", "completed"), Set("keep", "failed")} : o.updates = <<Set("keep", "keep"), u>>
        \/ o.updates = <<Set("human_approval", "keep")>>
    BY <1>6 DEF Outcomes, Outcome
  <2>2. Set("human_approval", "keep") \in Updates
    BY <1>1 DEF Stages
  <2>3. CASE o.updates = <<Set("human_approval", "keep")>>
    BY <1>2, <1>3, <1>6, <2>2, <2>3
  <2> QED BY <1>4, <1>6, <2>1, <2>3
<1>7. CASE s = "execution"
  <2>1. o.updates = <<Set("learning", "keep")>> /\ Set("learning", "keep") \in Updates
    BY <1>1, <1>7 DEF Outcomes, Outcome, Stages
  <2> QED BY <1>2, <1>3, <1>7, <2>1
<1>8. CASE s = "learning"
  <2>1. o.updates = <<Set("memory_update", "keep")>> /\ Set("memory_update", "keep") \in Updates
    BY <1>1, <1>8 DEF Outcomes, Outcome, Stages
  <2> QED BY <1>2, <1>3, <1>8, <2>1
<1>9. CASE s \notin {"market_data", "research", "execution", "learning"}
  <2>1. o.updates = <<Set("memory_update", "completed")>> /\ Set("memory_update", "completed") \in Updates
    BY <1>1, <1>9 DEF Outcomes, Outcome, Stages, Statuses, Terminal
  <2> QED BY <1>2, <1>3, <1>9, <2>1
<1> QED BY <1>5, <1>6, <1>7, <1>8, <1>9

\* A thread that only forgets, or is not touched, keeps the shape of its calls.
LEMMA ShapeKept ==
    ASSUME NEW p \in Threads, \A q \in Threads : Shaped(q), OnlyMoves(p), Shaped(p)'
    PROVE  \A q \in Threads : Shaped(q)'
<1>1. ASSUME NEW q \in Threads \ {p} PROVE Shaped(q)'
  BY DEF OnlyMoves, Shaped
<1> QED BY <1>1

LEMMA ShapeStep == IInv /\ (\A p \in Threads : Shaped(p)) /\ [Next]_vars => \A p \in Threads : Shaped(p)'
<1> SUFFICES ASSUME IInv, \A p \in Threads : Shaped(p), [Next]_vars PROVE \A p \in Threads : Shaped(p)'
  OBVIOUS
<1>t. /\ TypeOK /\ Runners \subseteq Threads /\ Operators \subseteq Threads
      /\ \A r \in Runners : r \notin Operators
  BY WorkflowAssumption DEF IInv, Threads
<1>1. CASE UNCHANGED <<at, target, loaded, todo, seen>>
  BY <1>1 DEF Shaped
<1>2. ASSUME NEW r \in Runners, OnlyMoves(r), at'[r] \notin {"read", "write"} PROVE \A p \in Threads : Shaped(p)'
  BY <1>2, <1>t, ShapeKept DEF Shaped
<1>3. ASSUME NEW r \in Runners, NEW w \in Workflows, Advance(r, w) PROVE \A p \in Threads : Shaped(p)'
  <2>1. OnlyMoves(r) /\ at'[r] = "stage"
    BY <1>3, <1>t DEF Advance, OnlyMoves, TypeOK
  <2> QED BY <1>2, <2>1
<1>4. ASSUME NEW r \in Runners, RunStage(r) PROVE \A p \in Threads : Shaped(p)'
  <2>1. PICK o \in Outcomes(loaded[r]) : Decide(r, target[r], o.event, o.updates)
    BY <1>4 DEF RunStage
  <2>2. loaded[r] \in Stages
    BY <1>t DEF TypeOK
  <2>3. OnlyMoves(r) /\ todo'[r] = o.updates /\ loaded'[r] = loaded[r]
    BY <1>4, <1>t, <2>1 DEF RunStage, Decide, OnlyMoves, TypeOK
  <2>4. Shaped(r)'
    BY ZenonT(30), <1>t, <2>2, <2>3, OutcomeShape DEF Shaped
  <2> QED BY <1>t, <2>3, <2>4, ShapeKept
<1>5. ASSUME NEW r \in Runners, NEW u \in Updates, NEW e, u.status # "running", at[r] \in {"stage", "auto"},
             loaded[r] = "human_approval",
             Decide(r, target[r], e, <<u>>), UNCHANGED <<target, loaded, seen>>
      PROVE  \A p \in Threads : Shaped(p)'
  <2>1. OnlyMoves(r) /\ todo'[r] = <<u>> /\ loaded'[r] = "human_approval"
    BY <1>5, <1>t DEF Decide, OnlyMoves, TypeOK
  <2>2. /\ todo'[r] # << >> /\ (\A i \in 2..Len(todo'[r]) : todo'[r][i].stage \notin {"execution", "learning"})
        /\ \A i \in 1..Len(todo'[r]) : todo'[r][i].status # "running"
    BY <1>5, <2>1, OneCall
  <2>3. Shaped(r)'
    BY <1>t, <2>1, <2>2 DEF Shaped
  <2> QED BY <1>t, <2>1, <2>3, ShapeKept
<1>6. ASSUME NEW r \in Runners, ObserveOnly(r) \/ AutoApprove(r) \/ AskHuman(r) PROVE \A p \in Threads : Shaped(p)'
  <2>1. /\ Set("human_approval", "completed") \in Updates /\ Set("execution", "keep") \in Updates
        /\ Set("keep", "waiting_approval") \in Updates
        /\ \A x, y : Set(x, y).status = y
    BY DEF Set, Updates, Stages, Statuses, Terminal
  <2>2. at[r] = "auto" => loaded[r] = "human_approval"
    BY <1>t DEF IInv, Pending
  <2> QED BY <1>5, <1>6, <2>1, <2>2 DEF ObserveOnly, AutoApprove, AskHuman
<1>7. ASSUME NEW r \in Runners, MayExecute(r) \/ Emitted(r) PROVE \A p \in Threads : Shaped(p)'
  <2>1. OnlyMoves(r) /\ at'[r] \in {"auto", "idle"}
    BY <1>7, <1>t DEF MayExecute, Emitted, OnlyMoves, TypeOK
  <2> QED BY <1>2, <2>1
<1>8. ASSUME NEW o \in Operators, NEW w \in Workflows, Approve(o, w) \/ Reject(o, w) PROVE \A p \in Threads : Shaped(p)'
  <2>1. OnlyMoves(o)
    BY <1>8, <1>t DEF Approve, Reject, Decide, OnlyMoves, TypeOK
  <2>2. at'[o] = "read" /\ todo'[o] \in {<<Set("execution", "running")>>, <<Set("keep", "cancelled")>>}
    BY <1>8, <1>t DEF Approve, Reject, Decide, TypeOK
  <2>3. Shaped(o)'
    BY <1>t, <2>2 DEF Shaped
  <2> QED BY <1>t, <2>1, <2>3, ShapeKept
<1>9. ASSUME NEW p \in Threads, ReadRow(p) PROVE \A q \in Threads : Shaped(q)'
  <2>1. OnlyMoves(p)
    BY <1>9 DEF ReadRow, OnlyMoves, TypeOK
  <2>2. Shaped(p)'
    BY <1>9, <1>t DEF ReadRow, Shaped, TypeOK
  <2> QED BY <2>1, <2>2, ShapeKept
<1>10. ASSUME NEW p \in Threads, WriteRow(p) PROVE \A q \in Threads : Shaped(q)'
  <2>1. OnlyMoves(p) /\ todo'[p] = Tail(todo[p]) /\ loaded' = loaded
    BY <1>10, <1>t DEF WriteRow, OnlyMoves, TypeOK
  <2>2. todo[p] \in Seq(Updates) /\ todo[p] # << >> /\ at[p] = "write"
    BY <1>10, <1>t DEF WriteRow, IInv, Pending, TypeOK
  <2>3. at'[p] = IF Tail(todo[p]) # << >> THEN "read"
                 ELSE IF p \in Runners /\ Emits(Head(todo[p])) /\ ~caught[p] THEN "emit"
                 ELSE "idle"
    BY <1>10, <1>t DEF WriteRow, TypeOK
  <2>4. \A u : Tail(<<u>>) = << >>
    OBVIOUS
  <2>5. CASE p \in Operators
    <3>1. p \notin Runners /\ Tail(todo[p]) = << >>
      BY <1>t, <2>2, <2>4, <2>5 DEF Shaped
    <3>2. at'[p] = "idle"
      BY <2>3, <3>1
    <3> QED BY <2>1, <3>1, <3>2, ShapeKept DEF Shaped
  <2>6. CASE p \in Runners
    <3>1. CASE Tail(todo[p]) = << >>
      BY <1>2, <2>1, <2>3, <2>6, <3>1
    <3>2. CASE Tail(todo[p]) # << >>
      <4>1. loaded[p] # "learning"
        BY <2>2, <2>4, <2>6, <3>2 DEF Shaped
      <4>2. \A i \in 2..Len(Tail(todo[p])) : Tail(todo[p])[i].stage \notin {"execution", "learning"}
        <5>1. Len(todo[p]) \in Nat /\ Len(Tail(todo[p])) = Len(todo[p]) - 1
          BY <2>2, HeadTailProperties, LenProperties
        <5>2. \A i \in 1..Len(Tail(todo[p])) : i + 1 \in 1..Len(todo[p]) /\ Tail(todo[p])[i] = todo[p][i + 1]
          BY <2>2, <5>1, HeadTailProperties
        <5>3. \A i \in 2..Len(todo[p]) : todo[p][i].stage \notin {"execution", "learning"}
          BY <2>2, <2>6 DEF Shaped
        <5>4. ASSUME NEW i \in 2..Len(Tail(todo[p])) PROVE Tail(todo[p])[i].stage \notin {"execution", "learning"}
          <6>1. i \in 1..Len(Tail(todo[p])) /\ i + 1 \in 2..Len(todo[p])
            BY <5>1
          <6> QED BY <5>2, <5>3, <6>1
        <5> QED BY <5>4
      <4>3. \A i \in 1..Len(Tail(todo[p])) : Tail(todo[p])[i].status # "running"
        <5>1. Len(todo[p]) \in Nat /\ Len(Tail(todo[p])) = Len(todo[p]) - 1
          BY <2>2, HeadTailProperties, LenProperties
        <5>2. \A i \in 1..Len(Tail(todo[p])) : i + 1 \in 1..Len(todo[p]) /\ Tail(todo[p])[i] = todo[p][i + 1]
          BY <2>2, <5>1, HeadTailProperties
        <5>3. \A i \in 1..Len(todo[p]) : todo[p][i].status # "running"
          BY <2>2, <2>6 DEF Shaped
        <5> QED BY <5>2, <5>3
      <4>4. Shaped(p)'
        BY <1>t, <2>1, <2>6, <3>2, <4>1, <4>2, <4>3 DEF Shaped
      <4> QED BY <2>1, <4>4, ShapeKept
    <3> QED BY <3>1, <3>2
  <2> QED BY <2>5, <2>6 DEF Threads
<1>11. ASSUME NEW r \in Runners, Raise(r) PROVE \A p \in Threads : Shaped(p)'
  <2>1. OnlyMoves(r) /\ todo'[r] = <<Set("keep", "failed")>>
    BY <1>11, <1>t DEF Raise, OnlyMoves, TypeOK
  <2>2. Set("keep", "failed") \in Updates /\ Set("keep", "failed").status # "running"
    BY DEF Set, Updates, Statuses, Terminal
  <2>3. Shaped(r)'
    BY <1>t, <2>1, <2>2, OneCall DEF Shaped
  <2> QED BY <1>t, <2>1, <2>3, ShapeKept
<1>12. ASSUME NEW p \in Threads, Crash(p) PROVE \A q \in Threads : Shaped(q)'
  <2>1. OnlyMoves(p) /\ at'[p] = "idle"
    BY <1>12, <1>t DEF Crash, OnlyMoves, TypeOK
  <2>2. Shaped(p)'
    BY <2>1 DEF Shaped
  <2> QED BY <2>1, <2>2, ShapeKept
<1> QED
  BY <1>1, <1>3, <1>4, <1>6, <1>7, <1>8, <1>9, <1>10, <1>11, <1>12, <1>t
  DEF Next, Work, Start, SetPolicy, vars

\* A row written with one of the loop's calls leads to a lesson only if the row read did, or the
\* call says so.
LEMMA LiveMerge ==
    ASSUME NEW u, u.status # "running", NEW r, Live(Merged(u, r))
    PROVE  u.stage \in {"execution", "learning"} \/ (u.stage = "keep" /\ Live(r))
BY DEF Live, Merged

LEMMA PaidStep ==
    ASSUME \A r, s \in Runners : r = s
    PROVE  IInv /\ Tally /\ [Next]_vars => Tally'
<1> SUFFICES ASSUME IInv, Tally, [Next]_vars PROVE Tally'
  OBVIOUS
<1> SUFFICES ASSUME NEW w \in Workflows PROVE Paid(w)'
  BY ShapeStep DEF Tally
<1>t. /\ TypeOK /\ Runners \subseteq Threads /\ Operators \subseteq Threads /\ Paid(w)
      /\ (\A r \in Runners : r \notin Operators) /\ \A p \in Threads : Shaped(p) /\ Pending(p)
  BY WorkflowAssumption DEF IInv, Tally, Threads
<1>u. TypeOK'
  BY NextIInv DEF IInv
<1>1. ASSUME UNCHANGED <<at, target, loaded, todo, seen, lessons, grants, crashes>>, Live(row'[w]) => Live(row[w])
      PROVE  Paid(w)'
  <2>1. Approving(w)' = Approving(w)
    BY <1>1 DEF Approving, Approves
  <2>2. Due(w)' => Due(w)
    BY <1>1 DEF Due, HasLearned, Carries, Live
  <2>3. grants[w] + crashes \in Nat
    BY <1>t DEF TypeOK
  <2> QED BY <1>1, <1>t, <1>u, <2>1, <2>2, <2>3, Balance
<1>2. ASSUME NEW r \in Runners, OnlyMoves(r), UNCHANGED <<lessons, grants, crashes>>, Due(w)' => Due(w)
      PROVE  Paid(w)'
  <2>1. grants[w] + crashes \in Nat
    BY <1>t DEF TypeOK
  <2> QED BY <1>2, <1>t, <1>u, <2>1, LoopAside, Balance
<1>3. ASSUME NEW v \in Workflows, Start(v) PROVE Paid(w)'
  <2>1. Live(row'[w]) => Live(row[w])
    BY <1>3, <1>t DEF Start, Live, Set, TypeOK
  <2> QED BY <1>1, <1>3, <2>1 DEF Start
<1>4. ASSUME NEW r \in Runners, NEW v \in Workflows, Advance(r, v) PROVE Paid(w)'
  <2>1. OnlyMoves(r)
    BY <1>4, <1>t DEF Advance, OnlyMoves, TypeOK
  <2>2. /\ at'[r] = "stage" /\ target'[r] = v /\ loaded'[r] = row[v].stage /\ at[r] = "idle"
        /\ row' = row /\ row[v].status = "running"
    BY <1>4, <1>t DEF Advance, TypeOK
  <2>3. Due(w)' => Due(w)
    BY <2>2, DueOfOne DEF HasLearned, Carries, Live
  <2> QED BY <1>2, <1>4, <2>1, <2>3 DEF Advance
<1>5. ASSUME NEW r \in Runners, RunStage(r) PROVE Paid(w)'
  <2>1. PICK o \in Outcomes(loaded[r]) : Decide(r, target[r], o.event, o.updates)
    BY <1>5 DEF RunStage
  <2>2. /\ at[r] = "stage" /\ at'[r] = "read" /\ todo'[r] = o.updates /\ loaded'[r] = loaded[r] /\ row' = row
        /\ loaded[r] \in Stages /\ target' = target /\ UNCHANGED <<grants, crashes>>
    BY <1>5, <1>t, <2>1 DEF RunStage, Decide, TypeOK
  <2>3. OnlyMoves(r)
    BY <1>5, <1>t, <2>1 DEF RunStage, Decide, OnlyMoves, TypeOK
  <2>4. CASE loaded[r] = "learning" /\ target[r] = w
    <3>1. Due(w) /\ ~Due(w)'
      BY <2>2, <2>4, DueOfOne DEF HasLearned, Carries
    <3>2. lessons'[w] = lessons[w] + 1
      BY <1>5, <1>t, <2>4 DEF RunStage, TypeOK
    <3> QED BY <1>t, <1>u, <2>2, <2>3, <3>1, <3>2, LoopAside, Balance
  <2>5. CASE loaded[r] # "learning" \/ target[r] # w
    <3>1. Due(w)' => Due(w)
      BY <2>2, <2>5, OutcomeShape, DueOfOne DEF HasLearned, Carries, Live
    <3>2. lessons'[w] = lessons[w]
      BY <1>5, <1>t, <2>5 DEF RunStage, TypeOK
    <3>3. grants[w] + crashes \in Nat
      BY <1>t DEF TypeOK
    <3> QED BY <1>t, <1>u, <2>2, <2>3, <3>1, <3>2, <3>3, LoopAside, Balance
  <2> QED BY <2>4, <2>5
<1>6. ASSUME NEW r \in Runners, NEW u \in Updates, NEW e, at[r] \in {"stage", "auto"},
             loaded[r] = "human_approval", Decide(r, target[r], e, <<u>>),
             UNCHANGED <<row, target, loaded, seen>>
      PROVE  /\ OnlyMoves(r)
             /\ u.stage \notin {"execution", "learning"} \/ target[r] # w => (Due(w)' => Due(w))
  <2>1. OnlyMoves(r) /\ at'[r] = "read" /\ todo'[r] = <<u>>
    BY <1>6, <1>t DEF Decide, OnlyMoves, TypeOK
  <2> QED BY <1>6, <2>1, OneCall, DueOfOne DEF HasLearned, Carries, Live
<1>7. ASSUME NEW r \in Runners, ObserveOnly(r) \/ AskHuman(r) PROVE Paid(w)'
  <2>1. at[r] = "auto" => loaded[r] = "human_approval"
    BY <1>t DEF Pending
  <2>2. /\ Set("human_approval", "completed") \in Updates /\ Set("keep", "waiting_approval") \in Updates
        /\ \A x, y : Set(x, y).stage = x
    BY DEF Set, Updates, Stages, Statuses, Terminal
  <2>3. OnlyMoves(r) /\ (Due(w)' => Due(w))
    BY <1>6, <1>7, <2>1, <2>2 DEF ObserveOnly, AskHuman
  <2> QED BY <1>2, <1>7, <2>3 DEF ObserveOnly, AskHuman
<1>8. ASSUME NEW r \in Runners, AutoApprove(r) PROVE Paid(w)'
  <2>1. at[r] = "auto" /\ loaded[r] = "human_approval" /\ UNCHANGED <<lessons, crashes>>
    BY <1>8, <1>t DEF AutoApprove, Pending
  <2>2. Set("execution", "keep") \in Updates
    BY DEF Set, Updates, Stages, Statuses, Terminal
  <2>3. OnlyMoves(r) /\ (target[r] # w => (Due(w)' => Due(w)))
    BY <1>6, <1>8, <2>1, <2>2 DEF AutoApprove
  <2>4. grants'[w] = IF target[r] = w THEN grants[w] + 1 ELSE grants[w]
    BY <1>8, <1>t DEF AutoApprove, TypeOK
  <2>5. grants[w] \in Nat /\ crashes \in Nat
    BY <1>t DEF TypeOK
  <2>6. CASE target[r] = w
    <3>1. grants'[w] + crashes' = grants[w] + crashes + 1
      BY <2>1, <2>4, <2>5, <2>6
    <3> QED BY <1>t, <1>u, <2>1, <2>3, <3>1, LoopAside, Balance
  <2>7. CASE target[r] # w
    <3>1. grants'[w] + crashes' >= grants[w] + crashes
      BY <2>1, <2>4, <2>5, <2>7
    <3> QED BY <1>t, <1>u, <2>1, <2>3, <2>7, <3>1, LoopAside, Balance
  <2> QED BY <2>6, <2>7
<1>9. ASSUME NEW r \in Runners, MayExecute(r) \/ Emitted(r) PROVE Paid(w)'
  <2>1. OnlyMoves(r) /\ at'[r] \in {"auto", "idle"} /\ at[r] \in {"stage", "emit"} /\ row' = row
    BY <1>9, <1>t DEF MayExecute, Emitted, OnlyMoves, TypeOK
  <2>2. Due(w)' => Due(w)
    BY <2>1, DueOfOne DEF HasLearned, Carries, Live
  <2> QED BY <1>2, <1>9, <2>1, <2>2 DEF MayExecute, Emitted
<1>10. ASSUME NEW o \in Operators, NEW v \in Workflows, Approve(o, v) PROVE Paid(w)'
  <2>1. OnlyMoves(o) /\ at[o] = "idle" /\ row' = row /\ UNCHANGED <<lessons, crashes>>
    BY <1>10, <1>t DEF Approve, Decide, OnlyMoves, TypeOK
  <2>2. at'[o] = "read" /\ target'[o] = v /\ todo'[o] = <<Set("execution", "running")>>
    BY <1>10, <1>t DEF Approve, Decide, TypeOK
  <2>3. Due(w)' => Due(w)
    BY <2>1, OperatorAside
  <2>4. grants'[w] = IF v = w THEN grants[w] + 1 ELSE grants[w]
    BY <1>10, <1>t DEF Approve, TypeOK
  <2>5. Approving(w)' = IF v = w THEN Approving(w) \cup {o} ELSE Approving(w)
    BY <1>t, <2>1, <2>2 DEF OnlyMoves, Approving, Approves
  <2>6. grants[w] \in Nat /\ crashes \in Nat
    BY <1>t DEF TypeOK
  <2>7. CASE v = w
    <3>1. grants'[w] + crashes' = grants[w] + crashes + 1
      BY <2>1, <2>4, <2>6, <2>7
    <3> QED BY <1>t, <1>u, <2>1, <2>3, <2>5, <2>7, <3>1, Balance
  <2>8. CASE v # w
    <3>1. grants'[w] + crashes' >= grants[w] + crashes
      BY <2>1, <2>4, <2>6, <2>8
    <3> QED BY <1>t, <1>u, <2>1, <2>3, <2>5, <2>8, <3>1, Balance
  <2> QED BY <2>7, <2>8
<1>11. ASSUME NEW o \in Operators, OnlyMoves(o), UNCHANGED <<lessons, grants>>, crashes' >= crashes,
              Live(row'[w]) => Live(row[w]), Approves(o, w)' => Approves(o, w)
       PROVE  Paid(w)'
  <2>1. Due(w)' => Due(w)
    BY <1>11, OperatorAside DEF Live
  <2>2. Approving(w)' \subseteq Approving(w)
    BY <1>11, <1>t DEF OnlyMoves, Approving, Approves
  <2>3. grants'[w] + crashes' >= grants[w] + crashes
    BY <1>11, <1>t, <1>u DEF TypeOK
  <2> QED BY <1>11, <1>t, <1>u, <2>1, <2>2, <2>3, Balance
<1>12. ASSUME NEW o \in Operators, NEW v \in Workflows, Reject(o, v) PROVE Paid(w)'
  <2>1. OnlyMoves(o) /\ row' = row /\ UNCHANGED <<lessons, grants, crashes>>
    BY <1>12, <1>t DEF Reject, Decide, OnlyMoves, TypeOK
  <2>2. todo'[o] = <<Set("keep", "cancelled")>> /\ crashes \in Nat
    BY <1>12, <1>t DEF Reject, Decide, TypeOK
  <2>3. <<Set("keep", "cancelled")>> # <<Set("execution", "running")>>
    BY DEF Set
  <2> QED BY <1>11, <2>1, <2>2, <2>3 DEF Approves
<1>13. ASSUME NEW o \in Operators, ReadRow(o) PROVE Paid(w)'
  <2>1. OnlyMoves(o) /\ row' = row /\ UNCHANGED <<lessons, grants, crashes>>
    BY <1>13, <1>t DEF ReadRow, OnlyMoves, TypeOK
  <2>2. (Approves(o, w)' => Approves(o, w)) /\ crashes \in Nat
    BY <1>13, <1>t DEF ReadRow, Approves, TypeOK
  <2> QED BY <1>11, <2>1, <2>2
<1>14. ASSUME NEW r \in Runners, ReadRow(r) PROVE Paid(w)'
  <2>1. OnlyMoves(r) /\ row' = row
    BY <1>14, <1>t DEF ReadRow, OnlyMoves, TypeOK
  <2>2. /\ at[r] = "read" /\ at'[r] = "write" /\ seen'[r] = row[target[r]]
        /\ todo' = todo /\ target' = target /\ loaded' = loaded
    BY <1>14, <1>t DEF ReadRow, TypeOK
  <2>3. Head(todo[r]).status # "running"
    <3>1. todo[r] \in Seq(Updates) /\ todo[r] # << >> /\ \A i \in 1..Len(todo[r]) : todo[r][i].status # "running"
      BY <1>t, <2>2 DEF Shaped, TypeOK
    <3>2. Head(todo[r]) = todo[r][1] /\ 1 \in 1..Len(todo[r])
      BY <3>1
    <3> QED BY <3>1, <3>2
  <2>4. Due(w)' => Due(w)
    <3>1. Carries(r, w)' => Carries(r, w) \/ Live(row[w])
      BY <2>2, <2>3, LiveMerge DEF Carries, Live, Merged
    <3>2. HasLearned(r, w)' <=> HasLearned(r, w)
      BY <2>2 DEF HasLearned
    <3> QED BY <2>1, <3>1, <3>2, DueOfOne DEF Live
  <2> QED BY <1>2, <1>14, <2>1, <2>4 DEF ReadRow
<1>15. ASSUME NEW o \in Operators, WriteRow(o) PROVE Paid(w)'
  <2>1. OnlyMoves(o) /\ UNCHANGED <<lessons, grants, crashes>> /\ at[o] = "write" /\ target[o] \in Workflows
    BY <1>15, <1>t DEF WriteRow, OnlyMoves, TypeOK, Pending
  <2>2. \A v \in Workflows : row'[v] = IF v = target[o] THEN Merged(Head(todo[o]), seen[o]) ELSE row[v]
    BY <1>15, <1>t, <2>1 DEF WriteRow, TypeOK
  <2>3. todo'[o] = Tail(todo[o]) /\ Tail(<<Set("execution", "running")>>) = << >>
        /\ Tail(<<Set("keep", "cancelled")>>) = << >>
    BY <1>15, <1>t DEF WriteRow, TypeOK
  <2>4. ~Approves(o, w)'
    <3>1. todo'[o] = << >> /\ << >> # <<Set("execution", "running")>>
      BY <1>t, <2>1, <2>3 DEF Shaped
    <3> QED BY <3>1 DEF Approves
  <2>5. CASE ~Approves(o, w)
    <3>1. todo[o] = <<Set("keep", "cancelled")>> \/ target[o] # w
      BY <1>t, <2>1, <2>5 DEF Shaped, Approves
    <3>2. ~Live(Merged(Head(<<Set("keep", "cancelled")>>), seen[o]))
      BY DEF Live, Merged, Set
    <3>3. Live(row'[w]) => Live(row[w])
      BY <2>2, <3>1, <3>2
    <3>4. crashes \in Nat
      BY <1>t DEF TypeOK
    <3> QED BY <1>11, <2>1, <2>4, <3>3, <3>4
  <2>6. CASE Approves(o, w)
    <3>1. o \in Approving(w) /\ Approving(w)' = Approving(w) \ {o}
      BY <1>t, <2>1, <2>4, <2>6 DEF OnlyMoves, Approving, Approves
    <3> QED BY <1>t, <1>u, <2>1, <3>1, Balance
  <2> QED BY <2>5, <2>6
<1>16. ASSUME NEW r \in Runners, WriteRow(r) PROVE Paid(w)'
  <2>1. OnlyMoves(r) /\ at[r] = "write" /\ target[r] \in Workflows
        /\ UNCHANGED <<lessons, grants, crashes, loaded, target>>
    BY <1>16, <1>t DEF WriteRow, OnlyMoves, TypeOK, Pending
  <2>2. \A v \in Workflows : row'[v] = IF v = target[r] THEN Merged(Head(todo[r]), seen[r]) ELSE row[v]
    BY <1>16, <1>t, <2>1 DEF WriteRow, TypeOK
  <2>3. /\ todo'[r] = Tail(todo[r]) /\ at'[r] \in {"read", "emit", "idle"}
        /\ at'[r] = "read" => Tail(todo[r]) # << >>
    BY <1>16, <1>t DEF WriteRow, TypeOK
  <2>4. todo[r] \in Seq(Updates) /\ todo[r] # << >>
    BY <1>t, <2>1 DEF Shaped, TypeOK
  <2>5. CASE target[r] # w
    BY <1>2, <2>1, <2>2, <2>5, DueOfOne DEF HasLearned, Carries, Live
  <2>6. CASE target[r] = w /\ HasLearned(r, w)
    <3>1. todo[r] \in {<<Set("memory_update", "keep")>>, <<Set("keep", "failed")>>}
      BY <1>t, <2>1, <2>6 DEF Shaped, HasLearned
    <3>2. Tail(todo[r]) = << >>
      <4>1. \A u : Tail(<<u>>) = << >>
        OBVIOUS
      <4> QED BY <3>1, <4>1
    <3>3. /\ ~Live(Merged(Head(<<Set("memory_update", "keep")>>), seen[r]))
          /\ ~Live(Merged(Head(<<Set("keep", "failed")>>), seen[r]))
      BY DEF Live, Merged, Set
    <3>4. ~Due(w)'
      BY <2>2, <2>3, <2>6, <3>1, <3>2, <3>3, DueOfOne DEF Carries, Live
    <3> QED BY <1>2, <2>1, <3>4
  <2>7. CASE target[r] = w /\ ~HasLearned(r, w)
    <3>1. Live(row'[w]) => Carries(r, w)
      BY <2>1, <2>2, <2>7 DEF Carries
    <3>2. ASSUME at'[r] = "read" PROVE Head(Tail(todo[r])).stage \notin {"execution", "learning"}
      <4>1. Tail(todo[r]) # << >> /\ Tail(todo[r]) \in Seq(Updates)
        BY <2>3, <2>4, <3>2, HeadTailProperties
      <4>2. Len(todo[r]) \in Nat /\ Len(Tail(todo[r])) = Len(todo[r]) - 1 /\ Len(Tail(todo[r])) # 0
        BY <2>4, <4>1, HeadTailProperties, LenProperties, EmptySeq
      <4>3. Head(Tail(todo[r])) = Tail(todo[r])[1] /\ Tail(todo[r])[1] = todo[r][2] /\ 2 \in 2..Len(todo[r])
        BY <2>4, <4>1, <4>2, HeadTailProperties
      <4> QED BY <1>t, <2>1, <4>3 DEF Shaped
    <3>3. ~Carries(r, w)'
      BY <2>3, <3>2 DEF Carries
    <3>4. Due(w)' => Due(w)
      BY <2>7, <3>1, <3>3, DueOfOne DEF Live
    <3> QED BY <1>2, <2>1, <3>4
  <2> QED BY <2>5, <2>6, <2>7
<1>17. ASSUME NEW r \in Runners, Raise(r) PROVE Paid(w)'
  <2>1. OnlyMoves(r) /\ row' = row /\ target' = target /\ loaded' = loaded
    BY <1>17, <1>t DEF Raise, OnlyMoves, TypeOK
  <2>2. at'[r] = "read" /\ todo'[r] = <<Set("keep", "failed")>>
    BY <1>17, <1>t DEF Raise, TypeOK
  <2>3. Head(<<Set("keep", "failed")>>).stage \notin {"execution", "learning"}
    BY DEF Set
  <2>4. Due(w)' => Due(w)
    BY <2>1, <2>2, <2>3, DueOfOne DEF HasLearned, Carries, Live
  <2> QED BY <1>2, <1>17, <2>1, <2>4 DEF Raise
<1>18. ASSUME NEW p \in Threads, Crash(p) PROVE Paid(w)'
  <2>1. OnlyMoves(p) /\ row' = row /\ at'[p] = "idle" /\ crashes' = crashes + 1 /\ UNCHANGED <<lessons, grants>>
    BY <1>18, <1>t DEF Crash, OnlyMoves, TypeOK
  <2>2. grants[w] \in Nat /\ crashes \in Nat
    BY <1>t DEF TypeOK
  <2>3. CASE p \in Operators
    BY <1>11, <2>1, <2>2, <2>3 DEF Approves
  <2>4. CASE p \in Runners
    <3>1. grants'[w] + crashes' = grants[w] + crashes + 1
      BY <2>1, <2>2
    <3> QED BY <1>t, <1>u, <2>1, <2>4, <3>1, LoopAside, Balance
  <2> QED BY <2>3, <2>4 DEF Threads
<1> QED
  BY <1>1, <1>3, <1>4, <1>5, <1>7, <1>8, <1>9, <1>10, <1>12, <1>13, <1>14, <1>15, <1>16, <1>17, <1>18
  DEF Next, Work, SetPolicy, vars

\* However approvals, rejections and crashes interleave, a single scheduler loop learns a run at
\* most once for each time it was approved, and once more for each time somebody died.
THEOREM LessonsArePaidFor ==
    ASSUME \A r, s \in Runners : r = s
    PROVE  Spec => []LessonsPerGrant
<1>1. Init => Tally
  <2> SUFFICES ASSUME Init PROVE Tally
    OBVIOUS
  <2>1. ASSUME NEW p \in Threads PROVE Shaped(p)
    BY DEF Init, Shaped
  <2>2. ASSUME NEW w \in Workflows PROVE Paid(w)
    <3>1. Approving(w) = {}
      BY DEF Init, Approving, Approves, Threads
    <3>2. ~Due(w)
      BY DEF Init, Due, Live, NoRow, Carries, Threads
    <3> QED BY <3>1, <3>2, FS_EmptySet DEF Init, Paid
  <2> QED BY <2>1, <2>2 DEF Tally
<1>2. IInv /\ Tally => LessonsPerGrant
  <2> SUFFICES ASSUME IInv, Tally, NEW w \in Workflows PROVE lessons[w] <= grants[w] + crashes
    BY DEF LessonsPerGrant
  <2>1. /\ lessons[w] + Cardinality(Approving(w)) + (IF Due(w) THEN 1 ELSE 0) <= grants[w] + crashes
        /\ Cardinality(Approving(w)) \in Nat
    BY FS_CardinalityType DEF Tally, Paid
  <2>2. lessons[w] \in Nat /\ grants[w] \in Nat /\ crashes \in Nat
    BY DEF IInv, TypeOK
  <2> QED BY <2>1, <2>2
<1> QED BY <1>1, <1>2, PaidStep, WorkflowInvariant, PTL DEF Spec
=============================================================================

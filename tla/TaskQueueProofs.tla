-------------------------- MODULE TaskQueueProofs --------------------------
(***************************************************************************)
(* Theorems about the task queue, for every number of rows, consumers,     *)
(* attempts, pool threads and crashes.                                     *)
(***************************************************************************)
EXTENDS TaskQueue, TLAPS

\* What the claim, the verdict and the crash steps preserve together.  The
\* properties need each other: the claim's increment stays in range because a
\* waiting row has attempts left, and an UPDATE by id is harmless because the
\* row of a claimed task is running and nobody else holds it.
IInv ==
    /\ TypeOK
    /\ \A c \in Consumers : at[c] = "selected" => held[c] \in Tasks
    /\ ExclusiveClaim
    /\ OnlyCrashesStrand
    /\ DeadIsExhausted
    /\ \A t \in Tasks : row[t].status = "running" => row[t].attempts \in 1..MaxAttempts

\* The row fail_task leaves behind.
LEMMA FailRowResult ==
    ASSUME NEW t \in Tasks, TypeOK, row[t].attempts \in 1..MaxAttempts, FailRow(t)
    PROVE  /\ row' \in [Tasks -> Row]
           /\ due' \in [Tasks -> BOOLEAN]
           /\ \A u \in Tasks : u # t => row'[u] = row[u]
           /\ row'[t].status = IF row[t].attempts = MaxAttempts THEN "dead" ELSE "retrying"
           /\ row'[t].attempts = row[t].attempts
<1>1. /\ row \in [Tasks -> Row] /\ due \in [Tasks -> BOOLEAN]
      /\ \A s \in Statuses : [row EXCEPT ![t].status = s] \in [Tasks -> Row]
  BY DEF TypeOK, Row
<1>2. CASE row[t].attempts = MaxAttempts
  <2>1. row' = [row EXCEPT ![t].status = "dead"] /\ due' = due
    BY <1>2, QueueAssumption DEF FailRow
  <2> QED
    BY <1>1, <1>2, <2>1 DEF Statuses, Row
<1>3. CASE row[t].attempts # MaxAttempts
  <2>1. ~(row[t].attempts >= MaxAttempts)
    BY <1>3, QueueAssumption
  <2>2. /\ row' = [row EXCEPT ![t].status = "retrying"]
        /\ due' = [due EXCEPT ![t] = FALSE]
    BY <2>1 DEF FailRow
  <2> QED
    BY <1>1, <1>3, <2>2 DEF Statuses, Row
<1> QED
  BY <1>2, <1>3

\* The job submitted for a claimed task is a job of the pool.
LEMMA CurrentJobType ==
    ASSUME IInv, NEW c \in Consumers, Claimed(c)
    PROVE  CurrentJob(c) \in Jobs
<1>1. held[c] \in Tasks /\ row[held[c]].status = "running"
  BY DEF IInv, ExclusiveClaim
<1>2. row[held[c]].attempts \in 1..MaxAttempts
  BY <1>1 DEF IInv
<1>3. IsReal(site[c], row[held[c]].type) \in BOOLEAN
  BY DEF IsReal
<1> QED
  BY <1>1, <1>2, <1>3 DEF CurrentJob, Jobs

\* A consumer that settles its claim with the rows changed only at held[c],
\* to a status that is not running, and leaves: the common part of NoHandler,
\* Complete, Fail and TimeOut.
LEMMA SettleKeepsClaims ==
    ASSUME IInv, NEW c \in Consumers, Claimed(c), Leave(c),
           row' \in [Tasks -> Row],
           \A u \in Tasks : u # held[c] => row'[u] = row[u],
           row'[held[c]].status \in {"retrying", "dead", "completed"},
           row'[held[c]].attempts = row[held[c]].attempts,
           row'[held[c]].status = "dead" => row[held[c]].attempts = MaxAttempts,
           row'[held[c]].status = "retrying" => row[held[c]].attempts < MaxAttempts,
           lost' = lost
    PROVE  /\ \A d \in Consumers : at'[d] = "selected" => held'[d] \in Tasks
           /\ ExclusiveClaim'
           /\ OnlyCrashesStrand'
           /\ DeadIsExhausted'
           /\ \A t \in Tasks : row'[t].status = "running" => row'[t].attempts \in 1..MaxAttempts
<1>1. held[c] \in Tasks
  BY DEF IInv, ExclusiveClaim
<1>2. /\ at' = [at EXCEPT ![c] = "idle"]
      /\ held' = [held EXCEPT ![c] = NoTask]
      /\ at \in [Consumers -> Places]
      /\ held \in [Consumers -> Tasks \cup {NoTask}]
  BY DEF Leave, IInv, TypeOK
<1>3. \A d \in Consumers : at'[d] = "selected" => held'[d] \in Tasks
  BY <1>2 DEF IInv
<1>4. ~Claimed(c)' /\ \A d \in Consumers : d # c => (Claimed(d)' <=> Claimed(d)) /\ held'[d] = held[d]
  BY <1>2 DEF Claimed
<1>5. ExclusiveClaim'
  BY <1>1, <1>4 DEF ExclusiveClaim, IInv
<1>6. OnlyCrashesStrand'
  BY <1>1, <1>4 DEF OnlyCrashesStrand, IInv
<1>7. DeadIsExhausted'
  BY <1>1 DEF DeadIsExhausted, IInv, Waiting
<1>8. \A t \in Tasks : row'[t].status = "running" => row'[t].attempts \in 1..MaxAttempts
  BY <1>1 DEF IInv
<1> QED
  BY <1>3, <1>5, <1>6, <1>7, <1>8

LEMMA InitIInv == Init => IInv
<1> SUFFICES ASSUME Init PROVE IInv
  OBVIOUS
<1>1. NoRow \in Row
  BY QueueAssumption DEF NoRow, Row, Statuses
<1>2. TypeOK
  BY <1>1, QueueAssumption DEF Init, TypeOK, Places, Sites
<1>3. \A t \in Tasks : row[t].status = "absent" /\ row[t].attempts = 0
  BY DEF Init, NoRow
<1>4. \A c \in Consumers : at[c] = "idle"
  BY DEF Init
<1> QED
  BY <1>2, <1>3, <1>4 DEF IInv, ExclusiveClaim, OnlyCrashesStrand, DeadIsExhausted, Claimed, Waiting

\* Every step preserves the inductive invariant, one step per action.
LEMMA NextIInv == IInv /\ [Next]_vars => IInv'
<1> SUFFICES ASSUME IInv, [Next]_vars PROVE IInv'
  OBVIOUS
<1> USE DEF IInv
<1>1. ASSUME NEW t \in Tasks, NEW ty \in Types, NEW p \in Priorities, Enqueue(t, ty, p)
      PROVE  IInv'
  <2> DEFINE new == [status |-> "queued", attempts |-> 0, priority |-> p, type |-> ty]
  <2>1. new \in Row
    BY QueueAssumption DEF Row, Statuses
  <2>2. TypeOK'
    BY <1>1, <2>1 DEF Enqueue, TypeOK
  <2>3. /\ \A u \in Tasks : u # t => row'[u] = row[u]
        /\ row'[t].status = "queued" /\ row'[t].attempts = 0
        /\ row[t].status = "absent"
        /\ UNCHANGED <<at, held, lost>>
    BY <1>1 DEF Enqueue, TypeOK
  <2>4. ExclusiveClaim' /\ OnlyCrashesStrand'
    BY <2>3 DEF ExclusiveClaim, OnlyCrashesStrand, Claimed
  <2>5. DeadIsExhausted'
    BY <2>3, QueueAssumption DEF DeadIsExhausted, Waiting
  <2>6. \A u \in Tasks : row'[u].status = "running" => row'[u].attempts \in 1..MaxAttempts
    BY <2>3
  <2> QED
    BY <2>2, <2>3, <2>4, <2>5, <2>6
<1>2. ASSUME NEW t \in Tasks, BackoffElapses(t)
      PROVE  IInv'
  BY <1>2 DEF BackoffElapses, TypeOK, ExclusiveClaim, OnlyCrashesStrand, DeadIsExhausted, Claimed
<1>3. ASSUME NEW c \in Consumers, NEW s \in Sites, SelectCandidate(c, s)
      PROVE  IInv'
  <2>1. PICK t \in Tasks : held' = [held EXCEPT ![c] = t]
    BY <1>3 DEF SelectCandidate, BestCandidates, Candidates
  <2>2. /\ at[c] = "idle"
        /\ at' = [at EXCEPT ![c] = "selected"]
        /\ site' = [site EXCEPT ![c] = s]
        /\ UNCHANGED <<row, due, result, pending, busy, ran, lost, crashes>>
    BY <1>3 DEF SelectCandidate
  <2>3. TypeOK'
    BY <2>1, <2>2 DEF TypeOK, Places
  <2>4. /\ ~Claimed(c) /\ ~Claimed(c)'
        /\ \A d \in Consumers : d # c => (Claimed(d)' <=> Claimed(d)) /\ held'[d] = held[d] /\ at'[d] = at[d]
        /\ at'[c] = "selected" /\ held'[c] \in Tasks
    BY <2>1, <2>2 DEF Claimed, TypeOK
  <2>5. ExclusiveClaim'
    BY <2>2, <2>4 DEF ExclusiveClaim
  <2>6. OnlyCrashesStrand'
    BY <2>2, <2>4 DEF OnlyCrashesStrand
  <2> QED
    BY <2>2, <2>3, <2>4, <2>5, <2>6 DEF DeadIsExhausted
<1>4. ASSUME NEW c \in Consumers, ClaimUpdate(c)
      PROVE  IInv'
  <2> DEFINE t == held[c]
  <2>1. /\ t \in Tasks /\ row[t].status \in Waiting
        /\ row[t].attempts \in Nat /\ row[t].attempts < MaxAttempts
    BY <1>4, QueueAssumption DEF ClaimUpdate, TypeOK, Row, DeadIsExhausted
  <2>2. /\ row' \in [Tasks -> Row]
        /\ row'[t].status = "running" /\ row'[t].attempts = row[t].attempts + 1
        /\ \A u \in Tasks : u # t => row'[u] = row[u]
    <3> DEFINE new == AsClaimed(row[t])
    <3>1. row' = [row EXCEPT ![t] = new]
      BY <1>4 DEF ClaimUpdate, TypeOK
    <3>2. row[t] \in Row /\ row[t].attempts + 1 \in 0..MaxAttempts
      BY <2>1, QueueAssumption DEF TypeOK
    <3>3. /\ new \in Row
          /\ new.status = "running" /\ new.attempts = row[t].attempts + 1
      BY <3>2 DEF Row, Statuses, AsClaimed
    <3> HIDE DEF new
    <3> QED
      BY <2>1, <3>1, <3>3 DEF TypeOK
  <2>3. /\ at' = [at EXCEPT ![c] = "claimed"]
        /\ UNCHANGED <<due, site, held, result, pending, busy, ran, lost, crashes>>
    BY <1>4 DEF ClaimUpdate
  <2>4. TypeOK'
    BY <2>2, <2>3 DEF TypeOK, Places
  <2>5. /\ Claimed(c)'
        /\ \A d \in Consumers : d # c => (Claimed(d)' <=> Claimed(d)) /\ at'[d] = at[d]
    BY <2>3 DEF Claimed, TypeOK
  <2>6. \A d \in Consumers : Claimed(d) => held[d] # t
    BY <2>1 DEF ExclusiveClaim, Waiting
  <2>7. ExclusiveClaim'
    BY <2>1, <2>2, <2>3, <2>5, <2>6 DEF ExclusiveClaim
  <2>8. OnlyCrashesStrand'
    BY <2>1, <2>2, <2>3, <2>5, <2>6 DEF OnlyCrashesStrand
  <2>9. DeadIsExhausted'
    BY <2>1, <2>2 DEF DeadIsExhausted, Waiting
  <2>10. \A u \in Tasks : row'[u].status = "running" => row'[u].attempts \in 1..MaxAttempts
    BY <2>1, <2>2, QueueAssumption
  <2>11. \A d \in Consumers : at'[d] = "selected" => held'[d] \in Tasks
    BY <2>3 DEF TypeOK
  <2> QED
    BY <2>4, <2>7, <2>8, <2>9, <2>10, <2>11
<1>5. ASSUME NEW c \in Consumers, ClaimMissed(c)
      PROVE  IInv'
  <2>1. /\ at[c] = "selected"
        /\ at' = [at EXCEPT ![c] = "idle"]
        /\ held' = [held EXCEPT ![c] = NoTask]
        /\ UNCHANGED <<row, due, site, result, pending, busy, ran, lost, crashes>>
    BY <1>5 DEF ClaimMissed
  <2>2. TypeOK'
    BY <2>1 DEF TypeOK, Places
  <2>3. /\ ~Claimed(c) /\ ~Claimed(c)' /\ at'[c] = "idle"
        /\ \A d \in Consumers : d # c => (Claimed(d)' <=> Claimed(d)) /\ held'[d] = held[d] /\ at'[d] = at[d]
    BY <2>1 DEF Claimed, TypeOK
  <2>4. ExclusiveClaim' /\ OnlyCrashesStrand'
    BY <2>1, <2>3 DEF ExclusiveClaim, OnlyCrashesStrand
  <2> QED
    BY <2>1, <2>2, <2>3, <2>4 DEF DeadIsExhausted
<1>6. ASSUME NEW c \in Consumers, SubmitJob(c)
      PROVE  IInv'
  <2>1. Claimed(c) /\ CurrentJob(c) \in Jobs
    BY <1>6, CurrentJobType DEF SubmitJob, Claimed
  <2>2. /\ at' = [at EXCEPT ![c] = "awaiting"]
        /\ pending' = [pending EXCEPT ![c] = Append(@, CurrentJob(c))]
        /\ UNCHANGED <<row, due, site, held, result, busy, ran, lost, crashes>>
    BY <1>6 DEF SubmitJob
  <2>3. Append(pending[c], CurrentJob(c)) \in Seq(Jobs)
    BY <2>1 DEF TypeOK
  <2>4. TypeOK'
    BY <2>2, <2>3 DEF TypeOK, Places
  <2>5. \A d \in Consumers : (Claimed(d)' <=> Claimed(d)) /\ (at'[d] = "selected" => at[d] = "selected")
    BY <2>1, <2>2 DEF Claimed, TypeOK
  <2> QED
    BY <2>2, <2>4, <2>5 DEF ExclusiveClaim, OnlyCrashesStrand, DeadIsExhausted
<1>7. ASSUME NEW c \in Consumers, StartJob(c)
      PROVE  IInv'
  <2>1. Head(pending[c]) \in Jobs /\ Tail(pending[c]) \in Seq(Jobs)
    BY <1>7 DEF StartJob, TypeOK
  <2>2. TypeOK'
    BY <1>7, <2>1 DEF StartJob, TypeOK
  <2> QED
    BY <1>7, <2>2 DEF StartJob, ExclusiveClaim, OnlyCrashesStrand, DeadIsExhausted, Claimed
<1>8. ASSUME NEW c \in Consumers, NEW j \in busy[c], NEW r \in {"ok", "raised"}, FinishJob(c, j, r)
      PROVE  IInv'
  <2>1. TypeOK'
    BY <1>8 DEF FinishJob, TypeOK
  <2> QED
    BY <1>8, <2>1 DEF FinishJob, ExclusiveClaim, OnlyCrashesStrand, DeadIsExhausted, Claimed
<1>9. ASSUME NEW c \in Consumers, NoHandler(c) \/ Fail(c) \/ TimeOut(c)
      PROVE  IInv'
  <2>1. Claimed(c) /\ FailRow(held[c]) /\ Leave(c) /\ UNCHANGED <<pending, busy, ran, lost, crashes>>
    BY <1>9 DEF NoHandler, Fail, TimeOut, Claimed
  <2>2. held[c] \in Tasks /\ row[held[c]].attempts \in 1..MaxAttempts
    BY <2>1 DEF ExclusiveClaim
  <2>3. /\ row' \in [Tasks -> Row]
        /\ due' \in [Tasks -> BOOLEAN]
        /\ \A u \in Tasks : u # held[c] => row'[u] = row[u]
        /\ row'[held[c]].status = IF row[held[c]].attempts = MaxAttempts THEN "dead" ELSE "retrying"
        /\ row'[held[c]].attempts = row[held[c]].attempts
    BY <2>1, <2>2, FailRowResult
  <2>4. TypeOK'
    BY <2>1, <2>3 DEF TypeOK, Leave, Places
  <2>5. row[held[c]].attempts # MaxAttempts => row[held[c]].attempts < MaxAttempts
    BY <2>2, QueueAssumption
  <2> QED
    BY <2>1, <2>3, <2>4, <2>5, SettleKeepsClaims
<1>10. ASSUME NEW c \in Consumers, Complete(c)
      PROVE  IInv'
  <2>1. Claimed(c) /\ Leave(c) /\ UNCHANGED <<due, pending, busy, ran, lost, crashes>>
    BY <1>10 DEF Complete, Claimed
  <2>2. held[c] \in Tasks
    BY <2>1 DEF ExclusiveClaim
  <2>3. /\ row' \in [Tasks -> Row]
        /\ \A u \in Tasks : u # held[c] => row'[u] = row[u]
        /\ row'[held[c]].status = "completed"
        /\ row'[held[c]].attempts = row[held[c]].attempts
    BY ZenonT(30), <1>10, <2>2 DEF Complete, TypeOK, Row, Statuses
  <2>4. TypeOK'
    BY <2>1, <2>3 DEF TypeOK, Leave, Places
  <2> QED
    BY <2>1, <2>3, <2>4, SettleKeepsClaims
<1>11. ASSUME NEW c \in Consumers, Crash(c)
      PROVE  IInv'
  <2>1. /\ crashes < MaxCrashes /\ crashes' = crashes + 1
        /\ at' = [at EXCEPT ![c] = "idle"]
        /\ held' = [held EXCEPT ![c] = NoTask]
        /\ result' = [result EXCEPT ![c] = "none"]
        /\ pending' = [pending EXCEPT ![c] = << >>]
        /\ busy' = [busy EXCEPT ![c] = {}]
        /\ lost' = IF Claimed(c) THEN lost \cup {held[c]} ELSE lost
        /\ UNCHANGED <<row, due, ran, site>>
    BY <1>11 DEF Crash, Leave
  <2>2. lost' \subseteq Tasks
    BY <2>1 DEF TypeOK, ExclusiveClaim
  <2>3. TypeOK'
    BY <2>1, <2>2, QueueAssumption DEF TypeOK, Places
  <2>4. /\ ~Claimed(c)' /\ at'[c] = "idle"
        /\ \A d \in Consumers : d # c => (Claimed(d)' <=> Claimed(d)) /\ held'[d] = held[d] /\ at'[d] = at[d]
    BY <2>1 DEF Claimed, TypeOK
  <2>5. ExclusiveClaim' /\ OnlyCrashesStrand'
    BY <2>1, <2>4 DEF ExclusiveClaim, OnlyCrashesStrand
  <2> QED
    BY <2>1, <2>3, <2>4, <2>5 DEF DeadIsExhausted
<1>12. CASE UNCHANGED vars
  BY <1>12 DEF vars, TypeOK, ExclusiveClaim, OnlyCrashesStrand, DeadIsExhausted, Claimed
<1> QED
  BY <1>1, <1>2, <1>3, <1>4, <1>5, <1>6, <1>7, <1>8, <1>9, <1>10, <1>11, <1>12 DEF Next, Step

-----------------------------------------------------------------------------
\* Every reachable state satisfies the inductive invariant.
THEOREM QueueInvariant == Spec => []IInv
  BY InitIInv, NextIInv, PTL DEF Spec

\* Type correctness: no claim takes attempts past max_attempts, no pool queue
\* holds anything but jobs of enqueued rows.
THEOREM QueueTypeCorrect == Spec => []TypeOK
<1>1. IInv => TypeOK
  BY DEF IInv
<1> QED
  BY <1>1, QueueInvariant, PTL

\* Two consumers never hold one row, and a held row is running, although only
\* the claim's UPDATE carries a guard.
THEOREM ClaimsAreExclusive == Spec => []ExclusiveClaim
<1>1. IInv => ExclusiveClaim
  BY DEF IInv
<1> QED
  BY <1>1, QueueInvariant, PTL

\* A row stays in status running only with a live consumer or after a crash.
THEOREM OnlyCrashesStrandRows == Spec => []OnlyCrashesStrand
<1>1. IInv => OnlyCrashesStrand
  BY DEF IInv
<1> QED
  BY <1>1, QueueInvariant, PTL

\* A dead row used up its attempts, a waiting row has one left.
THEOREM DeadRowsAreExhausted == Spec => []DeadIsExhausted
<1>1. IInv => DeadIsExhausted
  BY DEF IInv
<1> QED
  BY <1>1, QueueInvariant, PTL

\* The rows an action touches: those waiting, absent, or held by its consumer.
LEMMA SettledRowsKept ==
    ASSUME IInv, [Next]_vars, NEW t \in Tasks, row[t].status \in Settled
    PROVE  row'[t] = row[t]
<1>1. row \in [Tasks -> Row] /\ row[t].status \notin Waiting /\ row[t].status \notin {"absent", "running"}
  BY DEF IInv, TypeOK, Settled, Waiting
<1>2. \A c \in Consumers : Claimed(c) => held[c] # t
  BY <1>1 DEF IInv, ExclusiveClaim
<1>3. ASSUME NEW u \in Tasks, NEW ty \in Types, NEW p \in Priorities, Enqueue(u, ty, p)
      PROVE  row'[t] = row[t]
  BY <1>1, <1>3 DEF Enqueue
<1>4. ASSUME NEW c \in Consumers, ClaimUpdate(c)
      PROVE  row'[t] = row[t]
  BY <1>1, <1>4 DEF ClaimUpdate
<1>5. ASSUME NEW c \in Consumers, NoHandler(c) \/ Fail(c) \/ TimeOut(c)
      PROVE  row'[t] = row[t]
  <2>1. held[c] # t /\ FailRow(held[c])
    BY <1>2, <1>5 DEF NoHandler, Fail, TimeOut, Claimed
  <2> QED
    BY <1>1, <2>1 DEF FailRow
<1>6. ASSUME NEW c \in Consumers, Complete(c)
      PROVE  row'[t] = row[t]
  <2>1. held[c] # t
    BY <1>2, <1>6 DEF Complete, Claimed
  <2> QED
    BY <1>1, <1>6, <2>1 DEF Complete
<1>7. ASSUME NEW c \in Consumers, NEW s \in Sites,
             SelectCandidate(c, s) \/ ClaimMissed(c) \/ SubmitJob(c) \/ StartJob(c) \/ Crash(c)
      PROVE  row'[t] = row[t]
  BY <1>7 DEF SelectCandidate, ClaimMissed, SubmitJob, StartJob, Crash
<1>8. ASSUME NEW c \in Consumers, NEW j \in busy[c], NEW r \in {"ok", "raised"}, FinishJob(c, j, r)
      PROVE  row'[t] = row[t]
  BY <1>8 DEF FinishJob
<1>9. ASSUME NEW u \in Tasks, BackoffElapses(u)
      PROVE  row'[t] = row[t]
  BY <1>9 DEF BackoffElapses
<1>10. CASE UNCHANGED vars
  BY <1>10 DEF vars
<1>11. Sites # {}
  BY DEF Sites
<1> QED
  BY <1>3, <1>4, <1>5, <1>6, <1>7, <1>8, <1>9, <1>10, <1>11 DEF Next, Step

\* completed and dead are terminal although complete_task and fail_task update
\* by id alone: no late timeout or lost race changes a settled row.
THEOREM SettledStaysSettled == Spec => SettledIsFinal
<1>1. IInv /\ [Next]_vars => [\A t \in Tasks : row[t].status \in Settled => row'[t] = row[t]]_vars
  BY SettledRowsKept
<1> QED
  BY <1>1, QueueInvariant, PTL DEF Spec, SettledIsFinal

-----------------------------------------------------------------------------
(* Completed means that the handler ran.                                   *)

\* A job on a pool thread, and a result that was taken from one, is of a handler
\* that started.
JobsRan ==
    /\ \A c \in Consumers : at[c] # "awaiting" => result[c] = "none"
    /\ \A c \in Consumers : \A j \in busy[c] : j.real => j \in ran
    /\ \A c \in Consumers : at[c] = "awaiting" /\ result[c] # "none" /\ CurrentJob(c).real => CurrentJob(c) \in ran
    /\ RegisteredWorkRan

\* While a consumer goes on with its task nobody else writes the row, so the job it waits for
\* stays the job it submitted.
LEMMA ClaimedRowKept ==
    ASSUME IInv, [Next]_vars, NEW d \in Consumers, Claimed(d), Claimed(d)'
    PROVE  row'[held[d]] = row[held[d]] /\ held'[d] = held[d] /\ site'[d] = site[d]
<1> DEFINE t == held[d]
<1>1. /\ row \in [Tasks -> Row] /\ t \in Tasks /\ row[t].status = "running"
      /\ \A c \in Consumers : c # d /\ Claimed(c) => held[c] # t
      /\ at \in [Consumers -> Places] /\ held \in [Consumers -> Tasks \cup {NoTask}] /\ site \in [Consumers -> Sites]
  BY DEF IInv, TypeOK, ExclusiveClaim
<1> HIDE DEF t
<1> SUFFICES row'[t] = row[t] /\ held'[d] = held[d] /\ site'[d] = site[d]
  BY DEF t
<1>2. ASSUME NEW u \in Tasks, NEW ty \in Types, NEW p \in Priorities, Enqueue(u, ty, p)
      PROVE  row'[t] = row[t] /\ held'[d] = held[d] /\ site'[d] = site[d]
  BY <1>1, <1>2 DEF Enqueue
<1>3. ASSUME NEW c \in Consumers, NEW s \in Sites, SelectCandidate(c, s)
      PROVE  row'[t] = row[t] /\ held'[d] = held[d] /\ site'[d] = site[d]
  <2>1. c # d
    BY <1>3 DEF SelectCandidate, Claimed
  <2> QED
    BY <1>1, <1>3, <2>1 DEF SelectCandidate
<1>4. ASSUME NEW c \in Consumers, ClaimUpdate(c)
      PROVE  row'[t] = row[t] /\ held'[d] = held[d] /\ site'[d] = site[d]
  <2>1. held[c] # t
    BY <1>1, <1>4 DEF ClaimUpdate, Waiting
  <2> QED
    BY <1>1, <1>4, <2>1 DEF ClaimUpdate
<1>5. ASSUME NEW c \in Consumers, ClaimMissed(c)
      PROVE  row'[t] = row[t] /\ held'[d] = held[d] /\ site'[d] = site[d]
  <2>1. c # d
    BY <1>5 DEF ClaimMissed, Claimed
  <2> QED
    BY <1>1, <1>5, <2>1 DEF ClaimMissed
<1>6. ASSUME NEW c \in Consumers, NoHandler(c) \/ Fail(c) \/ TimeOut(c) \/ Complete(c)
      PROVE  row'[t] = row[t] /\ held'[d] = held[d] /\ site'[d] = site[d]
  <2>1. Claimed(c) /\ Leave(c)
    BY <1>6 DEF NoHandler, Fail, TimeOut, Complete, Claimed
  <2>2. c # d
    BY <1>1, <2>1 DEF Leave, Claimed
  <2>3. held[c] # t
    BY <1>1, <2>1, <2>2
  <2>4. row'[t] = row[t]
    BY <1>1, <1>6, <2>3 DEF NoHandler, Fail, TimeOut, Complete, FailRow
  <2> QED
    BY <1>1, <2>1, <2>2, <2>4 DEF Leave
<1>7. ASSUME NEW c \in Consumers, SubmitJob(c) \/ StartJob(c)
      PROVE  row'[t] = row[t] /\ held'[d] = held[d] /\ site'[d] = site[d]
  BY <1>7 DEF SubmitJob, StartJob
<1>8. ASSUME NEW c \in Consumers, NEW j \in busy[c], NEW r \in {"ok", "raised"}, FinishJob(c, j, r)
      PROVE  row'[t] = row[t] /\ held'[d] = held[d] /\ site'[d] = site[d]
  BY <1>8 DEF FinishJob
<1>9. ASSUME NEW c \in Consumers, Crash(c)
      PROVE  row'[t] = row[t] /\ held'[d] = held[d] /\ site'[d] = site[d]
  <2>1. c # d
    BY <1>1, <1>9 DEF Crash, Leave, Claimed
  <2> QED
    BY <1>1, <1>9, <2>1 DEF Crash, Leave
<1>10. ASSUME NEW u \in Tasks, BackoffElapses(u)
       PROVE  row'[t] = row[t] /\ held'[d] = held[d] /\ site'[d] = site[d]
  BY <1>10 DEF BackoffElapses
<1>11. CASE UNCHANGED vars
  BY <1>11 DEF vars
<1> QED
  BY <1>2, <1>3, <1>4, <1>5, <1>6, <1>7, <1>8, <1>9, <1>10, <1>11 DEF Next, Step

\* What is completed stays, and nothing that ran is forgotten: only complete_task can break
\* RegisteredWorkRan.
LEMMA CompletedWorkKept ==
    ASSUME IInv, [Next]_vars, RegisteredWorkRan, ran \subseteq ran',
           \A t \in Tasks : row'[t].status = "completed" => row[t].status = "completed"
    PROVE  RegisteredWorkRan'
<1>1. ASSUME NEW ty \in Registered \ {DevTrigger}, NEW t \in Tasks,
             row'[t].status = "completed", row'[t].type = ty
      PROVE  \E j \in ran' : j.task = t /\ j.attempt = row'[t].attempts
  <2>1. row[t].status = "completed" /\ row'[t] = row[t]
    BY <1>1, SettledRowsKept DEF Settled
  <2>2. \E j \in ran : j.task = t /\ j.attempt = row[t].attempts
    BY <1>1, <2>1 DEF RegisteredWorkRan, CompletedRan
  <2> QED
    BY <2>1, <2>2
<1> QED
  BY <1>1 DEF RegisteredWorkRan, CompletedRan

\* The rows fail_task writes are not completed by it.
LEMMA FailCompletesNothing ==
    ASSUME IInv, NEW c \in Consumers, Claimed(c), FailRow(held[c])
    PROVE  \A t \in Tasks : row'[t].status = "completed" => row[t].status = "completed"
<1>1. held[c] \in Tasks /\ row[held[c]].attempts \in 1..MaxAttempts /\ TypeOK
  BY DEF IInv, ExclusiveClaim
<1>2. /\ \A u \in Tasks : u # held[c] => row'[u] = row[u]
      /\ row'[held[c]].status = IF row[held[c]].attempts = MaxAttempts THEN "dead" ELSE "retrying"
  BY <1>1, FailRowResult
<1> QED
  BY <1>2

\* A consumer that settles and leaves waits for nothing; the others wait on.
LEMMA LeaverAwaitsNothing ==
    ASSUME IInv, [Next]_vars, JobsRan, NEW c \in Consumers, Leave(c),
           \A d \in Consumers : busy'[d] \subseteq busy[d], ran' = ran
    PROVE  /\ \A d \in Consumers : at'[d] # "awaiting" => result'[d] = "none"
           /\ \A d \in Consumers : \A j \in busy'[d] : j.real => j \in ran'
           /\ \A d \in Consumers : at'[d] = "awaiting" /\ result'[d] # "none" /\ CurrentJob(d)'.real => CurrentJob(d)' \in ran'
<1>1. /\ at' = [at EXCEPT ![c] = "idle"] /\ result' = [result EXCEPT ![c] = "none"]
      /\ at \in [Consumers -> Places] /\ result \in [Consumers -> {"none", "ok", "raised"}]
  BY DEF Leave, IInv, TypeOK
<1>2. \A d \in Consumers : at'[d] # "awaiting" => result'[d] = "none"
  BY <1>1 DEF JobsRan
<1>3. \A d \in Consumers : \A j \in busy'[d] : j.real => j \in ran'
  BY DEF JobsRan
<1>4. ASSUME NEW d \in Consumers, at'[d] = "awaiting", result'[d] # "none", CurrentJob(d)'.real
      PROVE  CurrentJob(d)' \in ran'
  <2>1. d # c /\ at[d] = "awaiting" /\ result[d] # "none"
    BY <1>1, <1>4
  <2>2. Claimed(d) /\ Claimed(d)'
    BY <1>4, <2>1 DEF Claimed
  <2>3. CurrentJob(d)' = CurrentJob(d)
    BY <2>2, ClaimedRowKept DEF CurrentJob, IsReal
  <2> QED
    BY <1>4, <2>1, <2>3 DEF JobsRan
<1> QED
  BY <1>2, <1>3, <1>4

LEMMA NextJobsRan == IInv /\ JobsRan /\ [Next]_vars => JobsRan'
<1> SUFFICES ASSUME IInv, JobsRan, [Next]_vars PROVE JobsRan'
  OBVIOUS
<1>0. /\ TypeOK
      /\ \A d \in Consumers : Claimed(d) /\ Claimed(d)' => CurrentJob(d)' = CurrentJob(d)
      /\ \A d \in Consumers : at[d] = "awaiting" => Claimed(d)
      /\ \A d \in Consumers : at'[d] = "awaiting" => Claimed(d)'
  BY ClaimedRowKept DEF CurrentJob, IsReal, Claimed, IInv
<1>1. ASSUME UNCHANGED <<at, result, busy, ran>>,
             \A t \in Tasks : row'[t].status = "completed" => row[t].status = "completed"
      PROVE  JobsRan'
  <2>1. RegisteredWorkRan'
    BY <1>1, CompletedWorkKept DEF JobsRan
  <2>2. \A d \in Consumers : at'[d] = "awaiting" /\ result'[d] # "none" /\ CurrentJob(d)'.real => CurrentJob(d)' \in ran'
    BY <1>0, <1>1 DEF JobsRan
  <2> QED
    BY <1>1, <2>1, <2>2 DEF JobsRan
<1>2. ASSUME NEW t \in Tasks, NEW ty \in Types, NEW p \in Priorities, Enqueue(t, ty, p)
      PROVE  JobsRan'
  <2>1. row \in [Tasks -> Row]
    BY <1>0 DEF TypeOK
  <2>2. UNCHANGED <<at, result, busy, ran>> /\ \A u \in Tasks : row'[u].status = "completed" => row[u].status = "completed"
    BY <1>2, <2>1 DEF Enqueue
  <2> QED
    BY <1>1, <2>2
<1>3. ASSUME NEW t \in Tasks, BackoffElapses(t)
      PROVE  JobsRan'
  BY <1>1, <1>3 DEF BackoffElapses
<1>4. ASSUME NEW c \in Consumers,
             \/ \E s \in Sites : SelectCandidate(c, s)
             \/ ClaimUpdate(c) \/ ClaimMissed(c) \/ SubmitJob(c)
      PROVE  JobsRan'
  <2>1. at[c] # "awaiting" /\ UNCHANGED <<result, busy, ran>>
    BY <1>4 DEF SelectCandidate, ClaimUpdate, ClaimMissed, SubmitJob
  <2>2. result[c] = "none" /\ \A d \in Consumers : d # c => at'[d] = at[d]
    BY <1>0, <1>4, <2>1 DEF SelectCandidate, ClaimUpdate, ClaimMissed, SubmitJob, JobsRan, TypeOK
  <2>3. \A u \in Tasks : row'[u].status = "completed" => row[u].status = "completed"
    <3>1. CASE ClaimUpdate(c)
      <4>1. held[c] \in Tasks /\ row \in [Tasks -> Row] /\ row' = [row EXCEPT ![held[c]] = AsClaimed(row[held[c]])]
        BY <1>0, <3>1 DEF ClaimUpdate, TypeOK, IInv
      <4>2. row'[held[c]].status = "running"
        BY <4>1 DEF AsClaimed, Row
      <4> QED
        BY <4>1, <4>2
    <3>2. CASE ~ClaimUpdate(c)
      BY <1>4, <3>2 DEF SelectCandidate, ClaimMissed, SubmitJob
    <3> QED
      BY <3>1, <3>2
  <2>4. RegisteredWorkRan'
    BY <2>1, <2>3, CompletedWorkKept DEF JobsRan
  <2>5. \A d \in Consumers : at'[d] # "awaiting" => result'[d] = "none"
    BY <2>1, <2>2 DEF JobsRan
  <2>6. \A d \in Consumers : at'[d] = "awaiting" /\ result'[d] # "none" /\ CurrentJob(d)'.real => CurrentJob(d)' \in ran'
    BY <1>0, <2>1, <2>2 DEF JobsRan
  <2> QED
    BY <2>1, <2>4, <2>5, <2>6 DEF JobsRan
<1>5. ASSUME NEW c \in Consumers, NoHandler(c) \/ Fail(c) \/ TimeOut(c)
      PROVE  JobsRan'
  <2>1. Claimed(c) /\ FailRow(held[c]) /\ Leave(c) /\ UNCHANGED <<busy, ran>>
    BY <1>5 DEF NoHandler, Fail, TimeOut, Claimed
  <2>2. RegisteredWorkRan'
    BY <2>1, FailCompletesNothing, CompletedWorkKept DEF JobsRan
  <2> QED
    BY <2>1, <2>2, LeaverAwaitsNothing DEF JobsRan
<1>6. ASSUME NEW c \in Consumers, Complete(c)
      PROVE  JobsRan'
  <2>1. /\ at[c] = "awaiting" /\ result[c] = "ok" /\ Leave(c) /\ UNCHANGED <<busy, ran>>
        /\ row' = [row EXCEPT ![held[c]].status = "completed"] /\ Claimed(c)
    BY <1>6 DEF Complete, Claimed
  <2>2. /\ held[c] \in Tasks /\ row \in [Tasks -> Row]
    BY <1>0, <2>1 DEF IInv, ExclusiveClaim, TypeOK
  <2>3. ASSUME NEW ty \in Registered \ {DevTrigger}, NEW t \in Tasks,
               row'[t].status = "completed", row'[t].type = ty
        PROVE  \E j \in ran' : j.task = t /\ j.attempt = row'[t].attempts
    <3>1. CASE t = held[c]
      <4>1. row'[t].type = row[t].type /\ row'[t].attempts = row[t].attempts
        BY <2>1, <2>2 DEF Row
      <4>2. CurrentJob(c).real /\ CurrentJob(c).task = t /\ CurrentJob(c).attempt = row[t].attempts
        BY <2>3, <3>1, <4>1 DEF CurrentJob, IsReal
      <4> QED
        BY <2>1, <4>1, <4>2 DEF JobsRan
    <3>2. CASE t # held[c]
      <4>1. row'[t] = row[t]
        BY <2>1, <2>2, <3>2
      <4>2. CompletedRan(ty)
        BY DEF JobsRan, RegisteredWorkRan
      <4>3. \E j \in ran : j.task = t /\ j.attempt = row[t].attempts
        BY <2>3, <4>1, <4>2 DEF CompletedRan
      <4> QED
        BY <2>1, <4>1, <4>3
    <3> QED
      BY <3>1, <3>2
  <2>4. RegisteredWorkRan'
    BY <2>3 DEF RegisteredWorkRan, CompletedRan
  <2> QED
    BY <2>1, <2>4, LeaverAwaitsNothing DEF JobsRan
<1>7. ASSUME NEW c \in Consumers, StartJob(c)
      PROVE  JobsRan'
  <2> DEFINE j == Head(pending[c])
  <2>1. /\ busy' = [busy EXCEPT ![c] = busy[c] \cup {j}] /\ ran' = IF j.real THEN ran \cup {j} ELSE ran
        /\ UNCHANGED <<row, at, result>> /\ busy \in [Consumers -> SUBSET Jobs]
    BY <1>0, <1>7 DEF StartJob, TypeOK
  <2>2. ran \subseteq ran' /\ (j.real => j \in ran')
    BY <2>1
  <2>3. RegisteredWorkRan'
    BY <2>1, <2>2, CompletedWorkKept DEF JobsRan
  <2> HIDE DEF j
  <2>4. \A d \in Consumers : \A i \in busy'[d] : i.real => i \in ran'
    BY <2>1, <2>2 DEF JobsRan
  <2>5. \A d \in Consumers : at'[d] = "awaiting" /\ result'[d] # "none" /\ CurrentJob(d)'.real => CurrentJob(d)' \in ran'
    BY <1>0, <2>1, <2>2 DEF JobsRan
  <2> QED
    BY <2>1, <2>3, <2>4, <2>5 DEF JobsRan
<1>8. ASSUME NEW c \in Consumers, NEW j \in busy[c], NEW r \in {"ok", "raised"}, FinishJob(c, j, r)
      PROVE  JobsRan'
  <2>1. /\ busy' = [busy EXCEPT ![c] = busy[c] \ {j}] /\ UNCHANGED <<row, at, ran>>
        /\ result' = IF at[c] = "awaiting" /\ j = CurrentJob(c) THEN [result EXCEPT ![c] = r] ELSE result
        /\ busy \in [Consumers -> SUBSET Jobs] /\ result \in [Consumers -> {"none", "ok", "raised"}]
    BY <1>0, <1>8 DEF FinishJob, TypeOK
  <2>2. RegisteredWorkRan'
    BY <2>1, CompletedWorkKept DEF JobsRan
  <2>3. \A d \in Consumers : \A i \in busy'[d] : i.real => i \in ran'
    BY <2>1 DEF JobsRan
  <2>4. j.real => j \in ran
    BY DEF JobsRan
  <2>5. \A d \in Consumers : at'[d] = "awaiting" /\ result'[d] # "none" /\ CurrentJob(d)'.real => CurrentJob(d)' \in ran'
    <3> SUFFICES ASSUME NEW d \in Consumers, at'[d] = "awaiting", result'[d] # "none", CurrentJob(d)'.real
                 PROVE  CurrentJob(d)' \in ran'
      OBVIOUS
    <3>1. at[d] = "awaiting" /\ CurrentJob(d)' = CurrentJob(d)
      BY <1>0, <2>1
    <3>2. CASE result[d] # "none"
      BY <2>1, <3>1, <3>2 DEF JobsRan
    <3>3. CASE result[d] = "none"
      BY <2>1, <2>4, <3>1, <3>3
    <3> QED
      BY <3>2, <3>3
  <2>6. \A d \in Consumers : at'[d] # "awaiting" => result'[d] = "none"
    BY <2>1 DEF JobsRan
  <2> QED
    BY <2>2, <2>3, <2>5, <2>6 DEF JobsRan
<1>9. ASSUME NEW c \in Consumers, Crash(c)
      PROVE  JobsRan'
  <2>1. /\ Leave(c) /\ UNCHANGED <<row, ran>> /\ busy' = [busy EXCEPT ![c] = {}]
        /\ busy \in [Consumers -> SUBSET Jobs]
    BY <1>0, <1>9 DEF Crash, TypeOK
  <2>2. RegisteredWorkRan'
    BY <2>1, CompletedWorkKept DEF JobsRan
  <2> QED
    BY <2>1, <2>2, LeaverAwaitsNothing DEF JobsRan
<1>10. CASE UNCHANGED vars
  BY <1>1, <1>10 DEF vars
<1> QED
  BY <1>2, <1>3, <1>4, <1>5, <1>6, <1>7, <1>8, <1>9, <1>10 DEF Next, Step

\* A completed row of a registered type had its handler started in its last attempt: no late
\* result of an earlier attempt, no no-op handler and no lost race can complete it.
THEOREM CompletedWorkRan == Spec => []RegisteredWorkRan
<1>1. Init => JobsRan
  <2> SUFFICES ASSUME Init PROVE JobsRan
    OBVIOUS
  <2>1. \A t \in Tasks : row[t].status = "absent"
    BY DEF Init, NoRow
  <2> QED
    BY <2>1 DEF Init, JobsRan, RegisteredWorkRan, CompletedRan
<1>2. JobsRan => RegisteredWorkRan
  BY DEF JobsRan
<1> QED
  BY <1>1, <1>2, NextJobsRan, QueueInvariant, PTL DEF Spec

-----------------------------------------------------------------------------
(* Refinement                                                              *)

\* A claimed row has its consumer as holder, an unclaimed one has none.
LEMMA HolderIsClaimer ==
    ASSUME ExclusiveClaim
    PROVE  /\ \A c \in Consumers : Claimed(c) => HolderOf(held[c]) = c
           /\ \A t \in Tasks : (\A c \in Consumers : ~(Claimed(c) /\ held[c] = t)) => HolderOf(t) = NoTask
           /\ \A t \in Tasks : HolderOf(t) \in Consumers \cup {NoTask}
<1>1. ASSUME NEW c \in Consumers, Claimed(c)
      PROVE  HolderOf(held[c]) = c
  <2>1. c \in WorkingOn(held[c])
    BY <1>1 DEF WorkingOn
  <2>2. WorkingOn(held[c]) = {c}
    BY <1>1, <2>1 DEF WorkingOn, ExclusiveClaim
  <2> QED
    BY <2>2 DEF HolderOf, OneOf
<1>2. ASSUME NEW t \in Tasks, \A c \in Consumers : ~(Claimed(c) /\ held[c] = t)
      PROVE  HolderOf(t) = NoTask
  <2>1. WorkingOn(t) = {}
    BY <1>2 DEF WorkingOn
  <2> QED
    BY <2>1 DEF HolderOf, OneOf
<1>3. \A t \in Tasks : HolderOf(t) \in Consumers \cup {NoTask}
  BY DEF HolderOf, OneOf, WorkingOn
<1> QED
  BY <1>1, <1>2, <1>3

\* A step that changes no claim changes no holder.
LEMMA HoldersKept ==
    ASSUME \A c \in Consumers : (Claimed(c)' <=> Claimed(c)) /\ (Claimed(c) => held'[c] = held[c])
    PROVE  \A t \in Tasks : HolderOf(t)' = HolderOf(t)
<1>1. \A t \in Tasks : WorkingOn(t)' = WorkingOn(t)
  BY DEF WorkingOn
<1> QED
  BY <1>1 DEF HolderOf

\* A consumer that lets go of its task leaves it without a holder and does not
\* disturb the holders of the others.
LEMMA HolderReleased ==
    ASSUME IInv, NEW c \in Consumers, Claimed(c), Leave(c), NEW t \in Tasks
    PROVE  HolderOf(t)' = IF t = held[c] THEN NoTask ELSE HolderOf(t)
<1>1. held[c] \in Tasks /\ \A d \in Consumers : d # c /\ Claimed(d) => held[d] # held[c]
  BY DEF IInv, ExclusiveClaim
<1>2. /\ ~Claimed(c)'
      /\ \A d \in Consumers : d # c => (Claimed(d)' <=> Claimed(d)) /\ held'[d] = held[d]
  BY DEF Leave, Claimed, IInv, TypeOK
<1>3. CASE t = held[c]
  <2>1. WorkingOn(t)' = {}
    BY <1>1, <1>2, <1>3 DEF WorkingOn
  <2> QED
    BY <1>3, <2>1 DEF HolderOf, OneOf
<1>4. CASE t # held[c]
  <2>1. WorkingOn(t)' = WorkingOn(t)
    BY <1>2, <1>4 DEF WorkingOn
  <2> QED
    BY <1>4, <2>1 DEF HolderOf
<1> QED
  BY <1>3, <1>4

\* The verdict steps of the queue are Settle steps of the abstraction.
LEMMA VerdictSettles ==
    ASSUME IInv, NEW c \in Consumers, Claimed(c), Leave(c),
           row' \in [Tasks -> Row],
           \A u \in Tasks : u # held[c] => row'[u] = row[u],
           NEW v \in {"completed", "retrying", "dead"}, row'[held[c]].status = v,
           row'[held[c]].attempts = row[held[c]].attempts,
           v = "dead" => row[held[c]].attempts = MaxAttempts,
           v = "retrying" => row[held[c]].attempts < MaxAttempts
    PROVE  Lifecycle!Next
<1> DEFINE t == held[c]
<1>1. t \in Tasks /\ row[t].status = "running" /\ row \in [Tasks -> Row]
  BY DEF IInv, ExclusiveClaim, TypeOK
<1>2. HolderOf(t) = c /\ c # NoTask
  BY <1>1, HolderIsClaimer, QueueAssumption DEF IInv
<1>3. [u \in Tasks |-> row'[u].status] = [[u \in Tasks |-> row[u].status] EXCEPT ![t] = v]
  BY <1>1
<1>4. [u \in Tasks |-> row'[u].attempts] = [u \in Tasks |-> row[u].attempts]
  BY <1>1
<1>5. [u \in Tasks |-> HolderOf(u)'] = [[u \in Tasks |-> HolderOf(u)] EXCEPT ![t] = NoTask]
  BY <1>1, HolderReleased
<1>6. Lifecycle!Settle(t, v)
  BY <1>1, <1>2, <1>3, <1>4, <1>5 DEF Lifecycle!Settle
<1> QED
  BY <1>1, <1>6 DEF Lifecycle!Next

\* Every step of the queue is a step of TaskLifecycle or leaves it unchanged.
LEMMA StepRefines == IInv /\ [Next]_vars => [Lifecycle!Next]_(Lifecycle!vars)
<1> SUFFICES ASSUME IInv, [Next]_vars PROVE [Lifecycle!Next]_(Lifecycle!vars)
  OBVIOUS
<1>0. row \in [Tasks -> Row] /\ ExclusiveClaim
  BY DEF IInv, TypeOK
<1>1. ASSUME NEW t \in Tasks, NEW ty \in Types, NEW p \in Priorities, Enqueue(t, ty, p)
      PROVE  Lifecycle!Next
  <2>1. /\ row[t].status = "absent"
        /\ row' = [row EXCEPT ![t] = [status |-> "queued", attempts |-> 0, priority |-> p, type |-> ty]]
        /\ UNCHANGED <<at, held>>
    BY <1>1 DEF Enqueue
  <2>3. [u \in Tasks |-> row'[u].status] = [[u \in Tasks |-> row[u].status] EXCEPT ![t] = "queued"]
    BY <1>0, <2>1
  <2>4. [u \in Tasks |-> row'[u].attempts] = [[u \in Tasks |-> row[u].attempts] EXCEPT ![t] = 0]
    BY <1>0, <2>1
  <2>5. \A u \in Tasks : HolderOf(u)' = HolderOf(u)
    BY <2>1, HoldersKept DEF Claimed
  <2>6. Lifecycle!Submit(t)
    BY <2>1, <2>3, <2>4, <2>5 DEF Lifecycle!Submit
  <2> QED
    BY <2>6 DEF Lifecycle!Next
<1>2. ASSUME NEW c \in Consumers, ClaimUpdate(c)
      PROVE  Lifecycle!Next
  <2> DEFINE t == held[c]
  <2>1. /\ t \in Tasks /\ row[t].status \in Waiting /\ row[t].attempts < MaxAttempts
        /\ at[c] = "selected" /\ at' = [at EXCEPT ![c] = "claimed"] /\ held' = held
        /\ at \in [Consumers -> Places]
    BY <1>2 DEF ClaimUpdate, IInv, TypeOK, DeadIsExhausted
  <2>2. row' = [row EXCEPT ![t] = AsClaimed(row[t])]
    BY <1>2 DEF ClaimUpdate
  <2>3. AsClaimed(row[t]).status = "running" /\ AsClaimed(row[t]).attempts = row[t].attempts + 1
    BY <1>0, <2>1 DEF AsClaimed, Row
  <2>4. [u \in Tasks |-> row'[u].status] = [[u \in Tasks |-> row[u].status] EXCEPT ![t] = "running"]
    BY <1>0, <2>1, <2>2, <2>3
  <2>5. [u \in Tasks |-> row'[u].attempts] = [[u \in Tasks |-> row[u].attempts] EXCEPT ![t] = row[t].attempts + 1]
    BY <1>0, <2>1, <2>2, <2>3
  <2>6. \A u \in Tasks : WorkingOn(u)' = IF u = t THEN {c} ELSE WorkingOn(u)
    <3>1. \A d \in Consumers : d # c => (Claimed(d)' <=> Claimed(d))
      BY <2>1 DEF Claimed
    <3>2. Claimed(c)' /\ ~Claimed(c)
      BY <2>1 DEF Claimed
    <3>3. \A d \in Consumers : Claimed(d) => held[d] # t
      BY <1>0, <2>1 DEF ExclusiveClaim, Waiting
    <3> QED
      BY <2>1, <3>1, <3>2, <3>3 DEF WorkingOn
  <2>7. \A u \in Tasks : HolderOf(u)' = IF u = t THEN c ELSE HolderOf(u)
    <3>1. OneOf({c}) = c
      BY DEF OneOf
    <3> QED
      BY <2>6, <3>1 DEF HolderOf
  <2>8. [u \in Tasks |-> HolderOf(u)'] = [[u \in Tasks |-> HolderOf(u)] EXCEPT ![t] = c]
    BY <2>1, <2>7
  <2>9. Lifecycle!HandOut(t, c)
    BY <2>1, <2>4, <2>5, <2>8 DEF Lifecycle!HandOut, Lifecycle!Waiting, Waiting
  <2> QED
    BY <2>1, <2>9 DEF Lifecycle!Next
<1>3. ASSUME NEW c \in Consumers, NoHandler(c) \/ Fail(c) \/ TimeOut(c)
      PROVE  Lifecycle!Next
  <2>1. Claimed(c) /\ FailRow(held[c]) /\ Leave(c)
    BY <1>3 DEF NoHandler, Fail, TimeOut, Claimed
  <2>2. held[c] \in Tasks /\ row[held[c]].attempts \in 1..MaxAttempts /\ TypeOK
    BY <2>1 DEF IInv, ExclusiveClaim
  <2>3. /\ row' \in [Tasks -> Row]
        /\ \A u \in Tasks : u # held[c] => row'[u] = row[u]
        /\ row'[held[c]].status = IF row[held[c]].attempts = MaxAttempts THEN "dead" ELSE "retrying"
        /\ row'[held[c]].attempts = row[held[c]].attempts
    BY <2>1, <2>2, FailRowResult
  <2>4. row[held[c]].attempts # MaxAttempts => row[held[c]].attempts < MaxAttempts
    BY <2>2, QueueAssumption
  <2>5. CASE row[held[c]].attempts = MaxAttempts
    BY <2>1, <2>3, <2>5, VerdictSettles
  <2>6. CASE row[held[c]].attempts # MaxAttempts
    BY <2>1, <2>3, <2>4, <2>6, VerdictSettles
  <2> QED
    BY <2>5, <2>6
<1>4. ASSUME NEW c \in Consumers, Complete(c)
      PROVE  Lifecycle!Next
  <2>1. Claimed(c) /\ Leave(c)
    BY <1>4 DEF Complete, Claimed
  <2>2. held[c] \in Tasks
    BY <2>1, <1>0 DEF ExclusiveClaim
  <2>3. /\ row' \in [Tasks -> Row]
        /\ \A u \in Tasks : u # held[c] => row'[u] = row[u]
        /\ row'[held[c]].status = "completed"
        /\ row'[held[c]].attempts = row[held[c]].attempts
    BY <1>0, <1>4, <2>2 DEF Complete, Row, Statuses
  <2> QED
    BY <2>1, <2>3, VerdictSettles
<1>5. ASSUME NEW c \in Consumers, Crash(c)
      PROVE  Lifecycle!Next \/ UNCHANGED Lifecycle!vars
  <2>1. Leave(c) /\ row' = row
    BY <1>5 DEF Crash
  <2>2. CASE Claimed(c)
    <3>1. held[c] \in Tasks /\ HolderOf(held[c]) = c /\ c # NoTask
      BY <1>0, <2>2, HolderIsClaimer, QueueAssumption DEF ExclusiveClaim
    <3>2. [u \in Tasks |-> HolderOf(u)'] = [[u \in Tasks |-> HolderOf(u)] EXCEPT ![held[c]] = NoTask]
      BY <2>1, <2>2, <3>1, HolderReleased
    <3>3. Lifecycle!Orphan(held[c])
      BY <2>1, <3>1, <3>2 DEF Lifecycle!Orphan
    <3> QED
      BY <3>1, <3>3 DEF Lifecycle!Next
  <2>3. CASE ~Claimed(c)
    <3>1. \A d \in Consumers : (Claimed(d)' <=> Claimed(d)) /\ (Claimed(d) => held'[d] = held[d])
      BY <2>1, <2>3 DEF Leave, Claimed, IInv, TypeOK
    <3>2. \A u \in Tasks : HolderOf(u)' = HolderOf(u)
      BY <3>1, HoldersKept
    <3> QED
      BY <2>1, <3>2 DEF Lifecycle!vars
  <2> QED
    BY <2>2, <2>3
<1>6. ASSUME row' = row,
             \A d \in Consumers : (Claimed(d)' <=> Claimed(d)) /\ (Claimed(d) => held'[d] = held[d])
      PROVE  UNCHANGED Lifecycle!vars
  BY <1>6, HoldersKept DEF Lifecycle!vars
<1>7. ASSUME NEW c \in Consumers, NEW s \in Sites,
             SelectCandidate(c, s) \/ ClaimMissed(c) \/ SubmitJob(c) \/ StartJob(c)
      PROVE  UNCHANGED Lifecycle!vars
  <2>1. /\ row' = row
        /\ \A d \in Consumers : (Claimed(d)' <=> Claimed(d)) /\ (Claimed(d) => held'[d] = held[d])
    BY <1>7 DEF SelectCandidate, ClaimMissed, SubmitJob, StartJob, Claimed, IInv, TypeOK
  <2> QED
    BY <1>6, <2>1
<1>8. ASSUME NEW c \in Consumers, NEW j \in busy[c], NEW r \in {"ok", "raised"}, FinishJob(c, j, r)
      PROVE  UNCHANGED Lifecycle!vars
  BY <1>6, <1>8 DEF FinishJob, Claimed
<1>9. ASSUME NEW t \in Tasks, BackoffElapses(t)
      PROVE  UNCHANGED Lifecycle!vars
  BY <1>6, <1>9 DEF BackoffElapses, Claimed
<1>10. CASE UNCHANGED vars
  BY <1>6, <1>10 DEF vars, Claimed
<1>11. Sites # {}
  BY DEF Sites
<1> QED
  BY <1>1, <1>2, <1>3, <1>4, <1>5, <1>7, <1>8, <1>9, <1>10, <1>11 DEF Next, Step

\* The queue keeps the promise stated in TaskLifecycle: one holder at a time,
\* at most MaxAttempts hand-outs, verdicts from the holder alone.
THEOREM QueueImplementsLifecycle == Spec => ImplementsLifecycle
<1>1. Init => Lifecycle!Init
  <2> SUFFICES ASSUME Init PROVE Lifecycle!Init
    OBVIOUS
  <2>1. \A t \in Tasks : row[t].status = "absent" /\ row[t].attempts = 0
    BY DEF Init, NoRow
  <2>2. \A c \in Consumers : ~Claimed(c)
    BY DEF Init, Claimed
  <2>3. \A t \in Tasks : HolderOf(t) = NoTask
    BY <2>2, HolderIsClaimer DEF ExclusiveClaim
  <2> QED
    BY <2>1, <2>3 DEF Lifecycle!Init
<1> QED
  BY <1>1, StepRefines, QueueInvariant, PTL DEF Spec, ImplementsLifecycle, Lifecycle!Spec
=============================================================================

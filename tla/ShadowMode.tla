----------------------------- MODULE ShadowMode -----------------------------
(* Shadow mode (agents/shadow_mode): the observer writes down what it would  *)
(* trade -- an observation, then the prediction derived from it -- and an    *)
(* evaluator grades the prediction later against the archived candles of the *)
(* underlying.  Both are started by hand, more than one at a time if someone *)
(* likes.  Candles reach the archive whenever it is filled.                  *)
EXTENDS Integers, Sequences, FiniteSets, FiniteSetsExt

CONSTANTS Evaluators,
          Signals,  \* records of direction, entry and target: the premium now and the premium hoped for
          Spot,     \* the underlying whenever something is observed
          Levels,   \* what it may do within a candle: records of low and high
          Valid,    \* how long a prediction is open
          Limit,    \* predictions taken up by one pass
          MaxTime, MaxPredictions,
          Nothing

VARIABLES now,
          archive,      \* candles of the underlying by the time they close, or Nothing
          observed,     \* the observation that has no prediction yet, or Nothing
          predictions,  \* in the order they were made
          outcomes,     \* for each of them
          pass          \* for each evaluator: what is left of its pass, and the verdict it is about to store for the first of it

shadow == <<now, archive, observed, predictions, outcomes, pass>>

Ids == 1 .. MaxPredictions
Rest == [left |-> {}, verdict |-> Nothing]

Init == /\ now = 0 /\ archive = [t \in 1 .. MaxTime |-> Nothing]
        /\ observed = Nothing /\ predictions = <<>>
        /\ outcomes = [p \in Ids |-> Nothing]
        /\ pass = [e \in Evaluators |-> Rest]

------------------------------------------------------------------------------
\* observe_and_predict: two rows in two transactions.
Observe == /\ observed = Nothing /\ Len(predictions) < MaxPredictions
           /\ \E s \in Signals :
                 observed' = [at |-> now, until |-> now + Valid, underlying |-> Spot, direction |-> s.direction,
                              entry |-> s.entry, low |-> Min({s.entry, s.target}), high |-> Max({s.entry, s.target})]
           /\ UNCHANGED <<now, archive, predictions, outcomes, pass>>

Predict == /\ observed # Nothing
           /\ predictions' = Append(predictions, observed) /\ observed' = Nothing
           /\ UNCHANGED <<now, archive, outcomes, pass>>

\* The observer dies in between: an observation without a prediction.
Abandon == /\ observed # Nothing /\ observed' = Nothing
           /\ UNCHANGED <<now, archive, predictions, outcomes, pass>>

------------------------------------------------------------------------------
Window(p) == {t \in DOMAIN archive : archive[t] # Nothing /\ p.at < t /\ t <= p.until}

\* The best the underlying did, against the entry -- which is a premium of the option.
Move(p) == IF p.direction = "CE" THEN Max({archive[t].high : t \in Window(p)}) - p.entry
           ELSE p.entry - Min({archive[t].low : t \in Window(p)})

Expired == [class |-> "expired", at |-> now, candles |-> 0]

\* _classify: Nothing while the window is open and empty.  The first candle in it is enough.
Classify(p) ==
    IF p.direction = Nothing THEN Expired
    ELSE IF Window(p) = {} THEN IF now < p.until THEN Nothing ELSE Expired
    ELSE [class |-> IF Move(p) <= 0 THEN "incorrect" ELSE IF Move(p) >= p.high - p.low THEN "correct" ELSE "partial",
          at |-> now, candles |-> Cardinality(Window(p))]

\* list_predictions_pending_evaluation, oldest first.
Pending == LET open == {p \in DOMAIN predictions : outcomes[p] = Nothing}
           IN  {p \in open : Cardinality({q \in open : q < p}) < Limit}

Begin(e) == /\ pass[e] = Rest /\ Pending # {}
            /\ pass' = [pass EXCEPT ![e].left = Pending]
            /\ UNCHANGED <<now, archive, observed, predictions, outcomes>>

\* The prediction a pass is at, and what is left after it.
At(e)    == Min(pass[e].left)
Later(e) == pass[e].left \ {At(e)}

\* evaluate_prediction up to the verdict: one that is graded or cannot be graded yet is passed over.
Judge(e) ==
    /\ pass[e].left # {} /\ pass[e].verdict = Nothing
    /\ LET verdict == IF outcomes[At(e)] # Nothing THEN Nothing ELSE Classify(predictions[At(e)])
       IN  pass' = [pass EXCEPT ![e] = [left    |-> IF verdict = Nothing THEN Later(e) ELSE @.left,
                                        verdict |-> verdict]]
    /\ UNCHANGED <<now, archive, observed, predictions, outcomes>>

\* Mutant: the row is replaced.
GradableAnyway(p) == TRUE
\* shadow_outcomes.prediction_id is UNIQUE.
Gradable(p) == outcomes[p] = Nothing

\* record_outcome: the evaluator that comes second fails, and its pass with it.
Record(e) ==
    /\ pass[e].verdict # Nothing
    /\ IF Gradable(At(e))
       THEN /\ outcomes' = [outcomes EXCEPT ![At(e)] = pass[e].verdict]
            /\ pass' = [pass EXCEPT ![e] = [left |-> Later(e), verdict |-> Nothing]]
       ELSE pass' = [pass EXCEPT ![e] = Rest] /\ UNCHANGED outcomes
    /\ UNCHANGED <<now, archive, observed, predictions>>

------------------------------------------------------------------------------
Tick == now < MaxTime /\ now' = now + 1 /\ UNCHANGED <<archive, observed, predictions, outcomes, pass>>

Archive == /\ \E t \in 1 .. now, l \in Levels : archive[t] = Nothing /\ archive' = [archive EXCEPT ![t] = l]
           /\ UNCHANGED <<now, observed, predictions, outcomes, pass>>

Next == Observe \/ Predict \/ Abandon \/ Tick \/ Archive \/ \E e \in Evaluators : Begin(e) \/ Judge(e) \/ Record(e)

------------------------------------------------------------------------------
TypeOK == /\ now \in 0 .. MaxTime
          /\ \A t \in DOMAIN archive : archive[t] = Nothing \/ (archive[t] \in Levels /\ t <= now)
          /\ Len(predictions) <= MaxPredictions
          /\ \A p \in Ids : outcomes[p] # Nothing => p <= Len(predictions) /\ outcomes[p].class \in {"correct", "partial", "incorrect", "expired"}
          /\ \A e \in Evaluators : pass[e].verdict # Nothing => pass[e].left # {}

\* A signal is written off as expired only after its window has closed and without a candle to
\* judge it by: a pass that comes early, or two of them, never cost a prediction its verdict.
ExpiredHadItsTime ==
    \A p \in DOMAIN predictions :
        outcomes[p] # Nothing /\ outcomes[p].class = "expired" /\ predictions[p].direction # Nothing =>
            outcomes[p].at >= predictions[p].until /\ outcomes[p].candles = 0

\* "Append-only -- nothing here is ever UPDATEd": a verdict stays, whatever two evaluators that
\* classified the same prediction at different moments make of it.
VerdictIsFinal == [][\A p \in Ids : outcomes[p] # Nothing => outcomes'[p] = outcomes[p]]_shadow
=============================================================================

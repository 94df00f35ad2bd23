---------------------------- MODULE Qualification ----------------------------
(* What a fresh recommendation is put to before it would be acted on          *)
(* (ai_trading_engine.evaluate with the shadow flags on): the market regime   *)
(* (regime_profile.py), the failure checks (failure_gate.py) and the          *)
(* production qualification (signal_qualification.py).  Each of them reads    *)
(* the store for itself, while the market loop goes on writing to it.  The    *)
(* two directions are alike: what is for the trade is "with", the opposite    *)
(* "against".                                                                 *)
EXTENDS Integers, Sequences, FiniteSets, FiniteSetsExt

CONSTANTS Confidences, \* confidences of a recommendation
          Ranges,      \* average true ranges
          MinHistory,  \* earlier readings a volatility rank needs
          MaxRows,     \* structure readings ever written
          Nothing

VARIABLES structures, \* the stored market structure, newest first
          recent,     \* what the stored readings of the strike do not confirm
          signal,     \* the recommendation and what its cycle read, or Nothing
          profile,    \* the volatility profile, or Nothing
          failed,     \* the failure checks that failed, or Nothing
          verdict     \* the production action, or Nothing

qualification == <<structures, recent, signal, profile, failed, verdict>>

Evidence == [confidence : Confidences, poor : BOOLEAN, trend : {"TRENDING", "RANGING", "UNKNOWN"},
             shape : {"with", "against", "MIXED"}, near : BOOLEAN, vwap : {"with", "against"},
             atm : BOOLEAN, strike : BOOLEAN, hostile : BOOLEAN, expiry : {"none", "decay", "gamma"}]
Histories == SUBSET {"volume", "premium"}
Grades == [ACTIONABLE |-> 3, WATCHLIST |-> 2, BLOCKED |-> 1]

TypeOK == /\ \A i \in DOMAIN structures : structures[i] \in [id : 1 .. MaxRows, atr : Ranges]
          /\ recent \in Histories
          /\ signal = Nothing \/ signal.evidence \in Evidence
          /\ failed = Nothing \/ failed \subseteq {"reward_risk", "confidence", "regime", "major_level_proximity"}
          /\ verdict = Nothing \/ verdict.grade \in DOMAIN Grades

Init == /\ structures = <<>> /\ recent = {}
        /\ signal = Nothing /\ profile = Nothing /\ failed = Nothing /\ verdict = Nothing

------------------------------------------------------------------------------
(* The market loop, at any time.                                              *)
Insert == /\ Len(structures) < MaxRows
          /\ \E atr \in Ranges : structures' = <<[id |-> Len(structures) + 1, atr |-> atr]>> \o structures
          /\ recent' \in Histories
          /\ UNCHANGED <<signal, profile, failed, verdict>>

(* A cycle of the engine: its structure is the newest there is now.           *)
Begin == /\ signal = Nothing
         /\ \E e \in Evidence : signal' = [evidence |-> e,
                                           own |-> IF structures = <<>> THEN Nothing ELSE structures[1]]
         /\ UNCHANGED <<structures, recent, profile, failed, verdict>>

------------------------------------------------------------------------------
(* regime_profile.py                                                          *)

\* classify: the second reading of the table, without the row already held, told by its id.
Earlier(own) == SelectSeq(structures, LAMBDA r : own = Nothing \/ r.id # own.id)

\* _volatility_regime: where the range stands between the lowest and the highest.
Volatility(own, history) ==
    IF own = Nothing \/ Len(history) < MinHistory THEN "UNKNOWN"
    ELSE LET all == {history[i].atr : i \in DOMAIN history} \cup {own.atr}
             low == Min(all) high == Max(all)
         IN  IF low = high THEN "NORMAL"
             ELSE IF 3 * (own.atr - low) >= 2 * (high - low) THEN "HIGH"
             ELSE IF 3 * (own.atr - low) <= high - low THEN "LOW" ELSE "NORMAL"

\* _breakout_confirmation, fake_breakout_filter: what is against the breakout at a strike.  Only
\* what is known to be against it counts.
Unconfirmed(history, e, oi) ==
    history \cup (IF oi THEN {} ELSE {"oi"}) \cup (IF e.vwap = "against" THEN {"vwap"} ELSE {})

\* classify_market_regime: a trend nothing contradicts, or a breakout out of a choppy range that
\* everything confirms.  All else waits or is refused.
Candidate(e, history) ==
    \/ e.trend = "TRENDING" /\ e.shape # "against"
    \/ e.trend = "RANGING" /\ e.shape = "MIXED" /\ e.near /\ Unconfirmed(history, e, e.atm) = {}

(* failure_gate.run_failure_checks, and the profile classify makes on its way; *)
(* without a structure neither regime nor levels are evaluated.               *)
Check == /\ signal # Nothing /\ failed = Nothing
         /\ LET e == signal.evidence known == signal.own # Nothing IN
            /\ profile' = [history |-> Earlier(signal.own), at |-> structures,
                           volatility |-> Volatility(signal.own, Earlier(signal.own))]
            /\ failed' = {check \in {"reward_risk", "confidence", "regime", "major_level_proximity"} :
                            \/ check = "reward_risk" /\ e.poor
                            \/ check = "confidence" /\ e.confidence < 60
                            \/ check = "regime" /\ known /\ ~Candidate(e, recent)
                            \/ check = "major_level_proximity" /\ known /\ e.hostile}
         /\ UNCHANGED <<structures, recent, signal, verdict>>

------------------------------------------------------------------------------
(* signal_qualification.py                                                    *)
Clamp(x) == IF x < 0 THEN 0 ELSE IF x > 100 THEN 100 ELSE x

\* The confidence after the evidence: VWAP against the trade costs only when something else is too.
Weighed(e, against) ==
    Clamp(e.confidence - (IF "vwap" \in against /\ against # {"vwap"} THEN 25 ELSE 0)
                       - (IF e.strike THEN 0 ELSE 20)
                       + (IF against = {} THEN 10 ELSE 0)
                       - (IF e.expiry = "gamma" /\ against # {} THEN 15 ELSE 0))

Floor(e) == IF e.expiry = "none" THEN 60 ELSE 70

\* Mutant: the confidence decides before the level does.
GradeUnblocked(e, against, checks) ==
    IF e.confidence < 60 \/ Weighed(e, against) < 40 THEN "BLOCKED"
    ELSE IF Weighed(e, against) >= Floor(e) /\ against = {} THEN "ACTIONABLE"
    ELSE "WATCHLIST"
\* qualify_signal: the gates in their order.
Grade(e, against, checks) ==
    IF \/ e.confidence < 60 \/ Weighed(e, against) < 40
       \/ "regime" \in checks \/ "reward_risk" \in checks
       \/ e.expiry = "gamma" /\ against # {} /\ Weighed(e, against) < Floor(e)
       \/ "major_level_proximity" \in checks /\ against # {}
    THEN "BLOCKED"
    ELSE IF Weighed(e, against) < Floor(e) \/ against # {} THEN "WATCHLIST" ELSE "ACTIONABLE"

\* The breakout is looked at again, at the strike of the trade and in the store as it is now.
Against(e) == Unconfirmed(recent, e, e.strike)

Qualify == /\ failed # Nothing /\ verdict = Nothing
           /\ verdict' = [grade |-> Grade(signal.evidence, Against(signal.evidence), failed),
                          against |-> Against(signal.evidence)]
           /\ UNCHANGED <<structures, recent, signal, profile, failed>>

(* The recommendation is returned with what was found out about it.           *)
Return == /\ verdict # Nothing
          /\ signal' = Nothing /\ profile' = Nothing /\ failed' = Nothing /\ verdict' = Nothing
          /\ UNCHANGED <<structures, recent>>

Next == Insert \/ Begin \/ Check \/ Qualify \/ Return

------------------------------------------------------------------------------
(* A range is ranked among every other reading of the table and never against *)
(* itself, however many rows the market loop wrote between the two readings   *)
(* (the race the comment in regime_profile.classify is about).                *)
RankedAmongOthers ==
    profile # Nothing /\ signal.own # Nothing =>
        {profile.history[i].id : i \in DOMAIN profile.history} =
            {profile.at[i].id : i \in DOMAIN profile.at} \ {signal.own.id}

(* Between the two looks the store may change, but what is called actionable  *)
(* passed every check with a say -- reward, confidence, regime -- and was     *)
(* confirmed when it was called so.                                           *)
ActionableIsVetted ==
    verdict # Nothing /\ verdict.grade = "ACTIONABLE" =>
        failed \subseteq {"major_level_proximity"} /\ verdict.against = {} /\ signal.evidence.strike

(* Evidence only ever counts one way: with one confirmation less, on an expiry *)
(* day, or with one check more failed, the same recommendation never does      *)
(* better.                                                                    *)
WorseNeverPromotes ==
    verdict # Nothing =>
        LET e == signal.evidence
            grade(x, against, checks) == Grades[Grade(x, against, checks)]
        IN  /\ \A more \in {"volume", "premium", "vwap"} :
                  grade(e, verdict.against \cup {more}, failed) <= Grades[verdict.grade]
            /\ \A x \in {"decay", "gamma"} :
                  e.expiry # "gamma" => grade([e EXCEPT !.expiry = x], verdict.against, failed) <= Grades[verdict.grade]
            /\ \A more \in {"regime", "reward_risk", "major_level_proximity"} :
                  grade(e, verdict.against, failed \cup {more}) <= Grades[verdict.grade]

(* In a choppy market -- no trend, no shape -- only a price at a level may go  *)
(* on (classify_market_regime: "a chop read is overridden exactly when ...    *)
(* price is genuinely near a structural level").                              *)
ChopNeedsALevel ==
    failed # Nothing /\ signal.own # Nothing /\ "regime" \notin failed =>
        LET e == signal.evidence IN e.trend = "TRENDING" \/ (e.near /\ e.vwap = "with" /\ e.atm)
=============================================================================

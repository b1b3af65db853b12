--------------------------- MODULE ChallanRating ---------------------------
(***************************************************************************)
(* How a challan is classified (violations/service.py) and how the listed  *)
(* ones make a score, a risk level and a premium (score/engine.py).        *)
(*                                                                         *)
(* A category is its place in the priority order, THZ 1 to THZ 12.  The    *)
(* text of a challan is how many keywords of each category it contains.    *)
(***************************************************************************)
EXTENDS Integers, FiniteSetsExt

CONSTANTS
    Hinted,       \* categories whose keywords occur in the texts
    MaxHits,      \* bound on the keywords of a category in a text
    MaxChallans   \* bound on the challans of the vehicle

Category == 1..12
ASSUME RatingAssumption == Hinted \subseteq Category /\ MaxHits \in Nat

VARIABLES
    listed,   \* the challans the vehicle is scored by: a count per category
    pending   \* a fetched challan, classified and not yet inserted

ratingVars == <<listed, pending>>

\* THZ_CATEGORY_META
Deduction == <<100, 90, 90, 80, 70, 60, 50, 50, 40, 30, 20, 10>>

-----------------------------------------------------------------------------
(* Classification *)

\* A keyword of several words counts two, one of a single word counts one, also where
\* it only occurs inside a longer word or keyword.
Hits == [words : 0..MaxHits, phrases : 0..MaxHits]
Text == [Hinted -> Hits]
ScoreOf(text, c) == IF c \in Hinted THEN 2 * text[c].phrases + text[c].words ELSE 0

\* Fault: the last of equal categories is kept.
BetterOrEqual(text, best, c) == IF ScoreOf(text, c) >= ScoreOf(text, best) THEN c ELSE best
Better(text, best, c) == IF ScoreOf(text, c) > ScoreOf(text, best) THEN c ELSE best

Lightest == 12
\* The categories in order of priority; before the first the lightest is the best, with
\* no score of its own.
Compared(text, best, c) ==
    IF best # 0 THEN Better(text, best, c) ELSE IF ScoreOf(text, c) = 0 THEN 0 ELSE c
Best(text) ==
    LET upTo[c \in 0..12] == IF c = 0 THEN 0 ELSE Compared(text, upTo[c - 1], c) IN upTo[12]

\* What the model answers: a category, or nothing usable (an invalid answer, a failed
\* call, no call on staging).
Answer == Category \cup {0}
ByModel(answer) == IF answer = 0 THEN Lightest ELSE answer

\* _classify: an empty text is the lightest, one without keywords is the model's.
Classified(empty, text, answer) ==
    IF empty THEN Lightest
    ELSE IF Best(text) = 0 THEN ByModel(answer) ELSE Best(text)

-----------------------------------------------------------------------------
(* Severity and score *)

\* get_severity_from_thz_category: SEVERE is 3, MODERATE 2, LOW 1.
Severity(c) == IF c \in 1..3 THEN 3 ELSE IF c \in 4..10 THEN 2 ELSE 1

\* Over all categories.
Sum(f) == LET upTo[c \in 0..12] == IF c = 0 THEN 0 ELSE upTo[c - 1] + f[c] IN upTo[12]
Deductions == Sum([c \in Category |-> listed[c] * Deduction[c]])
MaxScore == 300
Score == Max({0, MaxScore - Deductions})

Band(low, high, level, premium) ==
    [scores |-> low .. high - 1, level |-> level, premium |-> premium]
\* Fault: a band starts one too late.
BandsShifted ==
    <<Band(285, 301, 5, -20), Band(271, 285, 4, -10), Band(240, 270, 3, 25),
      Band(210, 240, 2, 50), Band(180, 210, 1, 75), Band(150, 180, 1, 100),
      Band(120, 150, 0, 125), Band(90, 120, 0, 150), Band(60, 90, 0, 175),
      Band(0, 60, 0, 200)>>
\* _RISK_BANDS, levels from SEVERE, 0, to EXEMPLARY, 5.
Bands ==
    <<Band(285, 301, 5, -20), Band(270, 285, 4, -10), Band(240, 270, 3, 25),
      Band(210, 240, 2, 50), Band(180, 210, 1, 75), Band(150, 180, 1, 100),
      Band(120, 150, 0, 125), Band(90, 120, 0, 150), Band(60, 90, 0, 175),
      Band(0, 60, 0, 200)>>

\* _get_risk_level: the first band that has the score.
Risk(score) ==
    LET hit == {i \in DOMAIN Bands : score \in Bands[i].scores}
    IN  IF hit = {} THEN Band(0, 0, 0, 200) ELSE Bands[Min(hit)]

Counted(severity) ==
    Sum([c \in Category |-> IF Severity(c) = severity THEN listed[c] ELSE 0])
Total == Sum(listed)

-----------------------------------------------------------------------------
(* Actions *)

Nothing == [known |-> FALSE, text |-> <<>>, category |-> Lightest]

\* _build_challan_to_insert: the model is asked only for a text without keywords.
Classify ==
    /\ ~pending.known /\ Total < MaxChallans
    /\ \E text \in Text :
          LET unsaid == Best(text) = 0
          IN  \E empty \in {FALSE, unsaid}, answer \in IF unsaid THEN Answer ELSE {0} :
                  pending' = [known |-> TRUE, text |-> text,
                              category |-> Classified(empty, text, answer)]
    /\ UNCHANGED listed

InsertChallan ==
    /\ pending.known
    /\ listed' = [listed EXCEPT ![pending.category] = @ + 1]
    /\ pending' = Nothing

\* The vendor lists it no more, or it leaves the scoring window.
DropChallan ==
    /\ ~pending.known
    /\ \E c \in Category : /\ listed[c] > 0
                          /\ listed' = [listed EXCEPT ![c] = @ - 1]
    /\ UNCHANGED pending

RatingInit == listed = [c \in Category |-> 0] /\ pending = Nothing

RatingNext == Classify \/ InsertChallan \/ DropChallan

RatingSpec == RatingInit /\ [][RatingNext]_ratingVars

-----------------------------------------------------------------------------
(* Properties *)

\* The category of a text is the heaviest of those it matches best: no other has a higher
\* score, and none with an equal score costs more points.
HeaviestOfBest ==
    (pending.known /\ \E h \in Hinted : ScoreOf(pending.text, h) > 0) =>
        \A c \in Category :
            \/ ScoreOf(pending.text, c) < ScoreOf(pending.text, pending.category)
            \/ /\ ScoreOf(pending.text, c) = ScoreOf(pending.text, pending.category)
               /\ Deduction[c] <= Deduction[pending.category]

\* The three severities count every challan once, and a challan that costs more is never
\* called less severe.
SeverityFollowsDeduction ==
    /\ Counted(1) + Counted(2) + Counted(3) = Total
    /\ \A c, d \in {x \in Category : listed[x] > 0} :
          Deduction[c] > Deduction[d] => Severity(c) >= Severity(d)

\* A heavier offense never counts as a lighter one, neither when it is classified nor in
\* the counts per severity: the parts above.
HeavierRanksHigher == HeaviestOfBest /\ SeverityFollowsDeduction

Worse(s, t) ==
    s <= t /\ Risk(s).level <= Risk(t).level /\ Risk(s).premium >= Risk(t).premium
\* A challan more never improves the score, the level or the premium of a vehicle, and a
\* challan less never worsens them.
MoreIsNeverBetter ==
    [][listed' # listed =>
          IF Total' > Total THEN Worse(Score', Score) ELSE Worse(Score, Score')]_ratingVars

=============================================================================

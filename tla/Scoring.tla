------------------------------ MODULE Scoring -------------------------------
(***************************************************************************)
(* The arithmetic of backend/internal/scoring: five factors of a posting   *)
(* against the profile, their weighted mean, the tier and the choice of    *)
(* the final score by mode.  Scores are whole percents.  A text is the set *)
(* of the keywords found in it, stop words gone; a place list likewise.    *)
(***************************************************************************)
EXTENDS Integers, FiniteSets, Sequences

CONSTANTS AutoThreshold, ReviewThreshold, HybridRejectMargin,
          Weights            \* [skill, experience, location, salary, description]

\* Config.validate refuses to start otherwise.
ASSUME ThresholdAssumption ==
    /\ AutoThreshold \in 0..100 /\ ReviewThreshold \in 0..100
    /\ AutoThreshold > ReviewThreshold
    /\ HybridRejectMargin \in Nat
    /\ Weights \in [skill : Nat, experience : Nat, location : Nat, salary : Nat,
                    description : Nat]

Tier(score) == CASE score >= AutoThreshold   -> "auto"
                 [] score >= ReviewThreshold /\ score < AutoThreshold -> "review"
                 [] score < ReviewThreshold  -> "reject"

NormalizeScore(x) == IF x < 0 THEN 0 ELSE IF x > 100 THEN 100 ELSE x

\* The share of the required words the candidate has; nothing required is all had.
SkillOverlap(required, candidate) ==
    IF required = {} THEN 100
    ELSE (100 * Cardinality(required \cap candidate)) \div Cardinality(required)

\* The share of the keywords found in the text; no keyword says nothing: 50.
KeywordOverlap(text, keywords) ==
    IF keywords = {} THEN 50
    ELSE (100 * Cardinality(text \cap keywords)) \div Cardinality(keywords)

Better(x, y) == IF x >= y THEN x ELSE y

\* Where the descending sort puts a score: the k-th best of them, k from 1.
Best(scores, k) ==
    CHOOSE x \in {scores[i] : i \in DOMAIN scores} :
        /\ Cardinality({i \in DOMAIN scores : scores[i] > x}) < k
        /\ k <= Cardinality({i \in DOMAIN scores : scores[i] >= x})

\* The mean of the three best roles; a role counts by title or by skills used.
ExperienceMatch(posting, roles) ==
    LET scores == [i \in DOMAIN roles |->
                      Better(KeywordOverlap(roles[i].title, posting.title),
                             SkillOverlap(posting.req, roles[i].skills))]
        n == IF Len(roles) < 3 THEN Len(roles) ELSE 3
        sum[k \in 0..n] == IF k = 0 THEN 0 ELSE sum[k - 1] + Best(scores, k)
    IN IF n = 0 THEN 50 ELSE sum[n] \div n

LocationMatch(posting, prefs) ==
    CASE prefs.remoteOnly /\ posting.remote = "remote" -> 100
      [] prefs.remoteOnly /\ posting.remote = "hybrid" -> 50
      [] prefs.remoteOnly /\ posting.remote \notin {"remote", "hybrid"} -> 20
      [] ~prefs.remoteOnly /\ prefs.places = {} -> 75
      [] ~prefs.remoteOnly /\ prefs.places # {} ->
             IF posting.places \cap prefs.places # {} THEN 100 ELSE 40

\* Midpoints are kept doubled: |job - pref| / pref < n% is 100 * |..| < n * pref.
SalaryMatch(posting, prefs) ==
    LET jobMid  == posting.min + posting.max
        prefMid == prefs.min + prefs.max
        gap     == 100 * (IF jobMid >= prefMid THEN jobMid - prefMid ELSE prefMid - jobMid)
        overlap == posting.max >= prefs.min /\ (prefs.max = 0 \/ posting.min <= prefs.max)
        Within(percent) == gap < percent * prefMid
    IN CASE jobMid = 0 -> 50
         [] jobMid # 0 /\ prefMid = 0 -> 75
         [] jobMid # 0 /\ prefMid # 0 /\ overlap ->
                IF Within(10) THEN 95 ELSE IF Within(20) THEN 85 ELSE 75
         [] jobMid # 0 /\ prefMid # 0 /\ ~overlap ->
                IF Within(10) THEN 60 ELSE IF Within(25) THEN 40 ELSE IF Within(50) THEN 25 ELSE 10

computeFactors(posting, profile) ==
    [skill       |-> SkillOverlap(posting.req, profile.skills),
     experience  |-> ExperienceMatch(posting, profile.roles),
     location    |-> LocationMatch(posting, profile.prefs),
     salary      |-> SalaryMatch(posting, profile.prefs),
     description |-> KeywordOverlap(posting.text, profile.skills)]

ComputeScore(d) ==
    LET total == Weights.skill + Weights.experience + Weights.location
                   + Weights.salary + Weights.description
    IN IF total = 0 THEN 0
       ELSE NormalizeScore((d.skill * Weights.skill + d.experience * Weights.experience
              + d.location * Weights.location + d.salary * Weights.salary
              + d.description * Weights.description) \div total)

validProfile(profile) == profile.skills # {} \/ profile.roles # <<>>

NoScore == -1                              \* no score: the model failed or answered nonsense
NoopAnswer == 50                           \* of the scorer without a model
\* One call of the model, and what is made of its reply: a failed call, a status
\* other than 200 and a reply that is not JSON are errors; else the score in it.
callOllama(scores) == scores \cup {NoScore}
\* ValidateLLMScoreResult refuses a score outside 0..100.
llmScore(answer) == IF answer \in 0..100 THEN answer ELSE NoScore

autoRejectThreshold ==
    LET margin == IF HybridRejectMargin = 0 THEN 20 ELSE HybridRejectMargin
    IN NormalizeScore(ReviewThreshold - margin)

\* ScoreJob: the final score from the heuristic one and the model's answer.
finalScore(mode, heuristic, answer) ==
    CASE mode = "heuristic" -> heuristic
      [] mode = "llm" -> llmScore(answer)
      [] mode = "hybrid" ->
           IF \/ Tier(heuristic) = "reject" /\ heuristic < autoRejectThreshold
              \/ llmScore(answer) = NoScore
           THEN heuristic ELSE llmScore(answer)
=============================================================================

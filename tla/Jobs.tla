-------------------------------- MODULE Jobs --------------------------------
(***************************************************************************)
(* backend/internal/jobs and the scoring of its rows: the scraper's import,*)
(* the user's requests, and the scorings, each a worker task or a          *)
(* POST /jobs/:id/score, whose steps are single database calls.            *)
(***************************************************************************)
EXTENDS Scoring

CONSTANTS JobIds,            \* (source_id, external_id) of a posting
          Seeded,            \* rows that carry a score from the start (see readable)
          Posting, Profiles, \* what is compared; the profile is edited at any time
          Modes, Answers,    \* scoring modes configured, answers of the model
          Scorers,
          MaxApplications,   \* bound: applications per job
          MaxScorings        \* bound: scorings that get past reading the job

\* Config.validate again.
ASSUME ModesAssumption == Modes \subseteq {"heuristic", "hybrid", "llm"}

\* Texts, skills and places are finite sets, and a profile lists its roles.
ASSUME ComparedAssumption ==
    /\ \A j \in JobIds :
          /\ IsFiniteSet(Posting[j].title) /\ IsFiniteSet(Posting[j].req)
          /\ Posting[j].min \in Nat /\ Posting[j].max \in Nat
    /\ \A profile \in Profiles :
          /\ IsFiniteSet(profile.skills)
          /\ Len(profile.roles) \in Nat /\ DOMAIN profile.roles = 1..Len(profile.roles)
          /\ profile.prefs.remoteOnly \in BOOLEAN
          /\ profile.prefs.min \in Nat /\ profile.prefs.max \in Nat

ASSUME JobBoundsAssumption == MaxApplications \in Nat /\ MaxScorings \in Nat

VARIABLES jobRow,            \* the row of a job, or NoRow
          jobApplications,   \* draft applications that reference the job
          jobApproval,       \* job of the approval row the scoring created, or NoJob
          jobScorer,         \* what each scoring holds in local variables
          jobScorings,       \* counts towards MaxScorings
          jobDecided,        \* history: jobs the user set to applied or archived ...
          jobRaced,          \*   ... while a scoring had already read their status
          jobCrossed         \* history: jobs persisted while another scoring still
                             \*   had to write its own score
jobVars == <<jobRow, jobApplications, jobApproval, jobScorer, jobScorings,
             jobDecided, jobRaced, jobCrossed>>

-----------------------------------------------------------------------------
JobStatus == {"discovered", "matched", "applied", "archived"}
UserOwned == {"applied", "archived"}
NoRow == [status |-> "none"]
NoJob == "none"
\* score and tier are NULL until the first PersistScore: an import leaves them out.
JobRows == [status : JobStatus, saved : BOOLEAN, score : {NoScore} \cup 0..100,
            tier : {"NULL", "auto", "review", "reject"}]
ScorerIdle == [pc |-> "idle"]
JobScorers == {ScorerIdle}
   \cup [pc : {"scoring"}, job : JobIds, task : BOOLEAN, mode : Modes, heuristic : 0..100]
   \cup [pc : {"read", "write", "chain", "approve"}, job : JobIds, score : 0..100]
   \cup [pc : {"status"}, job : JobIds, score : 0..100, to : JobStatus]
   \cup [pc : {"write"}, job : JobIds, score : 0..100, seen : JobStatus]

jobExists(j) == jobRow[j] # NoRow
\* scoring.GetJob scans score_tier into a string and jobs.GetByID match_details
\* into a RawMessage: database/sql refuses NULL for both, so a row can be read
\* only once it has a score.
readable(j) == jobExists(j) /\ jobRow[j].tier # "NULL"

importedRow == [status |-> "discovered", saved |-> FALSE, score |-> NoScore, tier |-> "NULL"]
seededRow == [status |-> "discovered", saved |-> FALSE, score |-> 0, tier |-> Tier(0)]

JobsInit ==
    /\ jobRow = [j \in JobIds |-> IF j \in Seeded THEN seededRow ELSE NoRow]
    /\ jobApplications = [j \in JobIds |-> 0]
    /\ jobApproval = NoJob
    /\ jobScorer = [w \in Scorers |-> ScorerIdle]
    /\ jobScorings = 0
    /\ jobDecided = {} /\ jobRaced = {} /\ jobCrossed = {}

-----------------------------------------------------------------------------
\* The task of one scan: ON CONFLICT DO NOTHING, all rows in one transaction.  It
\* queues no scoring: its handler ignores the scoring service it is given.
ScrapeSource(found) ==
    /\ \E j \in found : ~jobExists(j)
    /\ jobRow' = [j \in JobIds |-> IF j \in found /\ ~jobExists(j) THEN importedRow ELSE jobRow[j]]
    /\ UNCHANGED <<jobApplications, jobApproval, jobScorer, jobScorings, jobDecided, jobRaced, jobCrossed>>

\* A scoring that has read the status and not yet written the next one.
holdsStatus(w, j) == jobScorer[w].pc \in {"write", "status"} /\ jobScorer[w].job = j

UpdateJob(j, status) ==
    /\ jobExists(j)
    /\ jobRow' = [jobRow EXCEPT ![j].status = status]
    /\ jobDecided' = IF status \in UserOwned THEN jobDecided \cup {j} ELSE jobDecided \ {j}
    /\ jobRaced' = IF \E w \in Scorers : holdsStatus(w, j) THEN jobRaced \cup {j} ELSE jobRaced \ {j}
    /\ UNCHANGED <<jobApplications, jobApproval, jobScorer, jobScorings, jobCrossed>>

ToggleSave(j, saved) ==
    /\ jobExists(j)
    /\ jobRow' = [jobRow EXCEPT ![j].saved = saved]
    /\ UNCHANGED <<jobApplications, jobApproval, jobScorer, jobScorings, jobDecided, jobRaced, jobCrossed>>

\* Applications reference their job without ON DELETE: the row must stay.
DeleteJob(j) ==
    /\ jobExists(j) /\ jobApplications[j] = 0
    /\ jobRow' = [jobRow EXCEPT ![j] = NoRow]
    /\ jobDecided' = jobDecided \ {j}
    /\ UNCHANGED <<jobApplications, jobApproval, jobScorer, jobScorings, jobRaced, jobCrossed>>

createDraft(j) ==
    /\ jobApplications[j] < MaxApplications
    /\ jobApplications' = [jobApplications EXCEPT ![j] = @ + 1]

\* The draft is dispatched for submission at once; what follows is another module's.
ApplyJob(j) ==
    /\ readable(j)
    /\ createDraft(j)
    /\ UNCHANGED <<jobRow, jobApproval, jobScorer, jobScorings, jobDecided, jobRaced, jobCrossed>>

-----------------------------------------------------------------------------
setScorer(w, next) == jobScorer' = [jobScorer EXCEPT ![w] = next]

\* GetJob, GetProfile, validateProfile and computeFactors, for a task that the user
\* had queued (POST /scoring/score or /scoring/batch) or for POST /jobs/:id/score.
ScoreJob(w, j, task, mode, profile) ==
    /\ jobScorer[w].pc = "idle" /\ jobScorings < MaxScorings
    /\ readable(j) /\ validProfile(profile)
    /\ setScorer(w, [pc |-> "scoring", job |-> j, task |-> task, mode |-> mode,
                     heuristic |-> ComputeScore(computeFactors(Posting[j], profile))])
    /\ jobScorings' = jobScorings + 1
    /\ UNCHANGED <<jobRow, jobApplications, jobApproval, jobDecided, jobRaced, jobCrossed>>

stillToWrite(w, j) == jobScorer[w].pc \in {"read", "write"} /\ jobScorer[w].job = j

scoredRowTierLeft(row, score) ==           \* the tier is not written with the score
    [row EXCEPT !.score = score]
scoredRow(row, score) == [row EXCEPT !.score = score, !.tier = Tier(score)]

\* PersistScore.  The request ends here; only the task goes on to ApplyMatchScore.
persistAndReturn(w, answer) ==
    LET s == jobScorer[w]
        score == finalScore(s.mode, s.heuristic, answer)
    IN /\ s.pc = "scoring" /\ score # NoScore /\ jobExists(s.job)
       /\ jobRow' = [jobRow EXCEPT ![s.job] = scoredRow(@, score)]
       /\ setScorer(w, IF s.task THEN [pc |-> "read", job |-> s.job, score |-> score] ELSE ScorerIdle)
       /\ jobCrossed' = IF \E v \in Scorers : stillToWrite(v, s.job)
                        THEN jobCrossed \cup {s.job} ELSE jobCrossed \ {s.job}
       /\ UNCHANGED <<jobApplications, jobApproval, jobScorings, jobDecided, jobRaced>>

ApplyMatchScoreRead(w) ==
    LET s == jobScorer[w]
    IN /\ s.pc = "read"
       /\ setScorer(w, IF readable(s.job)
                       THEN [pc |-> "write", job |-> s.job, score |-> s.score, seen |-> jobRow[s.job].status]
                       ELSE [pc |-> "chain", job |-> s.job, score |-> s.score])
       /\ UNCHANGED <<jobRow, jobApplications, jobApproval, jobScorings, jobDecided, jobRaced, jobCrossed>>

statusFromScoreAlone(seen, score) ==       \* the status read is not looked at
    IF score >= AutoThreshold THEN "matched" ELSE IF score < ReviewThreshold THEN "discovered" ELSE seen
statusFromScoreUnknown(seen, score) ==     \* a status the jobs do not have
    IF seen = "matched" /\ score < ReviewThreshold THEN "rejected" ELSE seen
\* The status that follows from the one read; a decision of the user is left alone.
statusFromScore(seen, score) ==
    IF seen = "discovered" /\ score >= AutoThreshold THEN "matched"
    ELSE IF seen = "matched" /\ score < ReviewThreshold THEN "discovered" ELSE seen

\* UpdateMatchScore: score and details, not the tier.
ApplyMatchScoreWrite(w) ==
    LET s == jobScorer[w]
        to == statusFromScore(s.seen, s.score)
    IN /\ s.pc = "write"
       /\ jobRow' = IF jobExists(s.job) THEN [jobRow EXCEPT ![s.job].score = s.score] ELSE jobRow
       /\ setScorer(w, IF jobExists(s.job) /\ to # s.seen
                       THEN [pc |-> "status", job |-> s.job, score |-> s.score, to |-> to]
                       ELSE [pc |-> "chain", job |-> s.job, score |-> s.score])
       /\ UNCHANGED <<jobApplications, jobApproval, jobScorings, jobDecided, jobRaced, jobCrossed>>

\* UpdateStatus, whatever the status is by now.
ApplyMatchScoreStatus(w) ==
    LET s == jobScorer[w]
    IN /\ s.pc = "status"
       /\ jobRow' = IF jobExists(s.job) THEN [jobRow EXCEPT ![s.job].status = s.to] ELSE jobRow
       /\ setScorer(w, [pc |-> "chain", job |-> s.job, score |-> s.score])
       /\ UNCHANGED <<jobApplications, jobApproval, jobScorings, jobDecided, jobRaced, jobCrossed>>

\* A job to review gets a draft that anchors the approval request.
AnchorApproval(w) ==
    LET s == jobScorer[w]
    IN /\ s.pc = "chain"
       /\ IF Tier(s.score) = "review" /\ readable(s.job)
          THEN createDraft(s.job) /\ setScorer(w, [pc |-> "approve", job |-> s.job, score |-> s.score])
          ELSE UNCHANGED jobApplications /\ setScorer(w, ScorerIdle)
       /\ UNCHANGED <<jobRow, jobApproval, jobScorings, jobDecided, jobRaced, jobCrossed>>

\* The request is inserted without an id, hence under the nil UUID: the primary
\* key refuses every request after the first, which the handler only logs.
CreateApproval(w) ==
    LET s == jobScorer[w]
    IN /\ s.pc = "approve"
       /\ jobApproval' = IF jobApproval = NoJob THEN s.job ELSE jobApproval
       /\ setScorer(w, ScorerIdle)
       /\ UNCHANGED <<jobRow, jobApplications, jobScorings, jobDecided, jobRaced, jobCrossed>>

\* A failed call of ScoreJob, the deadline of 30 seconds, a crash: the rest of
\* the scoring does not happen; a redelivery is another ScoreJob.
AbandonScoring(w) ==
    /\ jobScorer[w].pc # "idle"
    /\ setScorer(w, ScorerIdle)
    /\ UNCHANGED <<jobRow, jobApplications, jobApproval, jobScorings, jobDecided, jobRaced, jobCrossed>>

ScoringStep(w) == \/ \E answer \in callOllama(Answers) \cup {NoopAnswer} : persistAndReturn(w, answer)
                  \/ ApplyMatchScoreRead(w) \/ ApplyMatchScoreWrite(w) \/ ApplyMatchScoreStatus(w)
                  \/ AnchorApproval(w) \/ CreateApproval(w)

JobsNext ==
    \/ \E found \in SUBSET JobIds : ScrapeSource(found)
    \/ \E j \in JobIds :
          \/ \E status \in JobStatus : UpdateJob(j, status)
          \/ \E saved \in BOOLEAN : ToggleSave(j, saved)
          \/ DeleteJob(j)
          \/ ApplyJob(j)
          \/ \E w \in Scorers, task \in BOOLEAN, mode \in Modes, profile \in Profiles :
                ScoreJob(w, j, task, mode, profile)
    \/ \E w \in Scorers : ScoringStep(w) \/ AbandonScoring(w)

JobsSpec == JobsInit /\ [][JobsNext]_jobVars

-----------------------------------------------------------------------------
JobsTypeOK ==
    /\ jobRow \in [JobIds -> JobRows \cup {NoRow}]
    /\ jobApplications \in [JobIds -> 0..MaxApplications]
    /\ jobApproval \in JobIds \cup {NoJob}
    /\ jobScorer \in [Scorers -> JobScorers]
    /\ jobScorings \in 0..MaxScorings
    /\ jobDecided \subseteq JobIds /\ jobRaced \subseteq JobIds /\ jobCrossed \subseteq JobIds

\* "Preserves user-owned statuses (applied, archived)", the comment on
\* ApplyMatchScore says.  It holds for every decision that did not fall between
\* the scoring's read of the status and its unconditional write: no sequence of
\* rescorings, imports and retries undoes such a decision.
UserDecisionKept ==
    \A j \in jobDecided \ jobRaced : jobRow[j].status \in UserOwned

\* Two statements write a score, and only the first writes the tier.  The row's
\* tier is the tier of its score unless a second scoring of the same job was
\* persisted before the first had written its score again; the next scoring that
\* runs alone repairs the row.
TierFitsScore ==
    \A j \in JobIds \ jobCrossed :
        readable(j) => jobRow[j].tier = Tier(jobRow[j].score)
=============================================================================

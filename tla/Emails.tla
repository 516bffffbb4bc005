------------------------------- MODULE Emails -------------------------------
(***************************************************************************)
(* backend/internal/emails, the stored messages, and the worker's          *)
(* email_check task, which turns the mails the browser agent found for one *)
(* application into changes of its status.  Two parts that share only the  *)
(* vocabulary of classifications: the worker stores nothing.               *)
(***************************************************************************)
EXTENDS Integers, Sequences

CONSTANTS Messages,            \* external message ids
          Labels,              \* what mail services and models call a mail
          Mailbox,             \* labels of the mails each check finds, in order
          CheckDeliveries      \* bound: deliveries of the task, six in the code

ASSUME EmailsAssumption == Mailbox \in Seq(STRING) /\ CheckDeliveries \in Nat

VARIABLES mailRow,             \* emails, by message id
          mailStatus,          \* status of the application
          mailUser,            \* a user's UpdateStatus between check and commit
          mailSync,            \* the task
          mailEffects,         \* history: status changes each mail has caused
          mailBent             \* history: a commit the transition table forbids
emailsVars == <<mailRow, mailStatus, mailUser, mailSync, mailEffects, mailBent>>

-----------------------------------------------------------------------------
Classification == {"interview_invite", "rejection", "offer", "follow_up", "spam", "phishing", "other"}
\* Labels are lower case already; "interview" is the browser agent's word.
NormalizeClassification(label) == IF label = "interview" THEN "interview_invite" ELSE label
\* An answer of the model is looked up before it is normalised.
Classify(answer) == IF answer \in Classification THEN answer ELSE "other"

NoMail == [class |-> "none"]
Unlinked == "none"
MailRows == [app : {Unlinked, "application"}, class : Classification, read : BOOLEAN, draft : BOOLEAN]

MailTransitions ==
    [draft        |-> {"queued", "rejected"},
     queued       |-> {"applied", "rejected"},
     applied      |-> {"assessment", "phone_screen", "technical", "final", "offer", "rejected"},
     assessment   |-> {"phone_screen", "technical", "final", "offer", "rejected"},
     phone_screen |-> {"technical", "final", "offer", "rejected"},
     technical    |-> {"final", "offer", "rejected"},
     final        |-> {"offer", "rejected"},
     offer        |-> {},
     rejected     |-> {}]
PipelineStatus == DOMAIN MailTransitions
NoTarget == "none"
\* The status a mail of this class asks for.
Target(class) == CASE class = "rejection"        -> "rejected"
                   [] class = "interview_invite" -> "phone_screen"
                   [] class = "offer"            -> "offer"
                   [] OTHER                      -> NoTarget
target(i) == Target(NormalizeClassification(Mailbox[i]))

SyncStates == [pc : {"idle", "check", "commit", "done"}, i : 1..(Len(Mailbox) + 1),
               left : 0..CheckDeliveries]

EmailsInit ==
    /\ mailRow = [m \in Messages |-> NoMail]
    /\ mailStatus = "applied"              \* only a submitted application gets mails
    /\ mailUser = NoTarget
    /\ mailSync = [pc |-> "idle", i |-> 1, left |-> CheckDeliveries]
    /\ mailEffects = [i \in DOMAIN Mailbox |-> 0]
    /\ mailBent = FALSE

-----------------------------------------------------------------------------
\* INSERT ... ON CONFLICT (message_id): a mail fetched again keeps is_read and
\* reply_draft, and its application unless it comes with one.
Upsert(m, app, class) ==
    /\ LET old == mailRow[m]
       IN mailRow' = [mailRow EXCEPT ![m] =
             IF old = NoMail THEN [app |-> app, class |-> class, read |-> FALSE, draft |-> FALSE]
             ELSE [old EXCEPT !.app = IF app # Unlinked THEN app ELSE @, !.class = class]]
    /\ UNCHANGED <<mailStatus, mailUser, mailSync, mailEffects, mailBent>>

\* POST /emails: a label that came with the mail must be known, otherwise the
\* model is asked.
Store(m, app, label, given) ==
    LET class == IF given THEN NormalizeClassification(label)
                 ELSE NormalizeClassification(Classify(label))
    IN class \in Classification /\ Upsert(m, app, class)

\* PATCH /emails/:id, one statement per field that is given.
MarkRead(m, isRead) ==
    /\ mailRow[m] # NoMail
    /\ mailRow' = [mailRow EXCEPT ![m].read = isRead]
    /\ UNCHANGED <<mailStatus, mailUser, mailSync, mailEffects, mailBent>>

UpdateDraft(m) ==
    /\ mailRow[m] # NoMail
    /\ mailRow' = [mailRow EXCEPT ![m].draft = TRUE]
    /\ UNCHANGED <<mailStatus, mailUser, mailSync, mailEffects, mailBent>>

Reclassify(m, answer) ==
    /\ mailRow[m] # NoMail
    /\ mailRow' = [mailRow EXCEPT ![m].class = Classify(answer)]
    /\ UNCHANGED <<mailStatus, mailUser, mailSync, mailEffects, mailBent>>

-----------------------------------------------------------------------------
NextMailSkips(i) == LET later == {k \in (i + 1)..Len(Mailbox) : target(k) # NoTarget} \* one too far
                    IN IF later = {} THEN Len(Mailbox) + 1 ELSE CHOOSE k \in later : \A n \in later : k <= n
\* The first mail from i on that asks for a status; the others are skipped.
NextMail(i) == LET later == {k \in i..Len(Mailbox) : target(k) # NoTarget}
               IN IF later = {} THEN Len(Mailbox) + 1 ELSE CHOOSE k \in later : \A n \in later : k <= n

\* A delivery, or the redelivery after a failure, starts with the first mail.
SyncEmails ==
    /\ mailSync.pc = "idle" /\ mailSync.left > 0
    /\ mailSync' = [pc |-> "check", i |-> NextMail(1), left |-> mailSync.left - 1]
    /\ UNCHANGED <<mailRow, mailStatus, mailUser, mailEffects, mailBent>>

\* Service.UpdateStatus reads and checks; the first refusal ends the delivery.
SyncCheck ==
    /\ mailSync.pc = "check" /\ mailSync.i <= Len(Mailbox)
    /\ mailSync' = [mailSync EXCEPT !.pc =
          IF target(mailSync.i) \in MailTransitions[mailStatus] THEN "commit" ELSE "idle"]
    /\ UNCHANGED <<mailRow, mailStatus, mailUser, mailEffects, mailBent>>

\* Repository.UpdateStatus replaces the status it reads itself (see Applications).
moveTo(to) ==
    /\ mailStatus' = to
    /\ mailBent' = (mailBent \/ to \notin MailTransitions[mailStatus])

SyncCommit ==
    /\ mailSync.pc = "commit"
    /\ moveTo(target(mailSync.i))
    /\ mailEffects' = [mailEffects EXCEPT ![mailSync.i] = @ + 1]
    /\ mailSync' = [mailSync EXCEPT !.pc = "check", !.i = NextMail(mailSync.i + 1)]
    /\ UNCHANGED <<mailRow, mailUser>>

SyncCompletes ==
    /\ mailSync.pc = "check" /\ mailSync.i > Len(Mailbox)
    /\ mailSync' = [mailSync EXCEPT !.pc = "done"]
    /\ UNCHANGED <<mailRow, mailStatus, mailUser, mailEffects, mailBent>>

\* A failed call, the deadline of a minute, a crash of the worker.
SyncInterrupted ==
    /\ mailSync.pc \in {"check", "commit"}
    /\ mailSync' = [mailSync EXCEPT !.pc = "idle"]
    /\ UNCHANGED <<mailRow, mailStatus, mailUser, mailEffects, mailBent>>

\* Another caller of UpdateStatus, PUT /applications/:id/status.
UserCheck(to) ==
    /\ mailUser = NoTarget /\ to \in MailTransitions[mailStatus]
    /\ mailUser' = to
    /\ UNCHANGED <<mailRow, mailStatus, mailSync, mailEffects, mailBent>>

UserCommit ==
    /\ mailUser # NoTarget
    /\ moveTo(mailUser)
    /\ mailUser' = NoTarget
    /\ UNCHANGED <<mailRow, mailSync, mailEffects>>

EmailsNext ==
    \/ \E m \in Messages :
          \/ \E app \in {Unlinked, "application"}, label \in Labels, given \in BOOLEAN : Store(m, app, label, given)
          \/ \E isRead \in BOOLEAN : MarkRead(m, isRead)
          \/ UpdateDraft(m)
          \/ \E answer \in Labels : Reclassify(m, answer)
    \/ SyncEmails \/ SyncCheck \/ SyncCommit \/ SyncCompletes \/ SyncInterrupted
    \/ (\E to \in PipelineStatus : UserCheck(to)) \/ UserCommit

EmailsSpec == EmailsInit /\ [][EmailsNext]_emailsVars

-----------------------------------------------------------------------------
EmailsTypeOK ==
    /\ mailRow \in [Messages -> MailRows \cup {NoMail}]
    /\ mailStatus \in PipelineStatus
    /\ mailUser \in PipelineStatus \cup {NoTarget}
    /\ mailSync \in SyncStates
    /\ mailEffects \in [DOMAIN Mailbox -> 0..CheckDeliveries]
    /\ mailBent \in BOOLEAN

\* A delivery starts again with mails an earlier one has acted on, and nothing
\* records which.  Even so a mail changes the application's status at most once,
\* however often the task is interrupted, and a task that completes has acted on
\* every mail that asks for a change: a status already reached is refused.  Only
\* a commit the transition table forbids (see Applications) can make it repeat.
EachMailActsOnce ==
    ~mailBent =>
        /\ \A i \in DOMAIN Mailbox : mailEffects[i] <= 1
        /\ mailSync.pc = "done" => \A i \in DOMAIN Mailbox : target(i) # NoTarget => mailEffects[i] = 1
=============================================================================

------------------------------ MODULE Resumes -------------------------------
(***************************************************************************)
(* backend/internal/resumes: one resume, one cover letter and their version*)
(* tables.  Every writer, a request or a worker task, reads the row, saves *)
(* the version it is about to replace and writes WHERE version is the one  *)
(* it read; the model's answer is waited for in between.                   *)
(***************************************************************************)
EXTENDS Integers, Sequences

CONSTANTS Writers, Contents,
          MaxVersion           \* bound: versions of a document

ASSUME ResumesAssumption == MaxVersion \in Nat \ {0}

VARIABLES resume, letter,      \* the rows
          resumeVersions,      \* content saved per version: resume_versions
          letterVersions,      \*   and cover_letter_versions
          resumeHistory,       \* history: the content of version v at position v
          letterHistory,
          unsaved,             \* history: (document, version) whose insert failed
          letterSource,        \* history: the resume content the letter was made from
          docWriter            \* what each writer holds in local variables
resumesVars == <<resume, letter, resumeVersions, letterVersions, resumeHistory,
                 letterHistory, unsaved, letterSource, docWriter>>

-----------------------------------------------------------------------------
Absent == [at |-> "absent"]                \* not created yet
Deleted == [at |-> "deleted"]              \* an id is never used again
NoContent == "empty"
Placeholder == "placeholder"               \* "LLM generation disabled ...": a summary, no skills
Contained == Contents \cup {NoContent, Placeholder}
NoVersion == 0                             \* resume_version IS NULL
Versions == 1..MaxVersion
ResumeRows == [at : {"row"}, version : Versions, content : Contents \cup {NoContent}]
LetterRows == [at : {"row"}, version : Versions, content : Contained,
               linked : BOOLEAN,           \* resume_id is set
               basis : Versions \cup {NoVersion}]   \* resume_version
WriterIdle == [pc |-> "idle"]
\* seen is the row the writer fetched, basis and source what it read of the resume.
\* What the writer is about to do with the row shows in the step that follows.
DocWriters == {WriterIdle}
   \cup [pc : {"read", "saved"}, doc : {"resume"}, seen : ResumeRows]
   \cup [pc : {"read", "saved"}, doc : {"letter"}, seen : LetterRows]
   \cup [pc : {"based"}, doc : {"letter"}, seen : LetterRows,
         basis : Versions \cup {NoVersion}, source : Contents \cup {NoContent}]

saved == [v \in Versions |-> "none"]       \* an empty version table

ResumesInit ==
    /\ resume = Absent /\ letter = Absent
    /\ resumeVersions = saved /\ letterVersions = saved
    /\ resumeHistory = <<>> /\ letterHistory = <<>>
    /\ unsaved = {} /\ letterSource = NoContent
    /\ docWriter = [w \in Writers |-> WriterIdle]

setWriter(w, next) == docWriter' = [docWriter EXCEPT ![w] = next]

\* What the generators hand back: the model's answer or, when the model is not
\* configured, a placeholder.  A call that fails, or an answer that is not JSON,
\* is an error: AbandonWriting.
generateResume == Contained
generateLetter == Contained
\* A resume needs skills and a summary; nobody looks at a letter.
validateContent(content) == content \in Contents

-----------------------------------------------------------------------------
CreateResume ==
    /\ resume = Absent
    /\ resume' = [at |-> "row", version |-> 1, content |-> NoContent]
    /\ resumeHistory' = <<NoContent>>
    /\ UNCHANGED <<letter, resumeVersions, letterVersions, letterHistory, unsaved, letterSource, docWriter>>

\* The versions go with the row; a letter that references it keeps it.
DeleteResume ==
    /\ resume.at = "row" /\ ~(letter.at = "row" /\ letter.linked)
    /\ resume' = Deleted /\ resumeVersions' = saved /\ resumeHistory' = <<>>
    /\ unsaved' = {u \in unsaved : u[1] # "resume"}
    /\ UNCHANGED <<letter, letterVersions, letterHistory, letterSource, docWriter>>

\* UpdateResume, UpdateContent, GenerateContent: getResume.
ReadResume(w) ==
    /\ docWriter[w].pc = "idle" /\ resume.at = "row" /\ resume.version < MaxVersion
    /\ setWriter(w, [pc |-> "read", doc |-> "resume", seen |-> resume])
    /\ UNCHANGED <<resume, letter, resumeVersions, letterVersions, resumeHistory, letterHistory,
                   unsaved, letterSource>>

\* UNIQUE (resume_id, version): the first snapshot of a version stays.  A failed
\* insert is logged and the write goes on.
saveVersionSnapshot(w, inserted) ==
    LET s == docWriter[w]
    IN /\ s.pc = "read" /\ s.doc = "resume"
       /\ resumeVersions' = IF inserted /\ resume.at = "row" /\ resumeVersions[s.seen.version] = "none"
                            THEN [resumeVersions EXCEPT ![s.seen.version] = s.seen.content]
                            ELSE resumeVersions
       /\ unsaved' = IF inserted THEN unsaved ELSE unsaved \cup {<<"resume", s.seen.version>>}
       /\ setWriter(w, [s EXCEPT !.pc = "saved"])
       /\ UNCHANGED <<resume, letter, letterVersions, resumeHistory, letterHistory, letterSource>>

stillCurrentAnyVersion(w) == resume.at = "row" \* without AND version = $n
stillCurrent(w) == resume.at = "row" /\ resume.version = docWriter[w].seen.version

\* The UPDATE ... WHERE version = the one read; otherwise ErrVersionConflict or
\* ErrNotFound.
writeResume(w, content) ==
    /\ IF stillCurrent(w)
       THEN /\ resume' = [resume EXCEPT !.version = @ + 1, !.content = content]
            /\ resumeHistory' = Append(resumeHistory, content)
       ELSE UNCHANGED <<resume, resumeHistory>>
    /\ setWriter(w, WriterIdle)
    /\ UNCHANGED <<letter, resumeVersions, letterVersions, letterHistory, unsaved, letterSource>>

\* PUT /resumes/:id/content takes an empty document, too.
UpdateContent(w, content) ==
    /\ docWriter[w].pc = "saved" /\ docWriter[w].doc = "resume" /\ content # Placeholder
    /\ writeResume(w, content)

\* The model is asked, and its answer validated, before the snapshot is saved.
GenerateContent(w, content) ==
    /\ docWriter[w].pc = "saved" /\ docWriter[w].doc = "resume"
    /\ content \in generateResume /\ validateContent(content)
    /\ writeResume(w, content)

\* PUT /resumes/:id: name and skills, and with them the content as it was read.
Update(w) ==
    /\ docWriter[w].pc = "read" /\ docWriter[w].doc = "resume"
    /\ writeResume(w, docWriter[w].seen.content)

-----------------------------------------------------------------------------
\* The first snapshot fails: cover_letter_versions.resume_version is NOT NULL and
\* a new letter has none.
CreateCoverLetter(linked) ==
    /\ letter = Absent /\ (linked => resume.at = "row")
    /\ letter' = [at |-> "row", version |-> 1, content |-> NoContent, linked |-> linked, basis |-> NoVersion]
    /\ letterHistory' = <<NoContent>>
    /\ UNCHANGED <<resume, resumeVersions, letterVersions, resumeHistory, unsaved, letterSource, docWriter>>

DeleteCoverLetter ==
    /\ letter.at = "row"
    /\ letter' = Deleted /\ letterVersions' = saved /\ letterHistory' = <<>> /\ letterSource' = NoContent
    /\ unsaved' = {u \in unsaved : u[1] # "letter"}
    /\ UNCHANGED <<resume, resumeVersions, resumeHistory, docWriter>>

ReadLetter(w) ==
    /\ docWriter[w].pc = "idle" /\ letter.at = "row" /\ letter.version < MaxVersion
    /\ setWriter(w, [pc |-> "read", doc |-> "letter", seen |-> letter])
    /\ UNCHANGED <<resume, letter, resumeVersions, letterVersions, resumeHistory, letterHistory,
                   unsaved, letterSource>>

saveCoverLetterVersionSnapshot(w, inserted) ==
    LET s == docWriter[w]
    IN /\ s.pc = "read" /\ s.doc = "letter"
       /\ letterVersions' = IF /\ inserted /\ letter.at = "row" /\ s.seen.basis # NoVersion
                               /\ letterVersions[s.seen.version] = "none"
                            THEN [letterVersions EXCEPT ![s.seen.version] = s.seen.content]
                            ELSE letterVersions
       /\ unsaved' = IF inserted /\ s.seen.basis # NoVersion
                     THEN unsaved ELSE unsaved \cup {<<"letter", s.seen.version>>}
       /\ setWriter(w, [s EXCEPT !.pc = "saved"])
       /\ UNCHANGED <<resume, letter, resumeVersions, resumeHistory, letterHistory, letterSource>>

\* GenerateCoverLetter reads the resume the letter or the request names; one
\* without content is no basis.
ReadBasis(w, named) ==
    LET s == docWriter[w]
        based == named /\ resume.content # NoContent
    IN /\ s.pc = "saved" /\ s.doc = "letter"
       /\ s.seen.linked => named
       /\ named => resume.at = "row"
       /\ setWriter(w, [pc |-> "based", doc |-> "letter", seen |-> s.seen,
                        basis  |-> IF based THEN resume.version ELSE NoVersion,
                        source |-> IF based THEN resume.content ELSE NoContent])
       /\ UNCHANGED <<resume, letter, resumeVersions, letterVersions, resumeHistory, letterHistory,
                      unsaved, letterSource>>

writeLetter(w, content, basis, source) ==
    /\ IF letter.at = "row" /\ letter.version = docWriter[w].seen.version
       THEN /\ letter' = [letter EXCEPT !.version = @ + 1, !.content = content, !.basis = basis]
            /\ letterHistory' = Append(letterHistory, content)
            /\ letterSource' = source
       ELSE UNCHANGED <<letter, letterHistory, letterSource>>
    /\ setWriter(w, WriterIdle)
    /\ UNCHANGED <<resume, resumeVersions, letterVersions, resumeHistory, unsaved>>

GenerateCoverLetterLateBasis(w, content) == \* the version is read after the answer
    /\ docWriter[w].pc = "based"
    /\ writeLetter(w, content, IF resume.at = "row" /\ docWriter[w].basis # NoVersion
                               THEN resume.version ELSE NoVersion, docWriter[w].source)
GenerateCoverLetter(w, content) ==
    /\ docWriter[w].pc = "based" /\ content \in generateLetter
    /\ writeLetter(w, content, docWriter[w].basis, docWriter[w].source)

\* The resume version of the letter that was read stays with the new text, which
\* is not empty.
UpdateCoverLetterContent(w, content) ==
    /\ docWriter[w].pc = "saved" /\ docWriter[w].doc = "letter" /\ content \in Contents
    /\ writeLetter(w, content, docWriter[w].seen.basis, letterSource)

\* The model fails or answers nonsense, a deadline, a crash.
AbandonWriting(w) ==
    /\ docWriter[w].pc # "idle"
    /\ setWriter(w, WriterIdle)
    /\ UNCHANGED <<resume, letter, resumeVersions, letterVersions, resumeHistory, letterHistory,
                   unsaved, letterSource>>

ResumesNext ==
    \/ CreateResume \/ DeleteResume \/ DeleteCoverLetter
    \/ \E linked \in BOOLEAN : CreateCoverLetter(linked)
    \/ \E w \in Writers :
          \/ ReadResume(w) \/ ReadLetter(w)
          \/ \E inserted \in BOOLEAN :
                saveVersionSnapshot(w, inserted) \/ saveCoverLetterVersionSnapshot(w, inserted)
          \/ \E named \in BOOLEAN : ReadBasis(w, named)
          \/ \E content \in Contained :
                \/ UpdateContent(w, content) \/ GenerateContent(w, content)
                \/ GenerateCoverLetter(w, content) \/ UpdateCoverLetterContent(w, content)
          \/ Update(w) \/ AbandonWriting(w)

-----------------------------------------------------------------------------
ResumesSpec == ResumesInit /\ [][ResumesNext]_resumesVars

ResumesTypeOK ==
    /\ resume \in ResumeRows \cup {Absent, Deleted}
    /\ letter \in LetterRows \cup {Absent, Deleted}
    /\ resumeVersions \in [Versions -> Contents \cup {NoContent, "none"}]
    /\ letterVersions \in [Versions -> Contained \cup {"none"}]
    /\ unsaved \subseteq {"resume", "letter"} \X Versions
    /\ letterSource \in Contents \cup {NoContent}
    /\ docWriter \in [Writers -> DocWriters]

\* The content of version v is the present one, was saved under v, or could not be.
Recoverable(doc, row, saves, history, v) ==
    \/ v = row.version /\ history[v] = row.content
    \/ saves[v] = history[v]
    \/ <<doc, v>> \in unsaved

\* "Versioned resume content for history and rollback", says the migration of
\* resume_versions.  Whatever the writers do at the same time, every content a
\* document ever had is its present one or was saved under the version it had,
\* save where the insert itself failed, and a resume version that PUT
\* /resumes/:id replaced: its content lives on in its successor.
VersionsAreRecoverable ==
    /\ resume.at = "row" => \A v \in 1..resume.version :
          \/ Recoverable("resume", resume, resumeVersions, resumeHistory, v)
          \/ v < resume.version /\ resumeHistory[v + 1] = resumeHistory[v]
    /\ letter.at = "row" => \A v \in 1..letter.version :
          Recoverable("letter", letter, letterVersions, letterHistory, v)

\* The resume_version of a letter says what the letter was made from: as long as
\* the resume exists, the content of that version is the one the model was given,
\* however many writers have moved the resume and the letter on since.
LetterIsTraceable ==
    letter.at = "row" /\ letter.basis # NoVersion /\ resume.at = "row" =>
        resumeHistory[letter.basis] = letterSource
=============================================================================

----------------------------- MODULE ConfigForms -----------------------------
(***************************************************************************)
(* One form of the system configuration page (components/config,           *)
(* app/dashboard/settings/config, hooks/useSystemConfig): two of its       *)
(* fields, the cached configuration they are filled from, and the          *)
(* overrides its saves write, while another session writes them too.       *)
(***************************************************************************)
EXTENDS Integers, FiniteSets

CONSTANTS MaxSubmits,        \* bound: saves of the form
          MaxElsewhere       \* bound: overrides written by another session

ASSUME FormAssumption == MaxSubmits \in Nat /\ MaxElsewhere \in Nat

VARIABLES formKinds,         \* what the two fields are
          formRow,           \* the effective configuration in the backend
          formData,          \* the configuration in the query cache; isError; its fetch
          formError, formFetch,
          formTab,           \* the form's tab is the active one
          form,              \* the mounted form
          formSaves,         \* each handleSubmit, which outlives the form
          formElsewhere      \* overrides another session has written
formVars == <<formKinds, formRow, formData, formError, formFetch, formTab, form, formSaves,
              formElsewhere>>

-----------------------------------------------------------------------------
FormFields == {1, 2}         \* in the order handleSubmit looks at them
Settled == {"a", "b"}        \* values; "a" is the default of YAML and environment
FormTexts == Settled \cup {"bad", "empty"}

\* What can be entered, what handleSubmit refuses, what validateValue refuses.
KindOf ==
    [number    |-> [typed |-> Settled \cup {"bad"},   refused |-> {"bad"},   invalid |-> {}],
     choice    |-> [typed |-> Settled,                refused |-> {},        invalid |-> {}],
     text      |-> [typed |-> Settled \cup {"empty"}, refused |-> {"empty"}, invalid |-> {}],
     free      |-> [typed |-> Settled \cup {"empty"}, refused |-> {},        invalid |-> {"empty"}],
     url       |-> [typed |-> FormTexts,              refused |-> {"bad"},   invalid |-> {"empty"}],
     action    |-> [typed |-> Settled,                refused |-> {},        invalid |-> Settled],
     clearable |-> [typed |-> FormTexts,              refused |-> {"bad"},   invalid |-> {}]]

ScoringFields == {<<"number", "choice">>}
TierFields == {<<"clearable", "number">>, <<"number", "action">>}
EmailFields == {<<"text", "free">>}
LLMFields == {<<"free", "free">>}
AutomationFields == {<<"number", "choice">>}
VoiceFields == {<<"free", "url">>}
SectionFields == UNION {ScoringFields, TierFields, EmailFields, LLMFields, AutomationFields,
                        VoiceFields}

refuses(f, text) == text \in KindOf[formKinds[f]].refused
clears(f, text) == formKinds[f] = "clearable" /\ text = "empty"
isValid(f, text) == text \notin KindOf[formKinds[f]].invalid

ConfigRows == [FormFields -> Settled]
NoConfig == [has |-> FALSE]
NotMounted == [at |-> "none"]
FormStates == {NotMounted}
    \cup [at : {"form"}, texts : [FormFields -> FormTexts], typed : SUBSET FormFields,
          save : 0..MaxSubmits]
Edits == [texts : [FormFields -> FormTexts], changed : SUBSET FormFields, typed : SUBSET FormFields]
SubmitStates == [pc : {"new", "over", "stuck"}]
    \cup [pc : {"deleting"}, edit : Edits, field : FormFields, landed : BOOLEAN]
    \cup [pc : {"sending"}, edit : Edits, pending : SUBSET FormFields, landed : SUBSET FormFields]

\* The page was opened on another tab of it.
FormInit ==
    /\ formKinds \in SectionFields
    /\ formRow = [f \in FormFields |-> "a"] /\ formData = NoConfig /\ formError = FALSE
    /\ formFetch = [at |-> "sent"] /\ formTab = FALSE /\ form = NotMounted
    /\ formSaves = [s \in 1..MaxSubmits |-> [pc |-> "new"]] /\ formElsewhere = 0

-----------------------------------------------------------------------------
Fresh(row) == [at |-> "form", texts |-> row, typed |-> {}, save |-> 0]

\* The effect on [scoring] and its like: new values replace all that was typed.
\* Structural sharing keeps equal values the same object.  typed is a history: the
\* fields edited since the form has been shown these values.
keepTexts(row) == form.texts
syncTexts(row) == IF row = formData.row THEN form.texts ELSE row

ConfigAnswered ==
    /\ formFetch.at = "sent" /\ formFetch' = [at |-> "answer", row |-> formRow]
    /\ UNCHANGED <<formKinds, formRow, formData, formError, formTab, form, formSaves, formElsewhere>>

ConfigFetched ==
    /\ formFetch.at = "answer" /\ formFetch' = [at |-> "none"]
    /\ LET row == formFetch.row
       IN /\ formData' = [has |-> TRUE, row |-> row] /\ formError' = FALSE
          /\ form' = IF ~formTab THEN NotMounted
                     ELSE IF form = NotMounted THEN Fresh(row)
                     ELSE [form EXCEPT !.texts = syncTexts(row),
                                       !.typed = IF row = formData.row THEN @ ELSE {}]
    /\ UNCHANGED <<formKinds, formRow, formTab, formSaves, formElsewhere>>

\* The error page takes the place of the tabs, and of what was typed.
ConfigFetchFails ==
    /\ formFetch.at # "none" /\ formFetch' = [at |-> "none"]
    /\ formError' = TRUE /\ form' = NotMounted
    /\ UNCHANGED <<formKinds, formRow, formData, formTab, formSaves, formElsewhere>>

\* "Try Again", the window's focus, a reconnection.
ConfigRefetch ==
    /\ formFetch.at = "none" /\ formFetch' = [at |-> "sent"]
    /\ UNCHANGED <<formKinds, formRow, formData, formError, formTab, form, formSaves, formElsewhere>>

SetActiveSection ==
    /\ formData # NoConfig /\ ~formError
    /\ formTab' = ~formTab
    /\ form' = IF formTab THEN NotMounted ELSE Fresh(formData.row)
    /\ UNCHANGED <<formKinds, formRow, formData, formError, formFetch, formSaves, formElsewhere>>

Type(f, text) ==
    /\ form # NotMounted /\ text \in KindOf[formKinds[f]].typed /\ form.texts[f] # text
    /\ form' = [form EXCEPT !.texts[f] = text, !.typed = @ \cup {f}]
    /\ UNCHANGED <<formKinds, formRow, formData, formError, formFetch, formTab, formSaves,
                   formElsewhere>>

-----------------------------------------------------------------------------
setSubmit(s, next) == formSaves' = [formSaves EXCEPT ![s] = next]
invalidateConfig == formFetch' = IF formData = NoConfig /\ formFetch.at # "none" THEN formFetch
                                 ELSE [at |-> "sent"]

\* handleSubmit from a field on, with the texts and the values it closed over: the
\* first changed field that is refused ends it, one that is cleared is deleted and
\* awaited, and the others are sent together.
handleSubmit(edit, from) ==
    LET clearing == {f \in edit.changed : clears(f, edit.texts[f])}
        halts == {f \in edit.changed : f >= from /\ (refuses(f, edit.texts[f]) \/ f \in clearing)}
        first == CHOOSE f \in halts : \A g \in halts : f <= g
    IN IF halts # {}
       THEN IF first \in clearing
            THEN [pc |-> "deleting", edit |-> edit, field |-> first, landed |-> FALSE]
            ELSE [pc |-> "over"]
       ELSE IF edit.changed = clearing THEN [pc |-> "over"]
       ELSE [pc |-> "sending", edit |-> edit, pending |-> edit.changed \ clearing, landed |-> {}]

isSaving == form.save # 0 /\ formSaves[form.save].pc # "over"
Submit(s) ==
    /\ form # NotMounted /\ ~isSaving /\ formSaves[s].pc = "new"
    /\ \A t \in 1..s - 1 : formSaves[t].pc # "new"
    /\ setSubmit(s, handleSubmit([texts |-> form.texts, typed |-> form.typed,
             changed |-> {f \in FormFields : form.texts[f] # formData.row[f]}], 1))
    /\ form' = [form EXCEPT !.save = s]
    /\ UNCHANGED <<formKinds, formRow, formData, formError, formFetch, formTab, formElsewhere>>

DeleteLands(s) ==
    /\ formSaves[s].pc = "deleting" /\ ~formSaves[s].landed
    /\ setSubmit(s, [formSaves[s] EXCEPT !.landed = TRUE])
    /\ formRow' = [formRow EXCEPT ![formSaves[s].field] = "a"]
    /\ UNCHANGED <<formKinds, formData, formError, formFetch, formTab, form, formElsewhere>>

DeleteAnswered(s) ==
    /\ formSaves[s].pc = "deleting" /\ formSaves[s].landed
    /\ setSubmit(s, handleSubmit(formSaves[s].edit, formSaves[s].field + 1))
    /\ invalidateConfig
    /\ UNCHANGED <<formKinds, formRow, formData, formError, formTab, form, formElsewhere>>

\* Outside the try: the rejection leaves handleSubmit, and isSaving stays true.
DeleteOverrideFails(s) ==
    /\ formSaves[s].pc = "deleting" /\ setSubmit(s, [pc |-> "stuck"])
    /\ UNCHANGED <<formKinds, formRow, formData, formError, formFetch, formTab, form, formElsewhere>>

SetOverrideLands(s, f) ==
    /\ formSaves[s].pc = "sending" /\ f \in formSaves[s].pending
    /\ isValid(f, formSaves[s].edit.texts[f])
    /\ formRow' = [formRow EXCEPT ![f] = formSaves[s].edit.texts[f]]
    /\ setSubmit(s, [formSaves[s] EXCEPT !.pending = @ \ {f}, !.landed = @ \cup {f}])
    /\ UNCHANGED <<formKinds, formData, formError, formFetch, formTab, form, formElsewhere>>

\* Promise.allSettled, then finally.
settled(s, f) ==
    IF formSaves[s].pending \cup formSaves[s].landed = {f} THEN [pc |-> "over"]
    ELSE [formSaves[s] EXCEPT !.pending = @ \ {f}, !.landed = @ \ {f}]
SetOverrideAnswered(s, f) ==
    /\ formSaves[s].pc = "sending" /\ f \in formSaves[s].landed
    /\ setSubmit(s, settled(s, f)) /\ invalidateConfig
    /\ UNCHANGED <<formKinds, formRow, formData, formError, formTab, form, formElsewhere>>
SetOverrideFails(s, f) ==
    /\ formSaves[s].pc = "sending" /\ f \in formSaves[s].pending \cup formSaves[s].landed
    /\ setSubmit(s, settled(s, f))
    /\ UNCHANGED <<formKinds, formRow, formData, formError, formFetch, formTab, form, formElsewhere>>

SetElsewhere(f, value) ==
    /\ formElsewhere < MaxElsewhere /\ formElsewhere' = formElsewhere + 1
    /\ formRow[f] # value /\ formRow' = [formRow EXCEPT ![f] = value]
    /\ UNCHANGED <<formKinds, formData, formError, formFetch, formTab, form, formSaves>>

FormNext ==
    \/ ConfigAnswered \/ ConfigFetched \/ ConfigFetchFails \/ ConfigRefetch \/ SetActiveSection
    \/ \E f \in FormFields :
          \/ \E text \in FormTexts : Type(f, text)
          \/ \E value \in Settled : SetElsewhere(f, value)
    \/ \E s \in 1..MaxSubmits :
          \/ Submit(s) \/ DeleteLands(s) \/ DeleteAnswered(s) \/ DeleteOverrideFails(s)
          \/ \E f \in FormFields :
                SetOverrideLands(s, f) \/ SetOverrideAnswered(s, f) \/ SetOverrideFails(s, f)

FormSpec == FormInit /\ [][FormNext]_formVars

-----------------------------------------------------------------------------
FormTypeOK ==
    /\ formKinds \in SectionFields /\ formRow \in ConfigRows
    /\ formData \in {NoConfig} \cup [has : {TRUE}, row : ConfigRows]
    /\ formError \in BOOLEAN /\ formTab \in BOOLEAN
    /\ formFetch \in [at : {"none", "sent"}] \cup [at : {"answer"}, row : ConfigRows]
    /\ form \in FormStates /\ formSaves \in [1..MaxSubmits -> SubmitStates]
    /\ formElsewhere \in 0..MaxElsewhere

\* A save writes or deletes only what its user has entered over values the form has
\* shown: a setting that another session has changed meanwhile is not put back to what
\* an old text says.
OnlyEditsAreSaved ==
    \A s \in 1..MaxSubmits :
        formSaves[s].pc \in {"deleting", "sending"} =>
            formSaves[s].edit.changed \subseteq formSaves[s].edit.typed
=============================================================================

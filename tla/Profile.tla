-------------------------------- MODULE Profile --------------------------------
(***************************************************************************)
(* The registration of one person, the choice about cloud processing, and  *)
(* what leaves for the cloud because of it.                                *)
(*                                                                         *)
(* The updates of one person are handled one at a time (main.py builds the *)
(* dispatcher with SimpleEventIsolation), so a handler is one action.  But *)
(* it saves in several transactions, the dialogue's state and data and the *)
(* row of the user each in its own, and the process may die between two of *)
(* them: a handler lists the saved states it goes through and stops after  *)
(* any of them.  The other hazard is age.  Buttons stay in the chat, the   *)
(* dialogue keeps answers for weeks, and a restart may bring a             *)
(* configuration that names other recipients.                              *)
(***************************************************************************)
EXTENDS Naturals, Sequences

CONSTANTS
    Recipients,         \* the sets of providers a configuration may name, by fingerprint
    None,               \* no row, no dialogue, no choice, no call
    MainRetries, FallbackRetries,
    HasFallback,        \* whether the configuration names a fallback provider
    MaxCrashes          \* bound: how often the process dies in the middle of a handler

VARIABLES
    db,         \* what is saved: the row of the user, the dialogue, and what was created
    recipients, \* the fingerprint of the running configuration
    healthy,    \* LLMClient._main_healthy, a flag of the process
    offers,     \* fingerprints on the accept buttons of the chat
    call,       \* the request of the person that is at a provider
    accepted,   \* history: the recipients the person ever accepted
    crashes     \* crashes in the middle of a handler so far

vars == <<db, recipients, healthy, offers, call, accepted, crashes>>

\* A choice: none yet, cloud processing off, or on for these recipients.
Choice == Recipients \cup {None, "off"}

Steps == {"privacy", "name", "zone", "zone_input", "digest", "digest_input",
          "work", "work_input", "concepts", "first_task"}

\* The state of the one dialogue outside the registration: /settings asks for a time zone.
DialogueState == Steps \cup {"settings_zone", None}

\* The settings the registration asks for: a time zone, the times of the digests, the week.
Setting == {"zone", "digest", "work"}

Value == {"usual", "own"}

UserRow == [done : BOOLEAN, choice : Choice, profile : [Setting -> Value]]

Data == [return : {None, "onboarding", "completed"}, offered : Recipients \cup {None},
         choice : Choice, answers : [Setting -> Value \cup {None}]]

NoData == [return |-> None, offered |-> None, choice |-> None, answers |-> [f \in Setting |-> None]]

NewUser == [done |-> FALSE, choice |-> None, profile |-> [f \in Setting |-> "usual"]]

ASSUME ProfileAssumption ==
    /\ None \notin Recipients \cup Steps \cup {"settings_zone", "off"} \cup Value \cup UserRow
    /\ "off" \notin Recipients
    /\ MainRetries \in Nat /\ FallbackRetries \in Nat /\ MaxCrashes \in Nat
    /\ HasFallback \in BOOLEAN

----------------------------------------------------------------------------
(* Saving, and dying between two transactions                              *)

\* A handler goes through these saved states; a crash leaves it at any but the last.
Saves(stages) ==
    \E n \in 1..Len(stages) :
        /\ db' = stages[n]
        /\ IF n = Len(stages) THEN UNCHANGED crashes
           ELSE crashes < MaxCrashes /\ crashes' = crashes + 1

SetState(d, s) == [d EXCEPT !.state = s]

\* FSMContext.clear: the state first, then the data.
Clear(d) == <<SetState(d, None), [SetState(d, None) EXCEPT !.data = NoData]>>

\* The privacy notice with the fingerprint it was offered under, then the step.
PrivacyStep(d) ==
    LET offered == [d EXCEPT !.data.offered = recipients]
    IN <<offered, SetState(offered, "privacy")>>

Show == offers' = offers \cup {recipients}

\* Mutant: the switch is read, but not whom it was turned on for.
ConsentSwitchedOn(user) == user # None /\ user.choice \in Recipients

HasCurrentConsent(user) == user # None /\ user.choice = recipients

Idle == call = None

Env == UNCHANGED <<recipients, healthy>>
Quiet == Env /\ UNCHANGED <<offers, call, accepted>>

----------------------------------------------------------------------------
(* /start                                                                  *)

\* Nothing to ask: registered, and the choice made is about these recipients.
Settled(user) ==
    user # None /\ user.done /\ user.choice \in {"off", recipients}

\* The question of /settings takes every command but /privacy as its answer: its router is
\* asked before those of /start, /cancel and the local commands.
Reached == Idle /\ db.state # "settings_zone"

\* An open dialogue is asked again where it stands; only its privacy step saves anything.
Resume ==
    /\ Reached /\ ~Settled(db.user) /\ db.state # None
    /\ IF db.state = "privacy" THEN Saves(PrivacyStep(db)) /\ Show
       ELSE UNCHANGED <<db, crashes, offers>>
    /\ Env /\ UNCHANGED <<call, accepted>>

Start ==
    /\ Idle /\ ~Settled(db.user) /\ db.state = None
    /\ LET begun == [db EXCEPT !.data.return =
                        IF db.user # None /\ db.user.done THEN "completed" ELSE "onboarding"]
       IN Saves(<<begun>> \o PrivacyStep(begun))
    /\ Show /\ Env /\ UNCHANGED <<call, accepted>>

----------------------------------------------------------------------------
(* The choice                                                              *)

\* The row takes the choice if there is one; update_user_settings ignores a missing row.
Choose(d, choice) == IF d.user = None THEN d ELSE [d EXCEPT !.user.choice = choice]

\* The choice is saved in the dialogue and in the row; then the next step or the end.
Chosen(choice) ==
    LET inData == [db EXCEPT !.data.choice = choice]
        inRow == Choose(inData, choice)
    IN <<inData, inRow>> \o
       (IF db.data.return = "completed" THEN Clear(inRow) ELSE <<SetState(inRow, "name")>>)

OnbPrivacyAccept(f) ==
    /\ Idle /\ db.state = "privacy" /\ f \in offers
    /\ IF db.data.offered = recipients /\ f = recipients
       THEN Saves(Chosen(recipients)) /\ UNCHANGED offers
       ELSE Saves(PrivacyStep(db)) /\ Show
    /\ accepted' = accepted \cup {f}
    /\ Env /\ UNCHANGED call

OnbPrivacyDecline ==
    /\ Idle /\ db.state = "privacy"
    /\ Saves(Chosen("off"))
    /\ Quiet

\* /privacy shows the notice, and so does free text or voice that may not be processed.
CmdPrivacy == Idle /\ Show /\ Env /\ UNCHANGED <<db, crashes, call, accepted>>

\* A button of /privacy, of any age: a yes to other recipients only shows the notice again.
PrivacyEnable(f) ==
    /\ Idle /\ f \in offers
    /\ IF f = recipients THEN Saves(<<Choose(db, f)>>) /\ UNCHANGED offers
       ELSE Show /\ UNCHANGED <<db, crashes>>
    /\ accepted' = accepted \cup {f}
    /\ Env /\ UNCHANGED call

PrivacyDisable ==
    /\ Idle /\ offers # {}
    /\ Saves(<<Choose(db, "off")>>)
    /\ Show /\ Env /\ UNCHANGED <<call, accepted>>

----------------------------------------------------------------------------
(* The steps of the registration                                           *)

\* A name, from the button or typed: the row is created if it is missing, then takes
\* the choice kept in the dialogue, whatever it holds by now.
Name ==
    /\ Idle /\ db.state = "name"
    /\ LET row == IF db.user = None THEN [db EXCEPT !.user = NewUser] ELSE db
           told == Choose(row, db.data.choice)
       IN Saves(<<row, told, SetState(told, "zone")>>)
    /\ Quiet

\* Mutant: the dialogue moves on before the answer is saved.
AnswerLate(field, value, next) ==
    LET moved == SetState(db, next)
    IN <<moved, [moved EXCEPT !.data.answers[field] = value]>>

\* An answer is saved before the dialogue moves on.
Answer(field, value, next) ==
    LET kept == [db EXCEPT !.data.answers[field] = value]
    IN <<kept, SetState(kept, next)>>

\* The button takes the usual value, a typed answer any; an unreadable one is asked for
\* again and changes nothing.
Asked(step, input, value, next) ==
    /\ Idle
    /\ db.state = input \/ (db.state = step /\ value = "usual")
    /\ Saves(Answer(step, value, next))
    /\ Quiet

Zone(value)   == Asked("zone", "zone_input", value, "digest")
Digest(value) == Asked("digest", "digest_input", value, "work")
Work(value)   == Asked("work", "work_input", value, "concepts")

WorkSkip == Idle /\ db.state = "work" /\ Saves(<<SetState(db, "concepts")>>) /\ Quiet

\* "Change": the answer will be typed.
Type(step, input) == Idle /\ db.state = step /\ Saves(<<SetState(db, input)>>) /\ Quiet

TypeInstead == Type("zone", "zone_input") \/ Type("digest", "digest_input") \/ Type("work", "work_input")

Concepts == Idle /\ db.state = "concepts" /\ Saves(<<SetState(db, "first_task")>>) /\ Quiet

\* The profile with the answers of the dialogue; what was skipped stays as it is.
Answered(d) ==
    [f \in Setting |-> IF d.data.answers[f] = None THEN d.user.profile[f] ELSE d.data.answers[f]]

\* Mutant: a registration that is complete already is completed again.
CompleteAgain(d, tasks) ==
    IF d.user = None THEN d
    ELSE [d EXCEPT !.user = [@ EXCEPT !.done = TRUE, !.profile = Answered(d)], !.firstTasks = @ + tasks]

\* One transaction: nothing if the registration is complete already, otherwise the
\* first task, if there is one, and the profile.
Complete(d, tasks) ==
    IF d.user = None \/ d.user.done THEN d
    ELSE [d EXCEPT !.user = [@ EXCEPT !.done = TRUE, !.profile = Answered(d)], !.firstTasks = @ + tasks]

\* The first task is typed (1) or skipped (0); a missing row makes the handler fail.
FirstTask(tasks) ==
    /\ Idle /\ db.state = "first_task" /\ db.user # None
    /\ LET complete == Complete(db, tasks) IN Saves(<<complete>> \o Clear(complete))
    /\ Quiet

----------------------------------------------------------------------------
(* Commands and settings                                                   *)

SettingsZone ==
    /\ Idle /\ db.user # None
    /\ Saves(<<SetState(db, "settings_zone")>>)
    /\ Quiet

\* Any text at all answers the open question; only a readable zone ends the dialogue.
SettingsZoneText(value) ==
    /\ Idle /\ db.state = "settings_zone"
    /\ LET told == [db EXCEPT !.user.profile["zone"] = value] IN Saves(<<told>> \o Clear(told))
    /\ Quiet

\* A picker of /settings, of any age, in the middle of anything.
Set(field, value) ==
    /\ Idle /\ db.user # None
    /\ Saves(<<[db EXCEPT !.user.profile[field] = value]>>)
    /\ Quiet

Cancel == Reached /\ Saves(Clear(db)) /\ Quiet

\* /add, /note or /remind, perhaps the second delivery of the same message: the record
\* and the journal's result are saved in one transaction under the message's key.
LocalCommand ==
    /\ Reached /\ db.user # None
    /\ db' = IF db.journal THEN db ELSE [db EXCEPT !.journal = TRUE, !.records = @ + 1]
    /\ Quiet /\ UNCHANGED crashes

----------------------------------------------------------------------------
(* Free text and the providers                                             *)

Begin == IF healthy \/ ~HasFallback THEN [provider |-> "main", left |-> MainRetries]
         ELSE [provider |-> "fallback", left |-> FallbackRetries]

\* Text is for the assistant unless a step of a dialogue waits for it.
Text ==
    /\ Idle
    /\ db.state \in {None, "privacy", "zone", "digest", "work", "concepts"}
    /\ HasCurrentConsent(db.user)
    /\ call' = Begin
    /\ Env /\ UNCHANGED <<db, offers, accepted, crashes>>

CallEnds == call # None /\ call' = None /\ Env /\ UNCHANGED <<db, offers, accepted, crashes>>

\* An attempt fails; the consent is read again before the next one.
Retry ==
    /\ call # None /\ call.left > 0 /\ HasCurrentConsent(db.user)
    /\ call' = [call EXCEPT !.left = @ - 1]
    /\ Env /\ UNCHANGED <<db, offers, accepted, crashes>>

\* The main provider gave up: it is out of use until a health check, and the fallback is asked.
Fallback ==
    /\ call # None /\ call.provider = "main"
    /\ healthy' = FALSE
    /\ call' = IF HasFallback /\ HasCurrentConsent(db.user)
               THEN [provider |-> "fallback", left |-> FallbackRetries] ELSE None
    /\ UNCHANGED <<db, recipients, offers, accepted, crashes>>

HealthCheck == \E up \in BOOLEAN : healthy' = up /\ UNCHANGED <<db, recipients, offers, call, accepted, crashes>>

\* A restart, perhaps with a configuration that names other recipients.
Restart ==
    /\ recipients' \in Recipients
    /\ healthy' = TRUE /\ call' = None
    /\ UNCHANGED <<db, offers, accepted, crashes>>

----------------------------------------------------------------------------
\* A newcomer, or a person whose registration is older than the privacy notice.
Init ==
    /\ db \in [user : {None, [NewUser EXCEPT !.done = TRUE]}, state : {None}, data : {NoData},
               firstTasks : {0}, journal : {FALSE}, records : {0}]
    /\ recipients \in Recipients /\ healthy = TRUE
    /\ offers = {} /\ call = None /\ accepted = {} /\ crashes = 0

Next ==
    \/ Start \/ Resume \/ CmdPrivacy \/ PrivacyDisable \/ OnbPrivacyDecline
    \/ \E f \in Recipients : OnbPrivacyAccept(f) \/ PrivacyEnable(f)
    \/ Name \/ WorkSkip \/ TypeInstead \/ Concepts
    \/ \E value \in Value :
        \/ Zone(value) \/ Digest(value) \/ Work(value) \/ SettingsZoneText(value)
        \/ \E field \in Setting : Set(field, value)
    \/ \E tasks \in {0, 1} : FirstTask(tasks)
    \/ SettingsZone \/ Cancel \/ LocalCommand
    \/ Text \/ CallEnds \/ Retry \/ Fallback \/ HealthCheck \/ Restart

Spec == Init /\ [][Next]_vars

\* A call ends: every attempt has a time limit.
FairSpec == Spec /\ WF_vars(CallEnds)

----------------------------------------------------------------------------
(* Properties                                                              *)

\* Type of the saved rows and of the process; what the dialogue holds is always readable.
TypeOK ==
    /\ db \in [user : {None} \cup UserRow,
               state : DialogueState, data : Data,
               firstTasks : Nat, journal : BOOLEAN, records : Nat]
    /\ recipients \in Recipients /\ healthy \in BOOLEAN
    /\ offers \subseteq Recipients /\ accepted \subseteq Recipients
    /\ call \in {None} \cup [provider : {"main", "fallback"}, left : 0..(MainRetries + FallbackRetries)]
    /\ crashes \in 0..MaxCrashes

\* Text reaches a provider only if the person pressed an accept button that named the
\* recipients of the running configuration, and the row says so during the whole call:
\* an old button, a restart with other providers and a half-finished dialogue do not open the way.
EgressOnlyToAccepted ==
    call # None => recipients \in accepted /\ HasCurrentConsent(db.user)

\* The registration creates the first task once and a local command its record once,
\* although a crash may leave the dialogue open after the task was saved, and a message
\* may be delivered twice.
CreatedOnce == db.firstTasks <= 1 /\ db.records <= 1

\* A dialogue stands at a step only when everything before it is saved: the offer it
\* compares a press with, the choice, the row, and the answers the profile is made of.
StepsAreBacked ==
    /\ db.state = "privacy" => db.data.offered # None
    /\ db.state \in Steps \ {"privacy"} => db.data.choice # None
    /\ db.state \in Steps \ {"privacy", "name"} => db.user # None
    /\ db.state \in Steps \ {"privacy", "name", "zone", "zone_input"} => db.data.answers["zone"] # None
    /\ db.state \in {"work", "work_input", "concepts", "first_task"} => db.data.answers["digest"] # None

\* The saved rows are well formed, and a dialogue never stands on an answer that is missing.
DialogueIsBacked == TypeOK /\ CreatedOnce /\ StepsAreBacked

\* Nobody is registered without having been asked about cloud processing, however the
\* dialogue was interrupted, cancelled and taken up again.
RegisteredMeansAsked ==
    [][ db'.user # None /\ db'.user.done /\ db'.user.choice = None
        => db.user # None /\ db.user.done ]_vars

\* Once registered, a person's settings change only under /settings: answers left in a
\* dialogue that a crash kept open, or that is begun again, do not come back.
AnswersApplyOnce ==
    [][ db.user # None /\ db.user.done /\ db'.user.profile # db.user.profile
        => \E value \in Value : SettingsZoneText(value) \/ \E field \in Setting : Set(field, value) ]_vars

\* The dialogue decides nothing behind the person's back, before the registration or after it.
RegistrationIsHonest == RegisteredMeansAsked /\ AnswersApplyOnce

\* A person who said no is not turned to yes except by an accept button.
\* docs/PRIVACY.md promises that after a refusal free text stays blocked.
RefusalHolds ==
    [][ db.user # None /\ db.user.choice = "off" /\ db'.user # None /\ db'.user.choice \in Recipients
        => \E f \in Recipients : OnbPrivacyAccept(f) \/ PrivacyEnable(f) ]_vars

================================================================================

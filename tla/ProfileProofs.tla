----------------------------- MODULE ProfileProofs -----------------------------
(***************************************************************************)
(* What holds of Profile for every set of recipients, every configuration  *)
(* of the providers and any number of crashes.                             *)
(*                                                                         *)
(* A handler saves a list of states, and a crash leaves the database at    *)
(* any of them.  The proofs therefore speak of sets of saved states: what  *)
(* may follow a state d is After(d), and Quietly(d) if the profile of a    *)
(* registered person stays as it is; every handler is a sequence over one  *)
(* of these sets.  Both are closed under composition, so that a handler    *)
(* that saves three times is three small steps.                            *)
(***************************************************************************)
EXTENDS Profile, SequenceTheorems, TLAPS

Saved == [user : {None} \cup UserRow, state : DialogueState, data : Data,
          firstTasks : Nat, journal : BOOLEAN, records : Nat]

\* StepsAreBacked of any state, with the choice in the row from the name on, and the row
\* under the question of /settings.
Backed(d) ==
    /\ d.state = "settings_zone" => d.user # None
    /\ d.state = "privacy" => d.data.offered # None
    /\ d.state \in Steps \ {"privacy"} => d.data.choice # None
    /\ d.state \in Steps \ {"privacy", "name"} => d.user # None /\ d.user.choice # None
    /\ d.state \in Steps \ {"privacy", "name", "zone", "zone_input"} => d.data.answers["zone"] # None
    /\ d.state \in {"work", "work_input", "concepts", "first_task"} => d.data.answers["digest"] # None

\* What was created once says so: the registration is complete, the journal has the result.
Once(d) ==
    /\ d.firstTasks = 0 \/ (d.firstTasks = 1 /\ d.user # None /\ d.user.done)
    /\ d.records = 0 \/ (d.records = 1 /\ d.journal)

\* A yes in the row or in the dialogue was given by a button.
Given(d, acc) ==
    /\ d.user # None => d.user.choice \in acc \cup {None, "off"}
    /\ d.data.choice \in acc \cup {None, "off"}

Good(acc) == {d \in Saved : Backed(d) /\ Once(d) /\ Given(d, acc)}

\* Nobody gets registered without a choice, and nobody loses the choice made.
StillAsked(d, e) ==
    e.user # None /\ e.user.done /\ e.user.choice = None
    => d.user # None /\ d.user.done /\ d.user.choice = None

\* A registered person keeps the profile.
ProfileKept(d, e) ==
    d.user # None /\ d.user.done
    => e.user # None /\ e.user.done /\ e.user.profile = d.user.profile

After(d, acc) == {e \in Good(acc) : StillAsked(d, e)}

Quietly(d, acc) == {e \in After(d, acc) : ProfileKept(d, e)}

Inv ==
    /\ db \in Good(accepted)
    /\ recipients \in Recipients /\ healthy \in BOOLEAN
    /\ offers \subseteq Recipients /\ accepted \subseteq Recipients
    /\ call \in {None} \cup [provider : {"main", "fallback"}, left : 0..(MainRetries + FallbackRetries)]
    /\ crashes \in 0..MaxCrashes
    /\ EgressOnlyToAccepted

--------------------------------------------------------------------------------
(* Sequences of saved states                                                    *)

\* A list of one to three states of a set is a sequence over it.
LEMMA Lists ==
    ASSUME NEW S, NEW a \in S, NEW b \in S, NEW c \in S
    PROVE  <<a>> \in Seq(S) /\ <<a, b>> \in Seq(S) /\ <<a, b, c>> \in Seq(S)
OBVIOUS

\* Wherever a crash leaves a handler, the database holds one of its states.
LEMMA SavesOneOf ==
    ASSUME NEW S, NEW stages \in Seq(S), crashes \in 0..MaxCrashes, Saves(stages)
    PROVE  db' \in S /\ crashes' \in 0..MaxCrashes
<1>1. PICK n \in 1..Len(stages) :
          /\ db' = stages[n]
          /\ IF n = Len(stages) THEN UNCHANGED crashes
             ELSE crashes < MaxCrashes /\ crashes' = crashes + 1
  BY DEF Saves
<1>2. db' \in S
  BY <1>1, ElementOfSeq
<1>3. crashes' \in 0..MaxCrashes
  BY <1>1, ProfileAssumption
<1> QED
  BY <1>2, <1>3

\* What follows what follows a state follows that state.
LEMMA AfterChain ==
    ASSUME NEW acc, NEW d, NEW e \in After(d, acc), NEW f \in After(e, acc)
    PROVE  f \in After(d, acc)
BY DEF After, StillAsked

LEMMA QuietlyChain ==
    ASSUME NEW acc, NEW d, NEW e \in Quietly(d, acc), NEW f \in Quietly(e, acc)
    PROVE  f \in Quietly(d, acc)
<1>1. f \in After(d, acc)
  BY AfterChain DEF Quietly
<1>2. ProfileKept(d, f)
  BY DEF Quietly, ProfileKept
<1> QED
  BY <1>1, <1>2 DEF Quietly

\* A state with the same row follows quietly.
LEMMA SameRow ==
    ASSUME NEW acc, NEW d, NEW e \in Good(acc), e.user = d.user
    PROVE  e \in Quietly(d, acc)
BY DEF Quietly, After, StillAsked, ProfileKept

--------------------------------------------------------------------------------
(* The saves that handlers are made of                                          *)

\* The dialogue moves to a step that is backed.
LEMMA Moving ==
    ASSUME NEW acc, NEW d \in Good(acc), NEW s \in DialogueState, Backed(SetState(d, s))
    PROVE  SetState(d, s) \in Quietly(d, acc)
<1> DEFINE e == SetState(d, s)
<1>1. /\ e.user = d.user /\ e.data = d.data /\ e.firstTasks = d.firstTasks
      /\ e.journal = d.journal /\ e.records = d.records
  BY DEF SetState, Good, Saved
<1>2. e \in Saved
  BY DEF SetState, Good, Saved
<1>3. Once(e) /\ Given(e, acc)
  BY <1>1 DEF Good, Once, Given
<1>4. e \in Good(acc)
  BY <1>2, <1>3 DEF Good
<1> QED
  BY <1>1, <1>4, SameRow

\* Clearing the dialogue.
LEMMA Clearing ==
    ASSUME NEW acc, NEW d \in Good(acc)
    PROVE  Clear(d) \in Seq(Quietly(d, acc))
<1> DEFINE e == SetState(d, None)
           f == [e EXCEPT !.data = NoData]
<1>1. e.state = None /\ e \in Saved /\ e.user = d.user
  BY DEF SetState, Good, Saved, DialogueState
<1>2. Backed(e)
  BY <1>1, ProfileAssumption DEF Backed, Steps
<1>3. e \in Quietly(d, acc)
  BY <1>2, Moving DEF DialogueState
<1>4. NoData \in Data /\ NoData.choice = None
  BY DEF NoData, Data, Choice
<1>5. /\ f \in Saved /\ f.state = None /\ f.user = d.user /\ f.data = NoData
      /\ f.firstTasks = e.firstTasks /\ f.journal = e.journal /\ f.records = e.records
  BY <1>1, <1>4 DEF Saved
<1>6. Backed(f)
  BY <1>5, ProfileAssumption DEF Backed, Steps
<1>7. Once(f) /\ Given(f, acc)
  BY <1>1, <1>3, <1>4, <1>5 DEF Quietly, After, Good, Once, Given
<1>8. f \in Quietly(d, acc)
  BY <1>5, <1>6, <1>7, SameRow DEF Good
<1> QED
  BY <1>3, <1>8, Lists DEF Clear

\* The notice is shown under the fingerprint that is saved before the step.
LEMMA Offering ==
    ASSUME NEW acc, NEW d \in Good(acc), recipients \in Recipients
    PROVE  PrivacyStep(d) \in Seq(Quietly(d, acc))
<1> DEFINE e == [d EXCEPT !.data.offered = recipients]
<1>1. /\ e \in Saved /\ e.state = d.state /\ e.user = d.user
      /\ e.firstTasks = d.firstTasks /\ e.journal = d.journal /\ e.records = d.records
      /\ e.data.offered = recipients /\ e.data.choice = d.data.choice
      /\ e.data.answers = d.data.answers
  BY DEF Good, Saved, Data
<1>2. Once(e) /\ Given(e, acc)
  BY <1>1 DEF Good, Once, Given
<1>3. Backed(e)
  BY <1>1, ProfileAssumption DEF Good, Backed
<1>4. e \in Good(acc)
  BY <1>1, <1>2, <1>3 DEF Good
<1>5. Backed(SetState(e, "privacy"))
  BY <1>1, ProfileAssumption DEF Backed, SetState, Good, Saved, Steps
<1>6. e \in Quietly(d, acc)
  BY <1>1, <1>4, SameRow
<1>7. SetState(e, "privacy") \in Quietly(e, acc)
  BY <1>4, <1>5, Moving DEF DialogueState, Steps
<1>8. SetState(e, "privacy") \in Quietly(d, acc)
  BY <1>6, <1>7, QuietlyChain
<1> QED
  BY <1>6, <1>8, Lists DEF PrivacyStep

\* The row takes a choice that was given, if there is a row.
LEMMA Choosing ==
    ASSUME NEW acc \in SUBSET Recipients, NEW d \in Good(acc), NEW choice \in acc \cup {"off"}
    PROVE  /\ Choose(d, choice) \in Quietly(d, acc)
           /\ Choose(d, choice).state = d.state /\ Choose(d, choice).data = d.data
           /\ d.user # None => /\ Choose(d, choice).user # None
                               /\ Choose(d, choice).user.choice = choice
<1>1. CASE d.user = None
  BY <1>1, SameRow DEF Choose
<1>2. CASE d.user # None
  <2> DEFINE e == [d EXCEPT !.user.choice = choice]
  <2>1. d.user \in UserRow
    BY <1>2 DEF Good, Saved
  <2>2. choice \in Choice /\ choice # None
    BY ProfileAssumption DEF Choice
  <2>3. /\ e.user = [d.user EXCEPT !.choice = choice]
        /\ e.data = d.data /\ e.state = d.state
        /\ e.firstTasks = d.firstTasks /\ e.journal = d.journal /\ e.records = d.records
    BY DEF Good, Saved
  <2>4. /\ e.user \in UserRow /\ e.user.choice = choice
        /\ e.user.done = d.user.done /\ e.user.profile = d.user.profile
    BY <2>1, <2>2, <2>3 DEF UserRow
  <2>5. e.user # None
    BY <2>4, ProfileAssumption
  <2>6. e \in Saved
    BY <2>1, <2>2 DEF Good, Saved, UserRow
  <2>7. Backed(e)
    BY <2>2, <2>3, <2>4, <2>5 DEF Good, Backed
  <2>8. Once(e) /\ Given(e, acc)
    BY <2>3, <2>4, <2>5, <1>2 DEF Good, Once, Given
  <2>9. StillAsked(d, e) /\ ProfileKept(d, e)
    BY <2>2, <2>4, <2>5 DEF StillAsked, ProfileKept
  <2>10. Choose(d, choice) = e
    BY <1>2 DEF Choose
  <2> QED
    BY <2>3, <2>4, <2>5, <2>6, <2>7, <2>8, <2>9, <2>10 DEF Quietly, After, Good
<1> QED
  BY <1>1, <1>2

\* An answer is kept in the dialogue.
LEMMA Keeping ==
    ASSUME NEW acc, NEW d \in Good(acc), NEW field \in Setting, NEW value \in Value
    PROVE  LET e == [d EXCEPT !.data.answers[field] = value]
           IN  /\ e \in Quietly(d, acc)
               /\ e.state = d.state /\ e.user = d.user /\ e.data.choice = d.data.choice
               /\ e.data.answers = [d.data.answers EXCEPT ![field] = value]
<1> DEFINE e == [d EXCEPT !.data.answers[field] = value]
<1>1. d.data.answers \in [Setting -> Value \cup {None}]
  BY DEF Good, Saved, Data
<1>2. /\ e.state = d.state /\ e.user = d.user
      /\ e.firstTasks = d.firstTasks /\ e.journal = d.journal /\ e.records = d.records
      /\ e.data = [d.data EXCEPT !.answers[field] = value]
  BY DEF Good, Saved
<1>3. /\ e.data \in Data /\ e.data.choice = d.data.choice /\ e.data.offered = d.data.offered
      /\ e.data.answers = [d.data.answers EXCEPT ![field] = value]
  BY <1>1, <1>2 DEF Good, Saved, Data
<1>4. e \in Saved
  BY <1>2, <1>3 DEF Good, Saved
<1>5. value # None
  BY ProfileAssumption
<1>6. \A f \in Setting : d.data.answers[f] # None => e.data.answers[f] # None
  BY <1>1, <1>3, <1>5
<1>7. Backed(e)
  BY <1>2, <1>3, <1>6 DEF Good, Backed, Setting
<1>8. Once(e) /\ Given(e, acc)
  BY <1>2, <1>3 DEF Good, Once, Given
<1>9. e \in Good(acc)
  BY <1>4, <1>7, <1>8 DEF Good
<1> QED
  BY <1>2, <1>3, <1>9, SameRow

\* A new row is not registered and has no choice yet.
LEMMA Creating ==
    ASSUME NEW acc, NEW d \in Good(acc), d.state = "name", d.user = None
    PROVE  LET e == [d EXCEPT !.user = NewUser]
           IN  e \in Quietly(d, acc) /\ e.state = "name" /\ e.data = d.data /\ e.user # None
<1> DEFINE e == [d EXCEPT !.user = NewUser]
<1>1. NewUser \in UserRow /\ NewUser.choice = None /\ ~NewUser.done
  BY DEF NewUser, UserRow, Choice, Setting, Value
<1>2. NewUser # None
  BY <1>1, ProfileAssumption
<1>3. /\ e.user = NewUser /\ e.state = "name" /\ e.data = d.data
      /\ e.firstTasks = d.firstTasks /\ e.journal = d.journal /\ e.records = d.records
  BY DEF Good, Saved
<1>4. e \in Saved
  BY <1>1 DEF Good, Saved
<1>5. Backed(e)
  BY <1>2, <1>3 DEF Good, Backed
<1>6. Once(e) /\ Given(e, acc)
  BY <1>1, <1>3 DEF Good, Once, Given
<1>7. StillAsked(d, e) /\ ProfileKept(d, e)
  BY <1>1, <1>3 DEF StillAsked, ProfileKept
<1> QED
  BY <1>2, <1>3, <1>4, <1>5, <1>6, <1>7 DEF Quietly, After, Good

\* The registration completes once, and only for a person who was asked.
LEMMA Completing ==
    ASSUME NEW acc, NEW d \in Good(acc), NEW tasks \in {0, 1},
           d.state = "first_task", d.user # None
    PROVE  Complete(d, tasks) \in Quietly(d, acc)
<1>1. CASE d.user.done
  BY <1>1, SameRow DEF Complete
<1>2. CASE ~d.user.done
  <2> DEFINE row == [d.user EXCEPT !.done = TRUE, !.profile = Answered(d)]
             e == [d EXCEPT !.user = row, !.firstTasks = @ + tasks]
  <2>1. d.user \in UserRow /\ d.data \in Data /\ d.firstTasks = 0
    BY <1>2 DEF Good, Saved, Once
  <2>2. Answered(d) \in [Setting -> Value]
    BY <2>1 DEF Answered, UserRow, Data
  <2>3. row \in UserRow /\ row.done /\ row.choice = d.user.choice
    BY <2>1, <2>2 DEF UserRow
  <2>4. Complete(d, tasks) = e
    BY <1>2 DEF Complete
  <2> HIDE DEF row
  <2>5. /\ e.user = row
        /\ e.firstTasks = tasks /\ e.data = d.data /\ e.state = d.state
        /\ e.journal = d.journal /\ e.records = d.records
    BY <2>1 DEF Good, Saved
  <2>6. e.user # None
    BY <2>3, <2>5, ProfileAssumption
  <2>7. e \in Saved
    <3>1. d \in Saved /\ d.firstTasks + tasks \in Nat
      BY <2>1 DEF Good
    <3>2. [d EXCEPT !.user = row] \in Saved
      BY <2>3, <3>1 DEF Saved
    <3> QED
      BY <3>1, <3>2 DEF Saved
  <2>8. Backed(e)
    BY <2>3, <2>5, <2>6 DEF Good, Backed
  <2>9. Once(e) /\ Given(e, acc)
    BY <2>3, <2>5, <2>6 DEF Good, Once, Given
  <2>10. e.user.choice # None
    BY <2>3, <2>5 DEF Good, Backed, Steps
  <2>11. StillAsked(d, e) /\ ProfileKept(d, e)
    BY <1>2, <2>10 DEF StillAsked, ProfileKept
  <2> QED
    BY <2>7, <2>8, <2>9, <2>11, <2>4 DEF Quietly, After, Good
<1> QED
  BY <1>1, <1>2

\* A setting changed under /settings.
LEMMA Changing ==
    ASSUME NEW acc, NEW d \in Good(acc), d.user # None, NEW field \in Setting, NEW value \in Value
    PROVE  [d EXCEPT !.user.profile[field] = value] \in After(d, acc)
<1> DEFINE e == [d EXCEPT !.user.profile[field] = value]
<1>1. d.user \in UserRow
  BY DEF Good, Saved
<1>2. /\ e.user = [d.user EXCEPT !.profile[field] = value]
      /\ e.data = d.data /\ e.state = d.state
      /\ e.firstTasks = d.firstTasks /\ e.journal = d.journal /\ e.records = d.records
  BY DEF Good, Saved
<1>3. /\ e.user \in UserRow /\ e.user.done = d.user.done /\ e.user.choice = d.user.choice
  BY <1>1, <1>2 DEF UserRow
<1>4. e.user # None
  BY <1>3, ProfileAssumption
<1>5. e \in Saved
  BY <1>2, <1>3 DEF Good, Saved
<1>6. Backed(e)
  BY <1>2, <1>3, <1>4 DEF Good, Backed
<1>7. Once(e) /\ Given(e, acc) /\ StillAsked(d, e)
  BY <1>2, <1>3, <1>4 DEF Good, Once, Given, StillAsked
<1> QED
  BY <1>5, <1>6, <1>7 DEF After, Good

--------------------------------------------------------------------------------
(* The handlers, as lists of saves                                              *)

\* The choice goes to the dialogue and to the row; then the dialogue moves on or ends.
LEMMA ChosenSaves ==
    ASSUME NEW acc \in SUBSET Recipients, db \in Good(acc), db.state = "privacy",
           NEW choice \in acc \cup {"off"}
    PROVE  Chosen(choice) \in Seq(Quietly(db, acc))
<1> DEFINE inData == [db EXCEPT !.data.choice = choice]
           inRow == Choose(inData, choice)
           S == Quietly(db, acc)
<1>1. choice \in Choice /\ choice # None
  BY ProfileAssumption DEF Choice
<1>2. /\ inData \in Saved /\ inData.state = "privacy" /\ inData.user = db.user
      /\ inData.firstTasks = db.firstTasks /\ inData.journal = db.journal
      /\ inData.records = db.records
      /\ inData.data.choice = choice /\ inData.data.offered = db.data.offered
      /\ inData.data.answers = db.data.answers
  BY <1>1 DEF Good, Saved, Data
<1>3. Backed(inData) /\ Once(inData) /\ Given(inData, acc)
  BY <1>1, <1>2 DEF Good, Backed, Once, Given
<1>4. inData \in Good(acc) /\ inData \in S
  BY <1>2, <1>3, SameRow DEF Good
<1> HIDE DEF inData
<1>5. inRow \in Quietly(inData, acc) /\ inRow.state = "privacy" /\ inRow.data = inData.data
  BY <1>2, <1>4, Choosing
<1>6. inRow \in S
  BY <1>4, <1>5, QuietlyChain
<1>7. inRow \in Good(acc)
  BY <1>6 DEF Quietly, After
<1> HIDE DEF inRow
<1>8. <<inData, inRow>> \in Seq(S)
  BY <1>4, <1>6, Lists
<1>9. Clear(inRow) \in Seq(S)
  <2>1. Clear(inRow) \in Seq(Quietly(inRow, acc))
    BY <1>7, Clearing
  <2>2. Quietly(inRow, acc) \subseteq S
    BY <1>6, QuietlyChain
  <2> QED
    BY <2>1, <2>2, SeqMonotonic
<1>10. <<SetState(inRow, "name")>> \in Seq(S)
  <2>1. Backed(SetState(inRow, "name"))
    BY <1>1, <1>2, <1>5, <1>7 DEF Backed, SetState, Good, Saved
  <2>2. SetState(inRow, "name") \in Quietly(inRow, acc)
    BY <1>7, <2>1, Moving DEF DialogueState, Steps
  <2>3. SetState(inRow, "name") \in S
    BY <1>6, <2>2, QuietlyChain
  <2> QED
    BY <2>3, Lists
<1>11. Chosen(choice) = <<inData, inRow>> \o
          (IF db.data.return = "completed" THEN Clear(inRow) ELSE <<SetState(inRow, "name")>>)
  BY DEF Chosen, inRow, inData
<1> HIDE DEF S
<1> QED
  BY <1>8, <1>9, <1>10, <1>11, ConcatProperties DEF S

\* A name: the row, the choice, the next step.
LEMMA NameSaves ==
    ASSUME NEW acc \in SUBSET Recipients, db \in Good(acc), db.state = "name"
    PROVE  LET row == IF db.user = None THEN [db EXCEPT !.user = NewUser] ELSE db
               told == Choose(row, db.data.choice)
           IN  <<row, told, SetState(told, "zone")>> \in Seq(Quietly(db, acc))
<1> DEFINE row == IF db.user = None THEN [db EXCEPT !.user = NewUser] ELSE db
           choice == db.data.choice
           told == Choose(row, choice)
<1>1. row \in Quietly(db, acc) /\ row.state = "name" /\ row.data = db.data /\ row.user # None
  BY Creating, SameRow
<1>2. choice \in acc \cup {"off"} /\ choice # None
  BY ProfileAssumption DEF Good, Backed, Given, Steps
<1> HIDE DEF row, choice
<1>3. row \in Good(acc)
  BY <1>1 DEF Quietly, After
<1>4. /\ told \in Quietly(row, acc) /\ told.state = "name" /\ told.data = db.data
      /\ told.user # None /\ told.user.choice # None
  BY <1>1, <1>2, <1>3, Choosing
<1> HIDE DEF told
<1>5. told \in Quietly(db, acc) /\ told \in Good(acc)
  BY <1>1, <1>4, QuietlyChain DEF Quietly, After
<1>6. Backed(SetState(told, "zone"))
  BY <1>2, <1>4, <1>5 DEF Backed, SetState, Good, Saved, choice
<1>7. SetState(told, "zone") \in Quietly(told, acc)
  BY <1>5, <1>6, Moving DEF DialogueState, Steps
<1>8. SetState(told, "zone") \in Quietly(db, acc)
  BY <1>5, <1>7, QuietlyChain
<1> QED
  BY <1>1, <1>5, <1>8, Lists DEF row, told, choice

\* An answer: it is kept, then the dialogue moves to a step for which it is enough.
LEMMA AnswerSaves ==
    ASSUME NEW acc, db \in Good(acc), NEW value \in Value,
           NEW field, NEW next,
           \/ field = "zone" /\ next = "digest" /\ db.state \in {"zone", "zone_input"}
           \/ field = "digest" /\ next = "work" /\ db.state \in {"digest", "digest_input"}
           \/ field = "work" /\ next = "concepts" /\ db.state \in {"work", "work_input"}
    PROVE  Answer(field, value, next) \in Seq(Quietly(db, acc))
<1> DEFINE kept == [db EXCEPT !.data.answers[field] = value]
<1>1. field \in Setting /\ next \in DialogueState
  BY DEF Setting, DialogueState, Steps
<1>2. /\ kept \in Quietly(db, acc)
      /\ kept.state = db.state /\ kept.user = db.user /\ kept.data.choice = db.data.choice
      /\ kept.data.answers = [db.data.answers EXCEPT ![field] = value]
  BY <1>1, Keeping
<1> HIDE DEF kept
<1>3. kept \in Good(acc)
  BY <1>2 DEF Quietly, After
<1>4. db.data.answers \in [Setting -> Value \cup {None}] /\ value # None
  BY ProfileAssumption DEF Good, Saved, Data
<1>5. Backed(SetState(kept, next))
  <2>1. SetState(kept, next).state = next /\ SetState(kept, next).data = kept.data
        /\ SetState(kept, next).user = kept.user
    BY <1>3 DEF SetState, Good, Saved
  <2>2. /\ db.data.choice # None /\ db.user # None /\ db.user.choice # None
        /\ field # "zone" => db.data.answers["zone"] # None
        /\ field = "work" => db.data.answers["digest"] # None
    BY DEF Good, Backed, Steps
  <2>3. /\ kept.data.answers["zone"] # None
        /\ field # "zone" => kept.data.answers["digest"] # None
    BY <1>1, <1>2, <1>4, <2>2 DEF Setting
  <2> QED
    BY <1>2, <2>1, <2>2, <2>3 DEF Backed, Steps
<1>6. SetState(kept, next) \in Quietly(db, acc)
  BY <1>1, <1>2, <1>3, <1>5, Moving, QuietlyChain
<1> QED
  BY <1>2, <1>6, Lists DEF Answer, kept

--------------------------------------------------------------------------------
(* The invariant                                                                *)

\* What the two action properties need of a step.
QuietStep == StillAsked(db, db') /\ ProfileKept(db, db')

\* A handler that saves states of Quietly keeps the invariant and is a quiet step.
LEMMA QuietHandler ==
    ASSUME Inv, Idle, NEW stages, Saves(stages),
           stages \in Seq(Quietly(db, accepted')),
           accepted \subseteq accepted', accepted' \subseteq Recipients,
           offers' \subseteq Recipients, Env, UNCHANGED call
    PROVE  Inv' /\ QuietStep
<1>1. db' \in Quietly(db, accepted') /\ crashes' \in 0..MaxCrashes
  BY SavesOneOf DEF Inv
<1>2. db' \in Good(accepted') /\ QuietStep
  BY <1>1 DEF Quietly, After, QuietStep
<1>3. EgressOnlyToAccepted'
  BY DEF Idle, EgressOnlyToAccepted
<1> QED
  BY <1>1, <1>2, <1>3 DEF Inv, Env

\* A yes that was given stays given.
LEMMA GivenGrows ==
    ASSUME NEW acc, NEW more, acc \subseteq more, NEW d \in Good(acc)
    PROVE  d \in Good(more)
BY DEF Good, Given

\* The registration is begun, and the notice is shown.
LEMMA StartKeeps ==
    ASSUME Inv, Start
    PROVE  Inv' /\ QuietStep
<1> DEFINE return == IF db.user # None /\ db.user.done THEN "completed" ELSE "onboarding"
           begun == [db EXCEPT !.data.return = return]
           S == Quietly(db, accepted)
<1>1. db \in Good(accepted) /\ recipients \in Recipients
  BY DEF Inv
<1>2. begun \in Saved
  BY <1>1 DEF Good, Saved, Data
<1>3. /\ begun.user = db.user /\ begun.state = db.state
      /\ begun.firstTasks = db.firstTasks /\ begun.journal = db.journal
      /\ begun.records = db.records
      /\ begun.data.choice = db.data.choice /\ begun.data.offered = db.data.offered
      /\ begun.data.answers = db.data.answers
  BY <1>1 DEF Good, Saved, Data
<1>4. Backed(begun) /\ Once(begun) /\ Given(begun, accepted)
  BY <1>1, <1>3 DEF Good, Backed, Once, Given
<1>5. begun \in Good(accepted) /\ begun \in S
  BY <1>2, <1>3, <1>4, SameRow DEF Good
<1>6. Saves(<<begun>> \o PrivacyStep(begun))
  BY DEF Start
<1> HIDE DEF begun
<1>7. PrivacyStep(begun) \in Seq(S)
  <2>1. PrivacyStep(begun) \in Seq(Quietly(begun, accepted))
    BY <1>1, <1>5, Offering
  <2>2. Quietly(begun, accepted) \subseteq S
    BY <1>5, QuietlyChain
  <2> QED
    BY <2>1, <2>2, SeqMonotonic
<1>8. <<begun>> \in Seq(S)
  BY <1>5, Lists
<1>9. <<begun>> \o PrivacyStep(begun) \in Seq(S)
  BY <1>7, <1>8, ConcatProperties
<1>10. /\ accepted' = accepted /\ UNCHANGED call /\ Env /\ Idle
       /\ offers' = offers \cup {recipients}
  BY DEF Start, Show
<1> QED
  BY <1>1, <1>6, <1>9, <1>10, QuietHandler DEF Inv

\* The same for a dialogue that is open: at its privacy step the offer is saved again.
LEMMA ResumeKeeps ==
    ASSUME Inv, Resume
    PROVE  Inv' /\ QuietStep
<1>1. db \in Good(accepted) /\ recipients \in Recipients
  BY DEF Inv
<1>2. Idle /\ Env /\ UNCHANGED <<call, accepted>>
  BY DEF Resume, Reached
<1>3. CASE db.state = "privacy"
  <2>1. Saves(PrivacyStep(db)) /\ offers' = offers \cup {recipients}
    BY <1>3 DEF Resume, Show
  <2>2. PrivacyStep(db) \in Seq(Quietly(db, accepted'))
    BY <1>1, <1>2, Offering
  <2> QED
    BY <1>1, <1>2, <2>1, <2>2, QuietHandler DEF Inv
<1>4. CASE db.state # "privacy"
  <2>1. UNCHANGED <<db, crashes, offers>>
    BY <1>4 DEF Resume
  <2> QED
    BY <1>2, <2>1 DEF Inv, Env, EgressOnlyToAccepted, QuietStep, StillAsked, ProfileKept, Idle
<1> QED
  BY <1>3, <1>4

\* A press of an accept button of the dialogue, current or old.
LEMMA OnbPrivacyAcceptKeeps ==
    ASSUME Inv, NEW f \in Recipients, OnbPrivacyAccept(f)
    PROVE  Inv' /\ QuietStep
<1>1. /\ Idle /\ Env /\ UNCHANGED call /\ db.state = "privacy"
      /\ accepted' = accepted \cup {f} /\ accepted' \in SUBSET Recipients
      /\ accepted \subseteq accepted'
  BY DEF OnbPrivacyAccept, Inv
<1>2. db \in Good(accepted') /\ recipients \in Recipients /\ offers \subseteq Recipients
  BY <1>1, GivenGrows DEF Inv
<1>3. CASE db.data.offered = recipients /\ f = recipients
  <2>1. Saves(Chosen(recipients)) /\ UNCHANGED offers
    BY <1>3 DEF OnbPrivacyAccept
  <2>2. Chosen(recipients) \in Seq(Quietly(db, accepted'))
    BY <1>1, <1>2, <1>3, ChosenSaves
  <2> QED
    BY <1>1, <1>2, <2>1, <2>2, QuietHandler
<1>4. CASE ~(db.data.offered = recipients /\ f = recipients)
  <2>1. Saves(PrivacyStep(db)) /\ offers' = offers \cup {recipients}
    BY <1>4 DEF OnbPrivacyAccept, Show
  <2>2. PrivacyStep(db) \in Seq(Quietly(db, accepted'))
    BY <1>2, Offering
  <2> QED
    BY <1>1, <1>2, <2>1, <2>2, QuietHandler
<1> QED
  BY <1>3, <1>4

\* The buttons of /privacy write the row only.
LEMMA PrivacyEnableKeeps ==
    ASSUME Inv, NEW f \in Recipients, PrivacyEnable(f)
    PROVE  Inv' /\ QuietStep
<1>1. /\ Idle /\ Env /\ UNCHANGED call
      /\ accepted' = accepted \cup {f} /\ accepted' \in SUBSET Recipients
      /\ accepted \subseteq accepted'
  BY DEF PrivacyEnable, Inv
<1>2. db \in Good(accepted') /\ recipients \in Recipients /\ offers \subseteq Recipients
  BY <1>1, GivenGrows DEF Inv
<1>3. CASE f = recipients
  <2>1. Saves(<<Choose(db, f)>>) /\ UNCHANGED offers
    BY <1>3 DEF PrivacyEnable
  <2>2. Choose(db, f) \in Quietly(db, accepted')
    BY <1>1, <1>2, Choosing
  <2> QED
    BY <1>1, <1>2, <2>1, <2>2, Lists, QuietHandler
<1>4. CASE f # recipients
  <2>1. UNCHANGED <<db, crashes>> /\ offers' = offers \cup {recipients}
    BY <1>4 DEF PrivacyEnable, Show
  <2> QED
    BY <1>1, <1>2, <2>1 DEF Inv, Env, EgressOnlyToAccepted, QuietStep, StillAsked, ProfileKept, Idle
<1> QED
  BY <1>3, <1>4

\* A refusal, in the dialogue or under /privacy.
LEMMA RefusalKeeps ==
    ASSUME Inv, OnbPrivacyDecline \/ PrivacyDisable
    PROVE  Inv' /\ QuietStep
<1>1. /\ Idle /\ Env /\ UNCHANGED <<call, accepted>> /\ accepted \in SUBSET Recipients
      /\ db \in Good(accepted) /\ offers \subseteq Recipients /\ offers' \subseteq Recipients
  BY DEF OnbPrivacyDecline, PrivacyDisable, Quiet, Show, Inv
<1>2. CASE OnbPrivacyDecline
  <2>1. Chosen("off") \in Seq(Quietly(db, accepted')) /\ Saves(Chosen("off"))
    BY <1>1, <1>2, ChosenSaves DEF OnbPrivacyDecline
  <2> QED
    BY <1>1, <2>1, QuietHandler
<1>3. CASE PrivacyDisable
  <2>1. Choose(db, "off") \in Quietly(db, accepted')
    BY <1>1, Choosing
  <2>2. Saves(<<Choose(db, "off")>>)
    BY <1>3 DEF PrivacyDisable
  <2> QED
    BY <1>1, <2>1, <2>2, Lists, QuietHandler
<1> QED
  BY <1>2, <1>3

\* The steps of the registration.
RegistrationStep ==
    \/ Name \/ WorkSkip \/ TypeInstead \/ Concepts
    \/ \E value \in Value : Zone(value) \/ Digest(value) \/ Work(value)
    \/ \E tasks \in {0, 1} : FirstTask(tasks)

\* A handler that only moves the dialogue.
LEMMA MovingKeeps ==
    ASSUME Inv, Idle, NEW s \in DialogueState, Backed(SetState(db, s)),
           Saves(<<SetState(db, s)>>), Quiet
    PROVE  Inv' /\ QuietStep
<1>1. db \in Good(accepted) /\ accepted' = accepted /\ accepted \subseteq Recipients
      /\ offers' = offers /\ offers \subseteq Recipients /\ Env /\ UNCHANGED call
  BY DEF Inv, Quiet
<1>2. SetState(db, s) \in Quietly(db, accepted')
  BY <1>1, Moving
<1> QED
  BY <1>1, <1>2, Lists, QuietHandler

LEMMA RegistrationKeeps ==
    ASSUME Inv, RegistrationStep
    PROVE  Inv' /\ QuietStep
<1>1. db \in Good(accepted) /\ accepted \in SUBSET Recipients /\ offers \subseteq Recipients
  BY DEF Inv
<1>2. CASE Name
  <2>1. Idle /\ db.state = "name" /\ Quiet
    BY <1>2 DEF Name
  <2>2. LET row == IF db.user = None THEN [db EXCEPT !.user = NewUser] ELSE db
            told == Choose(row, db.data.choice)
        IN  Saves(<<row, told, SetState(told, "zone")>>)
    BY <1>2 DEF Name
  <2> QED
    BY <1>1, <2>1, <2>2, NameSaves, QuietHandler DEF Quiet
<1>3. ASSUME NEW value \in Value, Zone(value) \/ Digest(value) \/ Work(value)
      PROVE  Inv' /\ QuietStep
  <2>1. PICK field, next :
            /\ \/ field = "zone" /\ next = "digest" /\ db.state \in {"zone", "zone_input"}
               \/ field = "digest" /\ next = "work" /\ db.state \in {"digest", "digest_input"}
               \/ field = "work" /\ next = "concepts" /\ db.state \in {"work", "work_input"}
            /\ Saves(Answer(field, value, next))
    BY <1>3 DEF Zone, Digest, Work, Asked
  <2>2. Idle /\ Quiet
    BY <1>3 DEF Zone, Digest, Work, Asked
  <2>3. Answer(field, value, next) \in Seq(Quietly(db, accepted))
    BY <1>1, <2>1, AnswerSaves
  <2> QED
    BY <1>1, <2>1, <2>2, <2>3, QuietHandler DEF Quiet
<1>4. ASSUME NEW tasks \in {0, 1}, FirstTask(tasks)
      PROVE  Inv' /\ QuietStep
  <2> DEFINE complete == Complete(db, tasks)
             S == Quietly(db, accepted)
  <2>1. /\ Idle /\ Quiet /\ db.state = "first_task" /\ db.user # None
        /\ Saves(<<complete>> \o Clear(complete))
    BY <1>4 DEF FirstTask
  <2>2. complete \in S
    BY <1>1, <2>1, Completing
  <2>3. complete \in Good(accepted)
    BY <2>2 DEF Quietly, After
  <2> HIDE DEF complete
  <2>4. Clear(complete) \in Seq(S)
    <3>1. Clear(complete) \in Seq(Quietly(complete, accepted))
      BY <2>3, Clearing
    <3>2. Quietly(complete, accepted) \subseteq S
      BY <2>2, QuietlyChain
    <3> QED
      BY <3>1, <3>2, SeqMonotonic
  <2>5. <<complete>> \in Seq(S)
    BY <2>2, Lists
  <2>6. <<complete>> \o Clear(complete) \in Seq(S)
    BY <2>4, <2>5, ConcatProperties
  <2> QED
    BY <1>1, <2>1, <2>6, QuietHandler DEF Quiet
<1>5. CASE WorkSkip \/ Concepts \/ TypeInstead
  <2>1. PICK s \in Steps :
            /\ Saves(<<SetState(db, s)>>)
            /\ \/ db.state = "work" /\ s \in {"concepts", "work_input"}
               \/ db.state = "concepts" /\ s = "first_task"
               \/ db.state = "zone" /\ s = "zone_input"
               \/ db.state = "digest" /\ s = "digest_input"
    BY <1>5 DEF WorkSkip, Concepts, TypeInstead, Type, Steps
  <2>2. Idle /\ Quiet
    BY <1>5 DEF WorkSkip, Concepts, TypeInstead, Type
  <2>3. Backed(SetState(db, s))
    BY <1>1, <2>1 DEF Good, Saved, Backed, SetState, Steps
  <2> QED
    BY <2>1, <2>2, <2>3, MovingKeeps DEF DialogueState
<1> QED
  BY <1>2, <1>3, <1>4, <1>5 DEF RegistrationStep

\* Commands in the middle of anything.
LEMMA CommandKeeps ==
    ASSUME Inv, CmdPrivacy \/ SettingsZone \/ Cancel \/ LocalCommand
    PROVE  Inv' /\ QuietStep
<1>1. db \in Good(accepted) /\ accepted \in SUBSET Recipients /\ offers \subseteq Recipients
      /\ recipients \in Recipients
  BY DEF Inv
<1>2. CASE CmdPrivacy
  BY <1>1, <1>2 DEF CmdPrivacy, Show, Inv, Env, EgressOnlyToAccepted, QuietStep, StillAsked,
                    ProfileKept, Idle
<1>3. CASE SettingsZone
  <2>1. Backed(SetState(db, "settings_zone"))
    BY <1>1, <1>3 DEF Backed, SetState, Good, Saved, Steps, SettingsZone
  <2> QED
    BY <1>3, <2>1, MovingKeeps DEF SettingsZone, DialogueState
<1>4. CASE Cancel
  <2>1. Clear(db) \in Seq(Quietly(db, accepted))
    BY <1>1, Clearing
  <2> QED
    BY <1>1, <1>4, <2>1, QuietHandler DEF Cancel, Reached, Quiet
<1>5. CASE LocalCommand
  <2>1. /\ Idle /\ Quiet /\ UNCHANGED crashes
        /\ db' = IF db.journal THEN db ELSE [db EXCEPT !.journal = TRUE, !.records = @ + 1]
    BY <1>5 DEF LocalCommand, Reached
  <2>2. CASE db.journal
    BY <2>1, <2>2 DEF Inv, Env, EgressOnlyToAccepted, QuietStep, StillAsked, ProfileKept, Idle, Quiet
  <2>3. CASE ~db.journal
    <3>1. db \in Saved /\ db.records = 0 /\ db.records + 1 \in Nat
      BY <1>1, <2>3 DEF Good, Saved, Once
    <3>2. [db EXCEPT !.journal = TRUE] \in Saved
      BY <3>1 DEF Saved
    <3>3. db' = [[db EXCEPT !.journal = TRUE] EXCEPT !.records = db.records + 1]
      BY <2>1, <2>3, <3>1 DEF Saved
    <3>4. db' \in Saved
      BY <3>1, <3>2, <3>3 DEF Saved
    <3>5. /\ db'.user = db.user /\ db'.state = db.state /\ db'.data = db.data
          /\ db'.firstTasks = db.firstTasks /\ db'.journal /\ db'.records = 1
      BY <3>1, <3>3 DEF Saved
    <3>6. Backed(db') /\ Once(db') /\ Given(db', accepted)
      BY <1>1, <3>5 DEF Good, Backed, Once, Given
    <3> QED
      BY <2>1, <3>4, <3>5, <3>6 DEF Inv, Good, Env, EgressOnlyToAccepted, QuietStep, StillAsked,
                                    ProfileKept, Idle, Quiet
  <2> QED
    BY <2>2, <2>3
<1> QED
  BY <1>2, <1>3, <1>4, <1>5

\* The settings are the only handlers that change a registered profile.
LEMMA SettingKeeps ==
    ASSUME Inv, NEW value \in Value,
           SettingsZoneText(value) \/ \E field \in Setting : Set(field, value)
    PROVE  Inv' /\ StillAsked(db, db')
<1> DEFINE S == After(db, accepted)
<1>1. /\ db \in Good(accepted) /\ Idle /\ Quiet /\ crashes \in 0..MaxCrashes
  BY DEF Inv, SettingsZoneText, Set
<1>2. PICK stages \in Seq(S) : Saves(stages)
  <2>1. CASE SettingsZoneText(value)
    <3> DEFINE told == [db EXCEPT !.user.profile["zone"] = value]
    <3>1. db.user # None
      BY <1>1, <2>1 DEF SettingsZoneText, Good, Backed
    <3>2. told \in S
      BY <1>1, <3>1, Changing DEF Setting
    <3>3. Saves(<<told>> \o Clear(told))
      BY <2>1 DEF SettingsZoneText
    <3> HIDE DEF told
    <3>4. Clear(told) \in Seq(Quietly(told, accepted))
      BY <3>2, Clearing DEF After
    <3>5. Quietly(told, accepted) \subseteq S
      BY <3>2, AfterChain DEF Quietly
    <3>6. Clear(told) \in Seq(S) /\ <<told>> \in Seq(S)
      BY <3>2, <3>4, <3>5, SeqMonotonic, Lists
    <3>7. <<told>> \o Clear(told) \in Seq(S)
      BY <3>6, ConcatProperties
    <3> QED
      BY <3>3, <3>7
  <2>2. ASSUME NEW field \in Setting, Set(field, value)
        PROVE  \E stages \in Seq(S) : Saves(stages)
    <3>1. db.user # None /\ Saves(<<[db EXCEPT !.user.profile[field] = value]>>)
      BY <2>2 DEF Set
    <3>2. [db EXCEPT !.user.profile[field] = value] \in S
      BY <1>1, <3>1, Changing
    <3> QED
      BY <3>1, <3>2, Lists
  <2> QED
    BY <2>1, <2>2
<1>3. db' \in S /\ crashes' \in 0..MaxCrashes
  BY <1>1, <1>2, SavesOneOf
<1>4. EgressOnlyToAccepted'
  BY <1>1 DEF Idle, EgressOnlyToAccepted, Quiet
<1> QED
  BY <1>1, <1>3, <1>4 DEF Inv, After, Quiet, Env

--------------------------------------------------------------------------------
(* The providers                                                                *)

ProviderStep == Text \/ CallEnds \/ Retry \/ Fallback \/ HealthCheck \/ Restart

\* No step of a call changes what is saved; a call begins, and goes on, under a consent
\* to the recipients of the running configuration, and a restart ends it.
LEMMA ProviderKeeps ==
    ASSUME Inv, ProviderStep
    PROVE  Inv' /\ QuietStep
<1>1. db' = db /\ UNCHANGED <<offers, accepted, crashes>>
  BY DEF ProviderStep, Text, CallEnds, Retry, Fallback, HealthCheck, Restart, Env
<1>2. QuietStep
  BY <1>1 DEF QuietStep, StillAsked, ProfileKept
<1>3. db' \in Good(accepted') /\ offers' \subseteq Recipients /\ accepted' \subseteq Recipients
      /\ crashes' \in 0..MaxCrashes
  BY <1>1 DEF Inv
<1>4. recipients' \in Recipients /\ healthy' \in BOOLEAN
  BY DEF Inv, ProviderStep, Text, CallEnds, Retry, Fallback, HealthCheck, Restart, Env
<1>5. call' \in {None} \cup [provider : {"main", "fallback"}, left : 0..(MainRetries + FallbackRetries)]
  <2> DEFINE Call == [provider : {"main", "fallback"}, left : 0..(MainRetries + FallbackRetries)]
  <2>1. /\ [provider |-> "main", left |-> MainRetries] \in Call
        /\ [provider |-> "fallback", left |-> FallbackRetries] \in Call
    BY ProfileAssumption
  <2>2. CASE Text
    BY <2>1, <2>2 DEF Text, Begin
  <2>3. CASE CallEnds \/ Restart
    BY <2>3 DEF CallEnds, Restart
  <2>4. CASE Retry
    <3>1. call # None /\ call.left > 0 /\ call' = [call EXCEPT !.left = @ - 1] /\ call \in Call
      BY <2>4 DEF Retry, Inv
    <3>2. call.left - 1 \in 0..(MainRetries + FallbackRetries)
      BY <3>1, ProfileAssumption
    <3> QED
      BY <3>1, <3>2
  <2>5. CASE Fallback
    BY <2>1, <2>5 DEF Fallback
  <2>6. CASE HealthCheck
    BY <2>6 DEF HealthCheck, Inv
  <2> QED
    BY <2>2, <2>3, <2>4, <2>5, <2>6 DEF ProviderStep
<1>6. EgressOnlyToAccepted'
  <2>1. CASE Text
    <3>1. HasCurrentConsent(db.user) /\ recipients' = recipients
      BY <2>1 DEF Text, Env
    <3>2. recipients \in accepted
      BY <3>1, ProfileAssumption DEF HasCurrentConsent, Inv, Good, Given
    <3> QED
      BY <1>1, <3>1, <3>2 DEF EgressOnlyToAccepted, HasCurrentConsent
  <2>2. CASE CallEnds \/ Restart
    BY <2>2 DEF CallEnds, Restart, EgressOnlyToAccepted
  <2>3. CASE Retry \/ Fallback \/ HealthCheck
    BY <1>1, <2>3 DEF Retry, Fallback, HealthCheck, Env, Inv, EgressOnlyToAccepted, HasCurrentConsent
  <2> QED
    BY <2>1, <2>2, <2>3 DEF ProviderStep
<1> QED
  BY <1>2, <1>3, <1>4, <1>5, <1>6 DEF Inv

--------------------------------------------------------------------------------
(* The theorems                                                                 *)

\* A newcomer and a person registered before the notice satisfy the invariant.
LEMMA Starting ==
    ASSUME Init
    PROVE  Inv
<1>1. NewUser \in UserRow /\ NewUser.choice = None
  BY DEF NewUser, UserRow, Choice, Setting, Value
<1> DEFINE old == [NewUser EXCEPT !.done = TRUE]
<1>2. old \in UserRow /\ old.choice = None
  BY <1>1 DEF UserRow
<1>3. /\ db.user \in {None, old} /\ db.state = None /\ db.data = NoData
      /\ db.firstTasks = 0 /\ db.journal = FALSE /\ db.records = 0
  BY DEF Init
<1>4. NoData \in Data /\ NoData.choice = None
  BY DEF NoData, Data, Choice
<1> HIDE DEF old
<1>5. db \in Saved
  <2>1. db \in [user : {None, old}, state : {None}, data : {NoData},
                firstTasks : {0}, journal : {FALSE}, records : {0}]
    BY DEF Init, old
  <2>2. /\ {None, old} \subseteq {None} \cup UserRow /\ {None} \subseteq DialogueState
        /\ {NoData} \subseteq Data /\ {0} \subseteq Nat /\ {FALSE} \subseteq BOOLEAN
    BY <1>2, <1>4 DEF DialogueState
  <2> QED
    BY <2>1, <2>2 DEF Saved
<1>6. Backed(db)
  BY <1>3, ProfileAssumption DEF Backed, Steps
<1>7. Once(db) /\ Given(db, accepted)
  BY <1>2, <1>3, <1>4 DEF Once, Given
<1> QED
  BY <1>5, <1>6, <1>7, ProfileAssumption DEF Good, Init, Inv, EgressOnlyToAccepted

\* The handlers that leave a registered profile alone, and the steps of the providers.
QuietAction ==
    \/ Start \/ Resume
    \/ \E f \in Recipients : OnbPrivacyAccept(f) \/ PrivacyEnable(f)
    \/ OnbPrivacyDecline \/ PrivacyDisable
    \/ RegistrationStep
    \/ CmdPrivacy \/ SettingsZone \/ Cancel \/ LocalCommand
    \/ ProviderStep

SettingAction ==
    \E value \in Value : SettingsZoneText(value) \/ \E field \in Setting : Set(field, value)

LEMMA ActionsAreSorted ==
    ASSUME Next
    PROVE  QuietAction \/ SettingAction
BY DEF Next, QuietAction, SettingAction, RegistrationStep, ProviderStep

LEMMA QuietActionKeeps ==
    ASSUME Inv, QuietAction
    PROVE  Inv' /\ QuietStep
BY StartKeeps, ResumeKeeps, OnbPrivacyAcceptKeeps, PrivacyEnableKeeps, RefusalKeeps,
   RegistrationKeeps, CommandKeeps, ProviderKeeps DEF QuietAction

LEMMA StutterKeeps ==
    ASSUME Inv, UNCHANGED vars
    PROVE  Inv' /\ QuietStep
BY DEF Inv, vars, EgressOnlyToAccepted, HasCurrentConsent, QuietStep, StillAsked, ProfileKept

LEMMA StepKeeps ==
    ASSUME Inv, [Next]_vars
    PROVE  /\ Inv' /\ StillAsked(db, db')
           /\ SettingAction \/ ProfileKept(db, db')
<1>1. CASE QuietAction
  BY <1>1, QuietActionKeeps DEF QuietStep
<1>2. CASE SettingAction
  BY <1>2, SettingKeeps DEF SettingAction
<1>3. CASE UNCHANGED vars
  BY <1>3, StutterKeeps DEF QuietStep
<1> QED
  BY <1>1, <1>2, <1>3, ActionsAreSorted

\* The inductive invariant: what the database holds is Good, and a call is under way only
\* with the consent it needs (handlers/onboarding.py, handlers/privacy.py, llm/client.py).
THEOREM Invariance == Spec => []Inv
<1>1. Init => Inv
  BY Starting
<1>2. Inv /\ [Next]_vars => Inv'
  BY StepKeeps
<1> QED
  BY <1>1, <1>2, PTL DEF Spec

\* Text is at a provider only with a consent, given by a button, to the recipients of the
\* running configuration (privacy.py:41-47, llm/client.py:163-189).
THEOREM EgressIsAccepted == Spec => []EgressOnlyToAccepted
<1>1. Inv => EgressOnlyToAccepted
  BY DEF Inv
<1> QED
  BY <1>1, Invariance, PTL

\* The saved rows are well formed, what was created was created once, and a dialogue never
\* stands at a step whose ground is missing (handlers/onboarding.py:56-635).
THEOREM DialogueStaysBacked == Spec => []DialogueIsBacked
<1>1. Inv => TypeOK
  BY DEF Inv, Good, Saved, TypeOK
<1>2. Inv => CreatedOnce
  BY DEF Inv, Good, Once, CreatedOnce
<1>3. Inv => StepsAreBacked
  BY DEF Inv, Good, Backed, StepsAreBacked
<1>4. Inv => DialogueIsBacked
  BY <1>1, <1>2, <1>3 DEF DialogueIsBacked
<1> QED
  BY <1>4, Invariance, PTL

\* Nobody is registered without having been asked, and answers of a dialogue never come
\* back over the settings of a registered person (services/onboarding.py:11-28).
THEOREM RegistrationStaysHonest == Spec => RegistrationIsHonest
<1> DEFINE Asked1 == db'.user # None /\ db'.user.done /\ db'.user.choice = None
                     => db.user # None /\ db.user.done
           Once1 == db.user # None /\ db.user.done /\ db'.user.profile # db.user.profile
                    => \E value \in Value : SettingsZoneText(value) \/ \E field \in Setting : Set(field, value)
<1>1. Inv /\ [Next]_vars => [Asked1]_vars
  BY StepKeeps DEF StillAsked
<1>2. Inv /\ [Next]_vars => [Once1]_vars
  BY StepKeeps DEF ProfileKept, SettingAction
<1>3. Spec => RegisteredMeansAsked
  BY <1>1, Invariance, PTL DEF Spec, RegisteredMeansAsked
<1>4. Spec => AnswersApplyOnce
  BY <1>2, Invariance, PTL DEF Spec, AnswersApplyOnce
<1> QED
  BY <1>3, <1>4 DEF RegistrationIsHonest
================================================================================

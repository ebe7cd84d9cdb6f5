----------------------------- MODULE Interactions -----------------------------
(***************************************************************************)
(* The dialogue slot of one user: the row of `interaction_states` that     *)
(* says which question of the bot the user's next message may answer.      *)
(* Three actors take turns on it: the chronometry prompter (the loop or an *)
(* administrator's /chrono_ping, one at a time under a lock), the memoir   *)
(* loop, and the handler of the user's own update (one at a time: the      *)
(* dispatcher is built with SimpleEventIsolation).                         *)
(*                                                                         *)
(* Every step is one transaction on the row, or one call to Telegram or to *)
(* the LLM between two of them.  Each run of a dialogue has a token; the   *)
(* memoir question has one per day.  The memory flag of chronometry stands *)
(* beside the row.  Which user, hour and interval is due is left out.      *)
(***************************************************************************)
EXTENDS Naturals, FiniteSets

CONSTANTS
    Chrono, Voice, Project, Day,    \* session tokens of the four kinds of dialogue (bounds)
    NoToken,
    Expiring,       \* may a dialogue run out of time?
    MaxEvents       \* bound: crashes, database errors and lost answers

Token == Chrono \cup Voice \cup Project \cup Day

ASSUME InteractionsAssumption ==
    /\ NoToken \notin Token
    /\ Chrono \cap (Voice \cup Project \cup Day) = {}
    /\ Voice \cap (Project \cup Day) = {} /\ Project \cap Day = {}
    /\ Expiring \in BOOLEAN /\ MaxEvents \in Nat

VARIABLES
    slot,       \* the row of interaction_states
    flag,       \* _awaiting_response, in memory: the chronometry question waited for
    prompter,   \* where the chronometry prompter stands
    memoirist,  \* where the memoir loop stands
    job,        \* where the handler of the user's update stands
    used,       \* tokens that have been drawn
    prompted,   \* days whose memoir question has appeared in the chat
    asked,      \* days whose memoir_asked_date is set
    buttons,    \* voice transcripts shown with their buttons
    events,     \* how many events have happened
    answers,    \* history: answers[q] counts the records saved as the answer to q
    orphaned    \* history: a fault has cut off the worker of the dialogue in the slot

history == <<answers, orphaned>>
vars == <<slot, flag, prompter, memoirist, job, used, prompted, asked, buttons, events,
          answers, orphaned>>

WorkflowType == {"chronometry", "memoir", "complete_project",
                 "voice_confirm", "voice_processing", "voice_edit"}
NoSlot == [type |-> "none", token |-> NoToken, message |-> FALSE, recovered |-> FALSE, live |-> FALSE]
Slot == [type: WorkflowType \cup {"none"}, token: Token \cup {NoToken},
         message: BOOLEAN,      \* does the payload name the question's message?
        recovered: BOOLEAN,    \* is its phase "recovered"?
         live: BOOLEAN]         \* expires_at lies ahead

IdleLoop == [pc |-> "idle", token |-> NoToken]
Loop == [pc: {"idle", "claim", "deliver", "record", "clear", "mark"}, token: Token \cup {NoToken}]

\* A handler: the dialogue it works for, the voice command or edit its text came
\* from, and whether it is done with the text.
IdleJob == [pc |-> "idle", type |-> "none", token |-> NoToken, owns |-> FALSE,
            source |-> "none", voice |-> NoToken, done |-> FALSE]
Job == [pc: {"idle", "send", "record", "announce", "route", "memoir", "project", "chrono", "fallback",
             "forget", "clear", "end"},
        type: WorkflowType \cup {"none"}, token: Token \cup {NoToken}, owns: BOOLEAN,
        source: {"none", "voice_edit", "voice_processing"}, voice: Token \cup {NoToken},
        done: BOOLEAN]

Init ==
    /\ slot = NoSlot /\ flag = NoToken
    /\ prompter = IdleLoop /\ memoirist = IdleLoop /\ job = IdleJob
    /\ used = {} /\ prompted = {} /\ asked = {} /\ buttons = {}
    /\ events = 0
    /\ answers = [q \in Chrono \cup Day |-> 0] /\ orphaned = FALSE

Event == events < MaxEvents /\ events' = events + 1
NoEvent == UNCHANGED events

-----------------------------------------------------------------------------
(* The row: interaction_states.py *)

Owns(type, token) == slot.type = type /\ slot.token = token
Active(type) == slot.live /\ slot.type = type
Matches(type, token) == slot.live /\ Owns(type, token)

NewSlot(type, token) == [NoSlot EXCEPT !.type = type, !.token = token, !.live = TRUE]

\* claim_state: only an absent or expired dialogue is replaced.
Claim(type, token) ==
    /\ ~slot.live
    /\ slot' = NewSlot(type, token)
    /\ orphaned' = FALSE

\* transition_state: compare and set, with a new time to live.
Transition(type, token, next, message) ==
    /\ Matches(type, token)
    /\ slot' = [slot EXCEPT !.type = next, !.message = message, !.recovered = FALSE, !.live = TRUE]

\* Mutant: the token is not compared.
ClearAnyToken(type, token) == slot' = IF slot.type = type THEN NoSlot ELSE slot

\* clear_state_if_type: by type and token; an expired row counts too.
Clear(type, token) == slot' = IF Owns(type, token) THEN NoSlot ELSE slot

\* Between two transactions of one worker the row is in one of these states.
InTransit ==
    \/ slot.type \in {"chronometry", "memoir", "voice_confirm"} /\ ~slot.message
    \/ slot.type = "voice_processing"

\* A database error in the middle leaves the row as it is.
Abandon(token) ==
    orphaned' = (orphaned \/ (InTransit /\ slot.token = token))

-----------------------------------------------------------------------------
(* The chronometry prompter *)

Prompter(pc, token) == prompter' = [pc |-> pc, token |-> token]
PrompterFrame == UNCHANGED <<memoirist, job, prompted, asked, buttons, answers>>

\* Mutant: the flag is not looked at.
AskFlagless(q) ==
    /\ prompter.pc = "idle" /\ ~slot.live /\ q \notin used
    /\ Prompter("claim", q) /\ used' = used \cup {q}
    /\ NoEvent /\ UNCHANGED <<slot, flag, orphaned>> /\ PrompterFrame

\* _send_prompt under the lock: nothing is waited for and no dialogue is open.
Ask(q) ==
    /\ prompter.pc = "idle" /\ flag = NoToken
    /\ ~slot.live /\ q \notin used
    /\ Prompter("claim", q) /\ used' = used \cup {q}
    /\ NoEvent /\ UNCHANGED <<slot, flag, orphaned>> /\ PrompterFrame

AskClaim ==
    /\ prompter.pc = "claim"
    /\ Claim("chronometry", prompter.token) /\ Prompter("deliver", prompter.token)
    /\ NoEvent /\ UNCHANGED <<flag, used>> /\ PrompterFrame

\* Another dialogue came first, or the database failed.
AskBusy ==
    /\ prompter.pc = "claim"
    /\ prompter' = IdleLoop
    /\ NoEvent /\ UNCHANGED <<slot, flag, used, orphaned>> /\ PrompterFrame

\* The question is sent and the flag set before anything else can happen.
AskSend ==
    /\ prompter.pc = "deliver"
    /\ flag' = prompter.token /\ Prompter("record", prompter.token)
    /\ NoEvent /\ UNCHANGED <<slot, used, orphaned>> /\ PrompterFrame

AskSendFails ==
    /\ prompter.pc = "deliver"
    /\ Prompter("clear", prompter.token)
    /\ NoEvent /\ UNCHANGED <<slot, flag, used, orphaned>> /\ PrompterFrame

AskClear ==
    /\ prompter.pc = "clear"
    /\ Clear("chronometry", prompter.token) /\ prompter' = IdleLoop
    /\ NoEvent /\ UNCHANGED <<flag, used, orphaned>> /\ PrompterFrame

AskRecord ==
    /\ prompter.pc = "record" /\ prompter' = IdleLoop
    /\ \/ Transition("chronometry", prompter.token, "chronometry", TRUE) /\ UNCHANGED flag
       \/ ~Matches("chronometry", prompter.token) /\ UNCHANGED slot /\ flag' = NoToken
    /\ NoEvent /\ UNCHANGED <<used, orphaned>> /\ PrompterFrame

AskDbError ==
    /\ prompter.pc \in {"clear", "record"} /\ Event
    /\ Abandon(prompter.token) /\ prompter' = IdleLoop
    /\ UNCHANGED <<slot, flag, used>> /\ PrompterFrame

\* send_chronometry_prompts forgets a question asked long ago.
ForgetStale ==
    /\ flag # NoToken /\ prompter.pc = "idle"
    /\ flag' = NoToken
    /\ NoEvent /\ UNCHANGED <<slot, prompter, used, orphaned>> /\ PrompterFrame

-----------------------------------------------------------------------------
(* The memoir loop *)

Memoirist(pc, token) == memoirist' = [pc |-> pc, token |-> token]
MemoirFrame == UNCHANGED <<flag, prompter, job, used, buttons, answers>>

MemoirClaim(day) ==
    /\ memoirist.pc = "idle" /\ day \notin asked
    /\ Claim("memoir", day) /\ Memoirist("deliver", day)
    /\ NoEvent /\ UNCHANGED <<prompted, asked>> /\ MemoirFrame

\* deliver_batch sends the question of a day once; a second call finds it delivered.
MemoirDeliver ==
    /\ memoirist.pc = "deliver"
    /\ prompted' = prompted \cup {memoirist.token} /\ Memoirist("record", memoirist.token)
    /\ NoEvent /\ UNCHANGED <<slot, asked, orphaned>> /\ MemoirFrame

\* The batch is not complete, or its message is not known; it may have appeared.
MemoirDeliverFails(shown) ==
    /\ memoirist.pc = "deliver"
    /\ prompted' = IF shown THEN prompted \cup {memoirist.token} ELSE prompted
    /\ Memoirist("clear", memoirist.token)
    /\ NoEvent /\ UNCHANGED <<slot, asked, orphaned>> /\ MemoirFrame

MemoirRecord ==
    /\ memoirist.pc = "record"
    /\ \/ /\ Transition("memoir", memoirist.token, "memoir", TRUE)
          /\ Memoirist("mark", memoirist.token)
       \/ /\ ~Matches("memoir", memoirist.token)
          /\ UNCHANGED slot /\ Memoirist("clear", memoirist.token)
    /\ NoEvent /\ UNCHANGED <<prompted, asked, orphaned>> /\ MemoirFrame

MemoirClear ==
    /\ memoirist.pc = "clear"
    /\ Clear("memoir", memoirist.token) /\ memoirist' = IdleLoop
    /\ NoEvent /\ UNCHANGED <<prompted, asked, orphaned>> /\ MemoirFrame

MemoirMark ==
    /\ memoirist.pc = "mark"
    /\ asked' = asked \cup {memoirist.token} /\ memoirist' = IdleLoop
    /\ NoEvent /\ UNCHANGED <<slot, prompted, orphaned>> /\ MemoirFrame

\* In the delivery or at the mark the error ends the turn; at the transition it
\* counts as a dialogue lost; at the clear it is swallowed.
MemoirDbError ==
    /\ memoirist.pc # "idle" /\ Event
    /\ IF memoirist.pc = "record" THEN Memoirist("clear", memoirist.token) /\ UNCHANGED orphaned
       ELSE memoirist' = IdleLoop /\ Abandon(memoirist.token)
    /\ UNCHANGED <<slot, prompted, asked>> /\ MemoirFrame

-----------------------------------------------------------------------------
(* The user's updates *)

Isolated == job.pc = "idle"
Goto(pc) == job' = [job EXCEPT !.pc = pc]
HandlerFrame == UNCHANGED <<prompter, memoirist, prompted, asked>>

\* The text is dealt with; a voice command or edit still has its row to settle.
Leave(done) ==
    job' = IF job.source = "none" THEN IdleJob
           ELSE [IdleJob EXCEPT !.pc = "end", !.source = job.source, !.voice = job.voice,
                                !.done = done]

\* handle_voice after speech recognition: the slot is taken before anything is shown.
VoiceMessage(q) ==
    /\ Isolated /\ q \notin used
    /\ Claim("voice_confirm", q) /\ used' = used \cup {q}
    /\ job' = [IdleJob EXCEPT !.pc = "send", !.type = "voice_confirm", !.token = q]
    /\ NoEvent /\ UNCHANGED <<flag, buttons, answers>> /\ HandlerFrame

VoiceSend ==
    /\ job.pc = "send"
    /\ buttons' = buttons \cup {job.token} /\ Goto("record")
    /\ NoEvent /\ UNCHANGED <<slot, flag, used, history>> /\ HandlerFrame

VoiceSendFails ==
    /\ job.pc = "send"
    /\ Goto("clear")
    /\ NoEvent /\ UNCHANGED <<slot, flag, used, buttons, history>> /\ HandlerFrame

VoiceRecord ==
    /\ job.pc = "record" /\ job' = IdleJob
    /\ \/ Transition("voice_confirm", job.token, "voice_confirm", TRUE)
       \/ ~Matches("voice_confirm", job.token) /\ UNCHANGED slot
    /\ NoEvent /\ UNCHANGED <<flag, used, buttons, history>> /\ HandlerFrame

\* The edit of a message may be lost, or only its answer.
MayHide(q) == buttons' \in {buttons, buttons \ {q}}

\* A button works only under the message the live dialogue names.
Pressable(type, q) == Isolated /\ Matches(type, q) /\ slot.message

\* cb_voice_confirm claims the command, removes its buttons (with the edit of the
\* message), and handles its text like a message.
Confirm(q) ==
    /\ Pressable("voice_confirm", q) /\ q \in buttons
    /\ Transition("voice_confirm", q, "voice_processing", TRUE)
    /\ job' = [IdleJob EXCEPT !.pc = "announce", !.source = "voice_processing", !.voice = q]
    /\ NoEvent /\ UNCHANGED <<flag, used, buttons, history>> /\ HandlerFrame

Announce ==
    /\ job.pc = "announce" /\ MayHide(job.voice)
    /\ \/ job.voice \notin buttons' /\ Goto("route")
       \/ Leave(FALSE)
    /\ NoEvent /\ UNCHANGED <<slot, flag, used, history>> /\ HandlerFrame

Edit(q) ==
    /\ Pressable("voice_confirm", q) /\ q \in buttons
    /\ Transition("voice_confirm", q, "voice_edit", TRUE)
    /\ MayHide(q)
    /\ NoEvent /\ UNCHANGED <<flag, job, used, history>> /\ HandlerFrame

\* cb_voice_cancel and cb_memoir_skip read the row, then clear it.
Dismiss(type, q) ==
    /\ type \in {"voice_confirm", "memoir"} /\ Pressable(type, q)
    /\ type = "voice_confirm" => q \in buttons
    /\ MayHide(q)
    /\ job' = [IdleJob EXCEPT !.pc = "clear", !.type = type, !.token = q]
    /\ NoEvent /\ UNCHANGED <<slot, flag, used, history>> /\ HandlerFrame

\* /cancel refuses while a confirmed command is carried out.  The flag stays.
Cancel ==
    /\ Isolated /\ slot.live /\ slot.type # "voice_processing"
    /\ job' = [IdleJob EXCEPT !.pc = "clear", !.type = slot.type, !.token = slot.token]
    /\ NoEvent /\ UNCHANGED <<slot, flag, used, buttons, history>> /\ HandlerFrame

ClearDialogue ==
    /\ job.pc = "clear"
    /\ Clear(job.type, job.token) /\ job' = IdleJob
    /\ NoEvent /\ UNCHANGED <<flag, used, buttons, history>> /\ HandlerFrame

-----------------------------------------------------------------------------
(* The pipeline of a text *)

\* process_text_message: an open edit is remembered before the text is routed.
Text ==
    /\ Isolated
    /\ job' = IF Active("voice_edit")
              THEN [IdleJob EXCEPT !.pc = "route", !.source = "voice_edit", !.voice = slot.token]
              ELSE [IdleJob EXCEPT !.pc = "route"]
    /\ NoEvent /\ UNCHANGED <<slot, flag, used, buttons, history>> /\ HandlerFrame

\* A Reply to a memoir question, open or (by its visible date) long closed.
RouteMemoir(day) ==
    /\ job.pc = "route" /\ job.source # "voice_processing" /\ day \in prompted
    /\ job' = [job EXCEPT !.pc = "memoir", !.type = "memoir", !.token = day,
                          !.owns = Matches("memoir", day) /\ slot.message]
    /\ NoEvent /\ UNCHANGED <<slot, flag, used, buttons, history>> /\ HandlerFrame

\* The user names the project to close; the dialogue is renewed before the work.
RouteProject(q) ==
    /\ job.pc = "route"
    /\ Transition("complete_project", q, "complete_project", TRUE)
    /\ job' = [job EXCEPT !.pc = "project", !.type = "complete_project", !.token = q]
    /\ NoEvent /\ UNCHANGED <<flag, used, buttons, history>> /\ HandlerFrame

\* "The project is done": which one?
RouteProjectQuestion(q) ==
    /\ job.pc = "route" /\ ~Active("complete_project") /\ q \notin used
    /\ Claim("complete_project", q) /\ used' = used \cup {q}
    /\ Leave(TRUE) \/ Leave(FALSE)
    /\ NoEvent /\ UNCHANGED <<flag, buttons, answers>> /\ HandlerFrame

\* The row or the flag says that a chronometry question is open.  The read of the
\* row may fail unnoticed.
RouteChrono ==
    /\ job.pc = "route"
    /\ \/ /\ Active("chronometry") \/ flag # NoToken
          /\ job' = [job EXCEPT !.pc = "chrono", !.type = "chronometry",
                                !.token = IF Active("chronometry") THEN slot.token ELSE NoToken]
          /\ NoEvent
       \/ /\ Active("chronometry") /\ flag # NoToken /\ Event
          /\ job' = [job EXCEPT !.pc = "chrono", !.type = "chronometry"]
    /\ UNCHANGED <<slot, flag, used, buttons, history>> /\ HandlerFrame

\* Rules, refusals and the LLM: nothing of it touches the slot.
RouteElsewhere(done) ==
    /\ job.pc = "route"
    /\ Leave(done)
    /\ NoEvent /\ UNCHANGED <<slot, flag, used, buttons, history>> /\ HandlerFrame

\* An answer is saved and its question closed in one transaction.
SaveAnswer ==
    /\ Owns(job.type, job.token)
    /\ slot' = NoSlot
    /\ answers' = [answers EXCEPT ![job.token] = @ + 1]

\* _save_memoir_answer: a late Reply is saved and closes nothing; the answer to an
\* open question raises if the question is gone.  The reply to the user may fail.
SaveMemoir ==
    /\ job.pc = "memoir"
    /\ \/ job.owns /\ SaveAnswer /\ (Leave(TRUE) \/ Leave(FALSE))
       \/ job.owns /\ ~Owns("memoir", job.token) /\ UNCHANGED <<slot, answers>> /\ Leave(FALSE)
       \/ ~job.owns /\ UNCHANGED <<slot, answers>> /\ (Leave(TRUE) \/ Leave(FALSE))
    /\ NoEvent /\ UNCHANGED <<flag, used, buttons, orphaned>> /\ HandlerFrame

\* The transaction fails, or commits and loses its answer.
SaveMemoirDbError ==
    /\ job.pc = "memoir" /\ Event /\ Leave(FALSE)
    /\ \/ job.owns /\ SaveAnswer
       \/ UNCHANGED <<slot, answers>>
    /\ UNCHANGED <<flag, used, buttons, orphaned>> /\ HandlerFrame

\* _continue_project_completion after the work: closed, or (the dialogue stays
\* open, with the name in its payload) to be tried again.
ProjectClosed ==
    /\ job.pc = "project"
    /\ Clear("complete_project", job.token) /\ Leave(TRUE)
    /\ NoEvent /\ UNCHANGED <<flag, used, buttons, history>> /\ HandlerFrame

ProjectFails ==
    /\ job.pc = "project" /\ Leave(FALSE)
    /\ NoEvent /\ UNCHANGED <<slot, flag, used, buttons, history>> /\ HandlerFrame

\* Mutant: the fallback does not ask whether it still owns the question.
ChronoEntryUnowned ==
    \/ SaveAnswer
    \/ /\ job.token # NoToken /\ ~Owns("chronometry", job.token)
       /\ answers' = [answers EXCEPT ![job.token] = @ + 1] /\ UNCHANGED slot
    \/ job.token = NoToken /\ UNCHANGED <<slot, answers>>

\* Without a token nothing is checked and nothing is closed.
ChronoEntry ==
    \/ SaveAnswer
    \/ job.token = NoToken /\ UNCHANGED <<slot, answers>>

ChronoRecord ==
    /\ job.pc = "chrono"
    /\ ChronoEntry /\ Goto("forget")
    /\ NoEvent /\ UNCHANGED <<flag, used, buttons, orphaned>> /\ HandlerFrame

\* The LLM or the database fails, or the question is gone.
ChronoFails ==
    /\ job.pc = "chrono"
    /\ Goto("fallback")
    /\ NoEvent /\ UNCHANGED <<slot, flag, used, buttons, history>> /\ HandlerFrame

\* The entry is committed, its answer lost: the except branch runs all the same.
ChronoAmbiguous ==
    /\ job.pc = "chrono" /\ Event
    /\ ChronoEntry /\ Goto("fallback")
    /\ UNCHANGED <<flag, used, buttons, orphaned>> /\ HandlerFrame

\* "Not active any more" when somebody else closed the question.
ChronoFallback ==
    /\ job.pc = "fallback" /\ Goto("forget")
    /\ \/ ChronoEntry
       \/ /\ job.token # NoToken /\ ~Owns("chronometry", job.token)
          /\ UNCHANGED <<slot, answers>>
    /\ NoEvent /\ UNCHANGED <<flag, used, buttons, orphaned>> /\ HandlerFrame

ChronoRaises ==
    /\ job.pc = "fallback" /\ Event /\ Leave(FALSE)
    /\ ChronoEntry \/ UNCHANGED <<slot, answers>>
    /\ UNCHANGED <<flag, used, buttons, orphaned>> /\ HandlerFrame

\* clear_awaiting, whatever the flag stands for by now.
Forget ==
    /\ job.pc = "forget"
    /\ flag' = NoToken /\ (Leave(TRUE) \/ Leave(FALSE))
    /\ NoEvent /\ UNCHANGED <<slot, used, buttons, history>> /\ HandlerFrame

EndEdit ==
    /\ job.pc = "end" /\ job.source = "voice_edit" /\ job' = IdleJob
    /\ IF job.done THEN Clear("voice_edit", job.voice) ELSE UNCHANGED slot
    /\ NoEvent /\ UNCHANGED <<flag, used, buttons, history>> /\ HandlerFrame

\* A command that was carried out is cleared, any other is shown for another try.
EndVoice ==
    /\ job.pc = "end" /\ job.source = "voice_processing" /\ job' = IdleJob
    /\ \/ job.done /\ Clear("voice_processing", job.voice) /\ UNCHANGED buttons
       \/ /\ ~job.done
          /\ Transition("voice_processing", job.voice, "voice_confirm", TRUE)
          /\ buttons' \in {buttons, buttons \cup {job.voice}}
       \/ ~job.done /\ ~Matches("voice_processing", job.voice) /\ UNCHANGED <<slot, buttons>>
    /\ NoEvent /\ UNCHANGED <<flag, used, history>> /\ HandlerFrame

\* The writes that settle a voice dialogue and a dismissal swallow their errors.
HandlerDbError ==
    /\ job.pc \in {"record", "clear", "end"} /\ Event
    /\ Abandon(IF job.pc = "end" THEN job.voice ELSE job.token)
    /\ job' = IdleJob
    /\ UNCHANGED <<slot, flag, used, buttons, answers>> /\ HandlerFrame

\* A claim is committed and its answer lost: the worker believes the slot is taken.
ClaimLost(type, q) ==
    /\ Event /\ ~slot.live
    /\ slot' = NewSlot(type, q) /\ orphaned' = TRUE
    /\ \/ /\ type = "chronometry" /\ prompter = [pc |-> "claim", token |-> q]
          /\ prompter' = IdleLoop /\ UNCHANGED used
       \/ /\ type = "memoir" /\ memoirist.pc = "idle" /\ q \in Day \ asked
          /\ UNCHANGED <<prompter, used>>
       \/ /\ type = "voice_confirm" /\ Isolated /\ q \in Voice \ used
          /\ used' = used \cup {q} /\ UNCHANGED prompter
    /\ UNCHANGED <<flag, memoirist, job, prompted, asked, buttons, answers>>

\* The claim of a confirmed command is committed and its answer lost: nobody carries it out.
ConfirmLost(q) ==
    /\ Event /\ Pressable("voice_confirm", q) /\ q \in buttons
    /\ Transition("voice_confirm", q, "voice_processing", TRUE) /\ orphaned' = TRUE
    /\ MayHide(q)
    /\ UNCHANGED <<flag, job, used, answers>> /\ HandlerFrame

-----------------------------------------------------------------------------
(* The clock and the process *)

Expire ==
    /\ Expiring /\ slot.live
    /\ slot' = [slot EXCEPT !.live = FALSE]
    /\ UNCHANGED <<flag, prompter, memoirist, job, used, prompted, asked, buttons, events, history>>

\* The retention job deletes dialogues that have run out of time.
Rotate ==
    /\ ~slot.live /\ slot.type # "none"
    /\ slot' = NoSlot
    /\ UNCHANGED <<flag, prompter, memoirist, job, used, prompted, asked, buttons, events, history>>

\* Mutant: nothing is recovered at the start.
RecoverNothing == UNCHANGED slot

\* recover_interrupted_states
Recover ==
    slot' = IF slot.type = "voice_processing" THEN [slot EXCEPT !.type = "voice_confirm", !.recovered = TRUE] ELSE slot

\* The process dies and starts again: memory is lost, the rows stay.
Crash ==
    /\ Event /\ Recover
    /\ flag' = NoToken
    /\ prompter' = IdleLoop /\ memoirist' = IdleLoop /\ job' = IdleJob
    /\ orphaned' = (slot.type # "voice_processing" /\ (orphaned \/ InTransit))
    /\ UNCHANGED <<used, prompted, asked, buttons, answers>>

-----------------------------------------------------------------------------
Prompting == \/ \E q \in Chrono : Ask(q)
             \/ AskClaim \/ AskBusy \/ AskSend \/ AskSendFails \/ AskClear \/ AskRecord
             \/ AskDbError \/ ForgetStale

Memoir == \/ \E day \in Day : MemoirClaim(day)
          \/ MemoirDeliver \/ \E shown \in BOOLEAN : MemoirDeliverFails(shown)
          \/ MemoirRecord \/ MemoirClear \/ MemoirMark \/ MemoirDbError

Update == \/ \E q \in Voice : VoiceMessage(q) \/ Confirm(q) \/ Edit(q) \/ Dismiss("voice_confirm", q)
          \/ \E day \in Day : Dismiss("memoir", day)
          \/ Cancel \/ Text

Handle == \/ VoiceSend \/ VoiceSendFails \/ VoiceRecord \/ Announce \/ ClearDialogue
          \/ \E day \in Day : RouteMemoir(day)
          \/ \E q \in Project : RouteProject(q) \/ RouteProjectQuestion(q)
          \/ RouteChrono \/ \E done \in BOOLEAN : RouteElsewhere(done)
          \/ SaveMemoir \/ SaveMemoirDbError \/ ProjectClosed \/ ProjectFails
          \/ ChronoRecord \/ ChronoFails \/ ChronoAmbiguous \/ ChronoFallback \/ ChronoRaises
          \/ Forget \/ EndEdit \/ EndVoice \/ HandlerDbError

Lost == \E q \in Token : \/ \E type \in {"chronometry", "memoir", "voice_confirm"} : ClaimLost(type, q)
                        \/ ConfirmLost(q)

Next == Prompting \/ Memoir \/ Update \/ Handle \/ Lost \/ Expire \/ Rotate \/ Crash

Spec == Init /\ [][Next]_vars

-----------------------------------------------------------------------------
(* Properties *)

TypeOK ==
    /\ slot \in Slot /\ (slot.type = "none" <=> slot.token = NoToken)
    /\ flag \in Chrono \cup {NoToken}
    /\ prompter \in Loop /\ memoirist \in Loop /\ job \in Job
    /\ used \subseteq Token /\ prompted \subseteq Day /\ asked \subseteq Day
    /\ buttons \subseteq Voice
    /\ events \in Nat
    /\ answers \in [Chrono \cup Day -> Nat] /\ orphaned \in BOOLEAN

\* A live dialogue is closed or replaced by nobody but a worker that holds its
\* token: a late answer, an old button or a second prompter cannot take the slot
\* from a newer question (docs/ARCHITECTURE.md:55-58).
OnlyItsOwner ==
    [][slot.live /\ slot'.token # slot.token
       => slot.token \in {prompter.token, memoirist.token, job.token, job.voice}]_vars

\* An answer is saved for a question only while that question holds the slot, and
\* closes it; a chronometry question is answered once, also when a commit loses
\* its answer and the fallback runs.
AnsweredOnce ==
    [][\A q \in Chrono \cup Day : answers'[q] # answers[q]
          => slot.token = q /\ slot'.token # q /\ (q \in Chrono => answers[q] = 0)]_vars

\* The flag in memory and the row never stand for two different questions.
FlagMatchesRow == flag # NoToken /\ Active("chronometry") => slot.token = flag

\* The row, the flag and the workers hold tokens of dialogues that exist.
FlagAndRowAgree == TypeOK /\ FlagMatchesRow

\* A dialogue that is being set up or carried out has a worker at it, also after
\* a restart, unless a fault has cut that worker off.
NothingOrphaned ==
    slot.live /\ InTransit
    => orphaned \/ slot.token \in {prompter.token, memoirist.token, job.token, job.voice}

\* "Process-local flags are caches only, never a source of truth"
\* (docs/ARCHITECTURE.md:59-60): a text is recorded as an answer to a question in the table.
FlagsAreCaches == job.pc \in {"chrono", "fallback"} => job.token # NoToken

\* "Make provider workflows retryable after the single runtime restarts"
\* (interaction_states.py:196): a recovered command still has the buttons to retry it.
RecoveredIsConfirmable == Active("voice_confirm") /\ slot.recovered => slot.token \in buttons

===============================================================================

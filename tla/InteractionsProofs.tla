-------------------------- MODULE InteractionsProofs --------------------------
(***************************************************************************)
(* What the dialogue slot guarantees, for any number of dialogues of each  *)
(* kind and any number of crashes, database errors and lost answers.       *)
(***************************************************************************)
EXTENDS Interactions, TLAPS

\* A worker holds a token of its kind; a command being carried out names its message.
Kinds ==
    /\ prompter.pc # "idle" => prompter.token \in Chrono
    /\ memoirist.pc # "idle" => memoirist.token \in Day
    /\ job.pc = "send" => job.type = "voice_confirm" /\ job.token \in Voice
    /\ job.source = "voice_processing" => job.voice \in Voice
    /\ slot.type = "voice_processing" => slot.message

\* One question of chronometry at a time: the prompter's, or the one the flag stands for.
OneQuestion ==
    /\ FlagMatchesRow
    /\ prompter.pc = "claim" => flag = NoToken
    /\ prompter.pc # "idle" /\ Active("chronometry")
       => prompter.pc # "claim" /\ slot.token = prompter.token

\* Where the handler of a text may be while a voice command is carried out.
TextPc == {"announce", "route", "project", "chrono", "fallback", "forget", "end"}

\* Who is at work on a dialogue that is being set up or carried out.
ByPrompter == /\ slot.type = "chronometry" /\ prompter.token = slot.token
              /\ prompter.pc \in {"deliver", "record", "clear"}
ByMemoirist == /\ slot.type = "memoir" /\ memoirist.token = slot.token
               /\ memoirist.pc \in {"deliver", "record", "clear"}
ByJob == \/ /\ slot.type = "voice_confirm" /\ job.type = "voice_confirm"
            /\ job.token = slot.token /\ job.pc \in {"send", "record", "clear"}
         \/ /\ slot.type = "voice_processing" /\ job.source = "voice_processing"
            /\ job.voice = slot.token /\ job.pc \in TextPc

Held == slot.live /\ InTransit => orphaned \/ ByPrompter \/ ByMemoirist \/ ByJob

\* An answered question of chronometry never comes back, for its token was used.
Fresh ==
    /\ slot.token \in Chrono => slot.token \in used
    /\ prompter.pc = "claim" => prompter.token \in used /\ slot.token # prompter.token
    /\ \A q \in Chrono : answers[q] # 0 =>
          q \in used /\ slot.token # q /\ ~(prompter.pc = "claim" /\ prompter.token = q)

IInv == TypeOK /\ Kinds /\ OneQuestion /\ Held /\ Fresh

-----------------------------------------------------------------------------
(* The row *)

LEMMA Nothing ==
    /\ NoSlot \in Slot /\ NoSlot.type = "none" /\ NoSlot.token = NoToken /\ ~NoSlot.live
    /\ IdleLoop \in Loop /\ IdleLoop.pc = "idle"
    /\ IdleJob \in Job /\ IdleJob.pc = "idle" /\ IdleJob.source = "none"
    /\ NoToken \notin Token
BY InteractionsAssumption DEF NoSlot, Slot, WorkflowType, IdleLoop, Loop, IdleJob, Job

\* The row is as its type says, and is not a command without a message.
RowOK == /\ slot \in Slot /\ (slot.type = "none" <=> slot.token = NoToken)
         /\ slot.type = "voice_processing" => slot.message

LEMMA Claimed ==
    ASSUME NEW type \in WorkflowType \ {"voice_processing"}, NEW token \in Token,
           slot' = NewSlot(type, token)
    PROVE  /\ RowOK' /\ slot'.type = type /\ slot'.token = token /\ slot'.live /\ ~slot'.message
BY Nothing DEF NewSlot, RowOK, NoSlot, Slot, WorkflowType

\* A dialogue of the one kind goes on as one of the other, and names its message.
Renewed(type, token, next) ==
    /\ slot.live /\ slot.type = type /\ slot.token = token
    /\ slot' = [slot EXCEPT !.type = next, !.message = TRUE, !.recovered = FALSE, !.live = TRUE]

LEMMA Transitioned ==
    ASSUME RowOK, NEW type \in WorkflowType, NEW next \in WorkflowType, NEW token,
           Renewed(type, token, next)
    PROVE  /\ RowOK' /\ slot.live /\ slot.type = type /\ slot.token = token
           /\ slot'.type = next /\ slot'.token = token /\ slot'.message
<1>1. slot' \in Slot /\ slot'.type = next /\ slot'.token = token /\ slot'.message
  BY DEF Renewed, RowOK, Slot
<1>2. type # "none" /\ next # "none"
  BY DEF WorkflowType
<1> QED
  BY <1>1, <1>2 DEF Renewed, RowOK

LEMMA Cleared ==
    ASSUME RowOK, NEW type, NEW token, Clear(type, token)
    PROVE  /\ RowOK'
           /\ \/ slot' = slot /\ ~Owns(type, token)
              \/ slot' = NoSlot /\ slot.token = token
BY Nothing DEF Clear, Owns, RowOK

LEMMA SlotEmptied ==
    ASSUME slot' = NoSlot
    PROVE  RowOK' /\ ~slot'.live /\ slot'.token = NoToken /\ slot'.type = "none"
BY Nothing DEF RowOK

LEMMA RowIsOK == TypeOK /\ Kinds => RowOK
BY DEF TypeOK, Kinds, RowOK

-----------------------------------------------------------------------------
(* Everybody but the prompter *)

\* A step that leaves the prompter where it is, and brings no question of chronometry.
Elsewhere ==
    /\ UNCHANGED prompter
    /\ memoirist' \in Loop /\ (memoirist'.pc # "idle" => memoirist'.token \in Day)
    /\ job' \in Job
    /\ job'.pc = "send" => job'.type = "voice_confirm" /\ job'.token \in Voice
    /\ job'.source = "voice_processing" => job'.voice \in Voice
    /\ flag' \in {flag, NoToken}
    /\ used \subseteq used' /\ used' \subseteq Token
    /\ prompted' \subseteq Day /\ asked' \subseteq Day /\ buttons' \subseteq Voice
    /\ events' \in Nat /\ orphaned' \in BOOLEAN
    /\ answers' \in [Chrono \cup Day -> Nat]
    /\ \A q \in Chrono : answers'[q] # answers[q] => q = slot.token /\ slot'.token # q
    /\ RowOK'
    /\ slot'.live /\ slot'.type = "chronometry" => slot' = slot
    /\ slot'.token = slot.token \/ slot'.token \notin Chrono
    /\ Held'

LEMMA ElsewhereKeeps ==
    ASSUME IInv, Elsewhere
    PROVE  IInv'
<1>1. TypeOK /\ Kinds /\ OneQuestion /\ Fresh
  BY DEF IInv
<1>2. TypeOK'
  <2>1. flag' \in Chrono \cup {NoToken} /\ prompter' \in Loop
    BY <1>1 DEF TypeOK, Elsewhere
  <2> QED
    BY <2>1 DEF TypeOK, Elsewhere, RowOK
<1>3. Kinds'
  BY <1>1 DEF Kinds, Elsewhere, RowOK
<1>4. OneQuestion'
  BY <1>1 DEF OneQuestion, FlagMatchesRow, Active, Elsewhere
<1>5. Fresh'
  <2>1. /\ slot'.token \in Chrono => slot'.token \in used'
        /\ prompter'.pc = "claim" => prompter'.token \in used' /\ slot'.token # prompter'.token
    <3>1. prompter.pc = "claim" => prompter.token \in Chrono
      BY <1>1 DEF Kinds
    <3> QED
      BY <1>1, <3>1 DEF Fresh, Elsewhere
  <2>2. ASSUME NEW q \in Chrono, answers'[q] # 0
        PROVE  q \in used' /\ slot'.token # q /\ ~(prompter'.pc = "claim" /\ prompter'.token = q)
    <3>1. CASE answers'[q] = answers[q]
      BY <1>1, <2>2, <3>1 DEF Fresh, Elsewhere
    <3>2. CASE answers'[q] # answers[q]
      BY <1>1, <2>2, <3>2 DEF Fresh, Elsewhere
    <3> QED
      BY <3>1, <3>2
  <2> QED
    BY <2>1, <2>2 DEF Fresh
<1> QED
  BY <1>2, <1>3, <1>4, <1>5 DEF IInv, Elsewhere

\* The row stays, and so does whoever is at work on it.
LEMMA HeldWhileSame ==
    ASSUME IInv, UNCHANGED <<slot, prompter>>, orphaned => orphaned',
           ByMemoirist => orphaned' \/ ByMemoirist',
           ByJob => orphaned' \/ ByJob'
    PROVE  Held'
BY DEF IInv, Held, ByPrompter, InTransit

\* A dialogue that ended, or is open to the user, needs no worker.
LEMMA HeldWhenOpen ==
    ASSUME \/ ~slot'.live
           \/ slot'.type \in {"chronometry", "memoir", "voice_confirm"} /\ slot'.message
           \/ slot'.type \in {"voice_edit", "complete_project"}
    PROVE  Held'
BY DEF Held, InTransit

\* What every proof below starts from.
LEMMA Facts ==
    ASSUME IInv
    PROVE  /\ RowOK /\ TypeOK /\ Kinds /\ OneQuestion /\ Held /\ Fresh
           /\ slot.token \in Token \cup {NoToken} /\ slot.message \in BOOLEAN
           /\ slot.type \in WorkflowType \cup {"none"}
           /\ (slot.type # "none" => slot.token \in Token)
<1>1. TypeOK /\ Kinds /\ OneQuestion /\ Held /\ Fresh
  BY DEF IInv
<1>2. RowOK /\ slot \in Slot
  BY <1>1, RowIsOK DEF TypeOK
<1>3. /\ slot.token \in Token \cup {NoToken} /\ slot.message \in BOOLEAN
      /\ slot.type \in WorkflowType \cup {"none"}
  BY <1>2 DEF Slot
<1> QED
  BY <1>1, <1>2, <1>3 DEF RowOK

LEMMA Tokens ==
    /\ Chrono \subseteq Token /\ Voice \subseteq Token /\ Project \subseteq Token /\ Day \subseteq Token
    /\ \A q \in Voice \cup Project \cup Day : q \notin Chrono
BY InteractionsAssumption DEF Token

\* The event counter stays a number.
LEMMA Counts ==
    ASSUME TypeOK, Event \/ NoEvent
    PROVE  events' \in Nat
BY DEF TypeOK, Event, NoEvent

-----------------------------------------------------------------------------
(* The memoir loop *)

LEMMA MemoirKeeps ==
    ASSUME IInv, Memoir
    PROVE  IInv'
<1> DEFINE Typed == /\ memoirist' \in Loop /\ (memoirist'.pc # "idle" => memoirist'.token \in Day)
                    /\ prompted' \subseteq Day /\ asked' \subseteq Day /\ orphaned' \in BOOLEAN
                    /\ events' \in Nat
<1>1. /\ RowOK /\ TypeOK /\ Kinds /\ Held /\ memoirist \in Loop /\ orphaned \in BOOLEAN
      /\ prompted \subseteq Day /\ asked \subseteq Day
      /\ (memoirist.pc # "idle" => memoirist.token \in Day)
  BY Facts DEF TypeOK, Kinds
<1>2. UNCHANGED <<flag, prompter, job, used, buttons, answers>>
  BY DEF Memoir, MemoirClaim, MemoirDeliver, MemoirDeliverFails, MemoirRecord, MemoirClear, MemoirMark,
         MemoirDbError, MemoirFrame
<1>3. ASSUME Typed, RowOK', slot'.live /\ slot'.type = "chronometry" => slot' = slot,
             slot'.token = slot.token \/ slot'.token \notin Chrono, Held'
      PROVE  IInv'
  <2>1. Elsewhere
    BY <1>1, <1>2, <1>3 DEF Elsewhere, TypeOK, Kinds
  <2> QED
    BY <2>1, ElsewhereKeeps
<1>4. ASSUME Typed, UNCHANGED slot, orphaned => orphaned', ByMemoirist => orphaned' \/ ByMemoirist'
      PROVE  IInv'
  <2>1. Held'
    BY <1>2, <1>4, HeldWhileSame DEF ByJob
  <2>2. RowOK'
    BY <1>1, <1>4 DEF RowOK
  <2> HIDE DEF Typed
  <2> QED
    BY <1>3, <1>4, <2>1, <2>2
<1>5. \A pc \in {"deliver", "record", "clear", "mark"}, t \in Day :
         Memoirist(pc, t) => /\ memoirist' \in Loop /\ memoirist'.pc = pc /\ memoirist'.token = t
  BY Tokens DEF Memoirist, Loop
<1>6. Event \/ NoEvent => events' \in Nat
  BY <1>1, Counts
<1>7. ASSUME NEW day \in Day, MemoirClaim(day)
      PROVE  IInv'
  <2>1. /\ RowOK' /\ slot'.type = "memoir" /\ slot'.token = day /\ day \notin Chrono
    BY <1>7, Claimed, Tokens DEF MemoirClaim, Claim, WorkflowType
  <2>2. /\ memoirist' \in Loop /\ memoirist'.pc = "deliver" /\ memoirist'.token = day
    BY <1>5, <1>7 DEF MemoirClaim
  <2>3. Held'
    BY <2>1, <2>2 DEF Held, ByMemoirist
  <2>4. Typed
    BY <1>1, <1>6, <1>7, <2>2 DEF MemoirClaim, Claim
  <2> HIDE DEF Typed
  <2> QED
    BY <1>3, <2>1, <2>3, <2>4
<1>8. CASE MemoirDeliver \/ \E shown \in BOOLEAN : MemoirDeliverFails(shown)
  <2>1. /\ memoirist' \in Loop /\ memoirist'.pc \in {"record", "clear"}
        /\ memoirist'.token = memoirist.token /\ memoirist.token \in Day
    BY <1>1, <1>5, <1>8 DEF MemoirDeliver, MemoirDeliverFails
  <2>2. Typed /\ UNCHANGED <<slot, orphaned>>
    BY <1>1, <1>6, <1>8, <2>1 DEF MemoirDeliver, MemoirDeliverFails
  <2>3. ByMemoirist => ByMemoirist'
    BY <2>1, <2>2 DEF ByMemoirist
  <2> HIDE DEF Typed
  <2> QED
    BY <1>4, <2>2, <2>3
<1>9. CASE MemoirRecord
  <2>1. memoirist.token \in Day /\ UNCHANGED <<prompted, asked, orphaned>> /\ events' \in Nat
    BY <1>1, <1>6, <1>9 DEF MemoirRecord
  <2>2. CASE Transition("memoir", memoirist.token, "memoir", TRUE) /\ Memoirist("mark", memoirist.token)
    <3>1. RowOK' /\ slot'.type = "memoir" /\ slot'.message /\ slot'.token = slot.token
      <4>1. Renewed("memoir", memoirist.token, "memoir")
        BY <2>2 DEF Transition, Matches, Owns, Renewed
      <4> QED
        BY <1>1, <4>1, Transitioned DEF WorkflowType
    <3>2. Held'
      BY <3>1, HeldWhenOpen
    <3>3. Typed
      BY <1>1, <1>5, <2>1, <2>2
    <3> HIDE DEF Typed
    <3> QED
      BY <1>3, <3>1, <3>2, <3>3
  <2>3. CASE UNCHANGED slot /\ Memoirist("clear", memoirist.token)
    <3>1. /\ memoirist' \in Loop /\ memoirist'.pc = "clear" /\ memoirist'.token = memoirist.token
      BY <1>5, <2>1, <2>3
    <3>2. ByMemoirist => ByMemoirist'
      BY <2>3, <3>1 DEF ByMemoirist
    <3>3. Typed
      BY <1>1, <2>1, <3>1
    <3> HIDE DEF Typed
    <3> QED
      BY <1>4, <2>1, <2>3, <3>2, <3>3
  <2> QED
    BY <1>9, <2>2, <2>3 DEF MemoirRecord
<1>10. CASE MemoirClear
  <2>1. Typed /\ orphaned' = orphaned /\ Clear("memoir", memoirist.token)
    BY <1>1, <1>6, <1>10, Nothing DEF MemoirClear
  <2>2. CASE slot' = NoSlot
    BY <1>3, <2>1, <2>2, SlotEmptied, HeldWhenOpen, Nothing, Tokens
  <2>3. CASE slot' = slot /\ ~Owns("memoir", memoirist.token)
    <3>1. ~ByMemoirist
      BY <2>3 DEF ByMemoirist, Owns
    <3> HIDE DEF Typed
    <3> QED
      BY <1>4, <2>1, <2>3, <3>1
  <2> QED
    BY <1>1, <2>1, <2>2, <2>3, Cleared
<1>11. CASE MemoirMark
  <2>1. Typed /\ UNCHANGED <<slot, orphaned>> /\ ~ByMemoirist
    BY <1>1, <1>6, <1>11, Nothing DEF MemoirMark, ByMemoirist
  <2> HIDE DEF Typed
  <2> QED
    BY <1>4, <2>1
<1>12. CASE MemoirDbError
  <2>1. memoirist.token \in Day /\ UNCHANGED <<slot, prompted, asked>> /\ events' \in Nat
    BY <1>1, <1>6, <1>12 DEF MemoirDbError
  <2>2. CASE memoirist.pc = "record"
    <3>1. /\ memoirist' \in Loop /\ memoirist'.pc = "clear" /\ memoirist'.token = memoirist.token
          /\ orphaned' = orphaned
      BY <1>5, <1>12, <2>1, <2>2 DEF MemoirDbError
    <3>2. (ByMemoirist => ByMemoirist') /\ Typed
      BY <1>1, <2>1, <3>1 DEF ByMemoirist
    <3> HIDE DEF Typed
    <3> QED
      BY <1>4, <2>1, <3>1, <3>2
  <2>3. CASE memoirist.pc # "record"
    <3>1. memoirist' = IdleLoop /\ Abandon(memoirist.token)
      BY <1>12, <2>3 DEF MemoirDbError
    <3>2. orphaned' \in BOOLEAN /\ (orphaned => orphaned') /\ (InTransit /\ slot.token = memoirist.token => orphaned')
      BY <1>1, <3>1 DEF Abandon
    <3>3. Typed
      BY <1>1, <2>1, <3>1, <3>2, Nothing
    <3>4. Held'
      BY <1>1, <1>2, <2>1, <3>2 DEF Held, ByMemoirist, ByPrompter, ByJob, InTransit
    <3>5. RowOK'
      BY <1>1, <2>1 DEF RowOK
    <3> HIDE DEF Typed
    <3> QED
      BY <1>3, <2>1, <3>3, <3>4, <3>5
  <2> QED
    BY <2>2, <2>3
<1> QED
  BY <1>7, <1>8, <1>9, <1>10, <1>11, <1>12 DEF Memoir

-----------------------------------------------------------------------------
(* The chronometry prompter *)

LEMMA PromptingKeeps ==
    ASSUME IInv, Prompting
    PROVE  IInv'
<1> DEFINE Typed == /\ prompter' \in Loop /\ (prompter'.pc # "idle" => prompter'.token \in Chrono)
                    /\ flag' \in Chrono \cup {NoToken} /\ used' \subseteq Token
                    /\ events' \in Nat /\ orphaned' \in BOOLEAN
<1>1. /\ RowOK /\ TypeOK /\ Kinds /\ OneQuestion /\ Held /\ Fresh /\ prompter \in Loop
      /\ orphaned \in BOOLEAN /\ flag \in Chrono \cup {NoToken} /\ used \subseteq Token
      /\ (prompter.pc # "idle" => prompter.token \in Chrono)
  BY Facts DEF TypeOK, Kinds
<1>2. UNCHANGED <<memoirist, job, prompted, asked, buttons, answers>>
  BY DEF Prompting, Ask, AskClaim, AskBusy, AskSend, AskSendFails, AskClear, AskRecord, AskDbError,
         ForgetStale, PrompterFrame
<1>3. ASSUME Typed, RowOK', OneQuestion', Held', Fresh'
      PROVE  IInv'
  <2>1. TypeOK'
    BY <1>1, <1>2, <1>3 DEF TypeOK, RowOK
  <2>2. Kinds'
    BY <1>1, <1>2, <1>3 DEF Kinds, RowOK
  <2> HIDE DEF Typed
  <2> QED
    BY <1>3, <2>1, <2>2 DEF IInv
<1>4. \A pc \in {"claim", "deliver", "record", "clear"}, t \in Chrono :
         Prompter(pc, t) => /\ prompter' \in Loop /\ prompter'.pc = pc /\ prompter'.token = t
  BY Tokens DEF Prompter, Loop
<1>5. Event \/ NoEvent => events' \in Nat
  BY <1>1, Counts
<1>6. UNCHANGED slot => RowOK'
  BY <1>1 DEF RowOK
<1>7. ASSUME NEW q \in Chrono, Ask(q)
      PROVE  IInv'
  <2>1. /\ prompter' \in Loop /\ prompter'.pc = "claim" /\ prompter'.token = q
        /\ UNCHANGED <<slot, flag, orphaned>> /\ events' \in Nat
        /\ flag = NoToken /\ ~slot.live /\ q \notin used /\ used' = used \cup {q}
    BY <1>4, <1>5, <1>7 DEF Ask
  <2>2. Typed
    BY <1>1, <2>1, Tokens
  <2>3. OneQuestion' /\ Held'
    BY <2>1 DEF OneQuestion, FlagMatchesRow, Active, Held
  <2>4. Fresh'
    BY <1>1, <1>2, <2>1 DEF Fresh
  <2> HIDE DEF Typed
  <2> QED
    BY <1>3, <1>6, <2>1, <2>2, <2>3, <2>4
<1>8. CASE AskClaim
  <2>1. /\ prompter.token \in Chrono /\ prompter' \in Loop /\ prompter'.pc = "deliver"
        /\ prompter'.token = prompter.token /\ prompter.pc = "claim"
        /\ UNCHANGED <<flag, used>> /\ events' \in Nat /\ orphaned' \in BOOLEAN
    BY <1>1, <1>4, <1>5, <1>8 DEF AskClaim, Claim
  <2>2. RowOK' /\ slot'.type = "chronometry" /\ slot'.token = prompter.token
    BY <1>8, <2>1, Claimed, Tokens DEF AskClaim, Claim, WorkflowType
  <2>3. OneQuestion' /\ Held'
    BY <1>1, <2>1, <2>2 DEF OneQuestion, FlagMatchesRow, Active, Held, ByPrompter
  <2>4. Fresh'
    BY <1>1, <1>2, <2>1, <2>2 DEF Fresh
  <2>5. Typed
    BY <1>1, <2>1
  <2> HIDE DEF Typed
  <2> QED
    BY <1>3, <2>2, <2>3, <2>4, <2>5
<1>9. CASE AskBusy
  <2>1. /\ prompter' = IdleLoop /\ prompter.pc = "claim" /\ UNCHANGED <<slot, flag, used, orphaned>>
        /\ events' \in Nat
    BY <1>5, <1>9 DEF AskBusy
  <2>2. OneQuestion' /\ Typed
    BY <1>1, <2>1, Nothing DEF OneQuestion, FlagMatchesRow, Active
  <2>3. Held'
    BY <1>1, <1>2, <2>1 DEF Held, ByPrompter, ByMemoirist, ByJob, InTransit
  <2>4. Fresh'
    BY <1>1, <1>2, <2>1, Nothing DEF Fresh
  <2> HIDE DEF Typed
  <2> QED
    BY <1>3, <1>6, <2>1, <2>2, <2>3, <2>4
<1>10. CASE AskSend \/ AskSendFails
  <2>1. /\ prompter.token \in Chrono /\ prompter' \in Loop /\ prompter'.pc \in {"record", "clear"}
        /\ prompter'.token = prompter.token /\ prompter.pc = "deliver"
        /\ UNCHANGED <<slot, used, orphaned>> /\ events' \in Nat
        /\ flag' \in {flag, prompter.token}
    BY <1>1, <1>4, <1>5, <1>10 DEF AskSend, AskSendFails
  <2>2. OneQuestion' /\ Typed
    BY <1>1, <2>1 DEF OneQuestion, FlagMatchesRow, Active
  <2>3. Held'
    BY <1>1, <1>2, <2>1 DEF Held, ByPrompter, ByMemoirist, ByJob, InTransit
  <2>4. Fresh'
    BY <1>1, <1>2, <2>1 DEF Fresh
  <2> HIDE DEF Typed
  <2> QED
    BY <1>3, <1>6, <2>1, <2>2, <2>3, <2>4
<1>11. CASE AskClear
  <2>1. /\ prompter' = IdleLoop /\ prompter.pc = "clear" /\ UNCHANGED <<flag, used, orphaned>>
        /\ Clear("chronometry", prompter.token) /\ events' \in Nat
    BY <1>5, <1>11 DEF AskClear
  <2>2. RowOK' /\ \/ slot' = slot /\ ~Owns("chronometry", prompter.token)
                  \/ slot' = NoSlot
    BY <1>1, <2>1, Cleared
  <2>3. OneQuestion' /\ Typed
    BY <1>1, <2>1, <2>2, Nothing DEF OneQuestion, FlagMatchesRow, Active
  <2>4. Held'
    BY <1>1, <1>2, <2>1, <2>2, Nothing DEF Held, ByPrompter, ByMemoirist, ByJob, InTransit, Owns
  <2>5. Fresh'
    BY <1>1, <1>2, <2>1, <2>2, Nothing, Tokens DEF Fresh
  <2> HIDE DEF Typed
  <2> QED
    BY <1>3, <2>2, <2>3, <2>4, <2>5
<1>12. CASE AskRecord
  <2>1. /\ prompter' = IdleLoop /\ prompter.pc = "record" /\ UNCHANGED <<used, orphaned>>
        /\ events' \in Nat
    BY <1>5, <1>12 DEF AskRecord
  <2>2. CASE Transition("chronometry", prompter.token, "chronometry", TRUE) /\ UNCHANGED flag
    <3>1. Renewed("chronometry", prompter.token, "chronometry")
      BY <2>2 DEF Transition, Matches, Owns, Renewed
    <3>2. /\ RowOK' /\ slot.live /\ slot.type = "chronometry" /\ slot'.type = "chronometry"
          /\ slot'.token = slot.token /\ slot'.message
      BY <1>1, <3>1, Transitioned DEF WorkflowType
    <3>3. OneQuestion' /\ Typed
      BY <1>1, <2>1, <2>2, <3>2, Nothing DEF OneQuestion, FlagMatchesRow, Active
    <3>4. Fresh'
      BY <1>1, <1>2, <2>1, <3>2, Nothing DEF Fresh
    <3> HIDE DEF Typed
    <3> QED
      BY <1>3, <3>2, <3>3, <3>4, HeldWhenOpen
  <2>3. CASE ~Matches("chronometry", prompter.token) /\ UNCHANGED slot /\ flag' = NoToken
    <3>1. OneQuestion' /\ Typed
      BY <1>1, <2>1, <2>3, Nothing DEF OneQuestion, FlagMatchesRow, Active
    <3>2. Held'
      BY <1>1, <1>2, <2>1, <2>3 DEF Held, ByPrompter, ByMemoirist, ByJob, InTransit, Matches, Owns
    <3>3. Fresh'
      BY <1>1, <1>2, <2>1, <2>3, Nothing DEF Fresh
    <3> HIDE DEF Typed
    <3> QED
      BY <1>3, <1>6, <2>3, <3>1, <3>2, <3>3
  <2> QED
    BY <1>12, <2>2, <2>3 DEF AskRecord
<1>13. CASE AskDbError
  <2>1. /\ prompter' = IdleLoop /\ UNCHANGED <<slot, flag, used>> /\ events' \in Nat
        /\ Abandon(prompter.token)
    BY <1>5, <1>13 DEF AskDbError
  <2>2. /\ orphaned' \in BOOLEAN /\ (orphaned => orphaned')
        /\ (InTransit /\ slot.token = prompter.token => orphaned')
    BY <1>1, <2>1 DEF Abandon
  <2>3. OneQuestion' /\ Typed
    BY <1>1, <2>1, <2>2, Nothing DEF OneQuestion, FlagMatchesRow, Active
  <2>4. Held'
    BY <1>1, <1>2, <2>1, <2>2 DEF Held, ByPrompter, ByMemoirist, ByJob, InTransit
  <2>5. Fresh'
    BY <1>1, <1>2, <2>1, Nothing DEF Fresh
  <2> HIDE DEF Typed
  <2> QED
    BY <1>3, <1>6, <2>1, <2>3, <2>4, <2>5
<1>14. CASE ForgetStale
  <2>1. flag' = NoToken /\ UNCHANGED <<slot, prompter, used, orphaned>> /\ events' \in Nat
    BY <1>5, <1>14 DEF ForgetStale
  <2>2. OneQuestion' /\ Typed
    BY <1>1, <2>1 DEF OneQuestion, FlagMatchesRow, Active
  <2>3. Held'
    BY <1>1, <1>2, <2>1 DEF Held, ByPrompter, ByMemoirist, ByJob, InTransit
  <2>4. Fresh'
    BY <1>1, <1>2, <2>1 DEF Fresh
  <2> HIDE DEF Typed
  <2> QED
    BY <1>3, <1>6, <2>1, <2>2, <2>3, <2>4
<1> QED
  BY <1>7, <1>8, <1>9, <1>10, <1>11, <1>12, <1>13, <1>14 DEF Prompting

-----------------------------------------------------------------------------
(* The handler of the user's update *)

JobOK == /\ job \in Job
         /\ job.pc = "send" => job.type = "voice_confirm" /\ job.token \in Voice
         /\ job.source = "voice_processing" => job.voice \in Voice

\* The handler moves on, and the row stays as it is.
JobMoves ==
    /\ HandlerFrame /\ JobOK' /\ flag' \in {flag, NoToken} /\ buttons' \subseteq Voice
    /\ UNCHANGED <<slot, used, answers>> /\ (Event \/ NoEvent)
    /\ orphaned' \in BOOLEAN /\ (orphaned => orphaned')
    /\ ByJob => orphaned' \/ ByJob'

\* The handler writes the row.
JobWrites ==
    /\ HandlerFrame /\ JobOK' /\ flag' = flag /\ buttons' \subseteq Voice
    /\ used \subseteq used' /\ used' \subseteq Token /\ (Event \/ NoEvent)
    /\ orphaned' \in BOOLEAN /\ answers' \in [Chrono \cup Day -> Nat]
    /\ \A q \in Chrono : answers'[q] # answers[q] => q = slot.token /\ slot'.token # q
    /\ RowOK' /\ slot'.type # "chronometry"
    /\ slot'.token = slot.token \/ slot'.token \notin Chrono
    /\ Held'

LEMMA JobFacts ==
    ASSUME IInv
    PROVE  /\ JobOK /\ RowOK /\ flag \in Chrono \cup {NoToken} /\ buttons \subseteq Voice
           /\ used \subseteq Token /\ orphaned \in BOOLEAN /\ answers \in [Chrono \cup Day -> Nat]
BY Facts DEF JobOK, TypeOK, Kinds

LEMMA JobMovesKeeps ==
    ASSUME IInv, JobMoves
    PROVE  IInv'
<1>1. TypeOK /\ Kinds /\ RowOK
  BY Facts
<1>2. Held'
  BY HeldWhileSame DEF JobMoves, HandlerFrame, ByMemoirist
<1>3. RowOK' /\ events' \in Nat
  BY <1>1, Counts DEF JobMoves, RowOK
<1>4. Elsewhere
  BY <1>1, <1>2, <1>3 DEF JobMoves, HandlerFrame, JobOK, Elsewhere, TypeOK, Kinds
<1> QED
  BY <1>4, ElsewhereKeeps

LEMMA JobWritesKeeps ==
    ASSUME IInv, JobWrites
    PROVE  IInv'
<1>1. TypeOK /\ Kinds
  BY Facts
<1>2. events' \in Nat
  BY <1>1, Counts DEF JobWrites
<1>3. Elsewhere
  BY <1>1, <1>2 DEF JobWrites, HandlerFrame, JobOK, Elsewhere, TypeOK, Kinds
<1> QED
  BY <1>3, ElsewhereKeeps

\* The handler writes the row, but keeps no record and takes no token.
LEMMA JobWritesOnly ==
    ASSUME IInv, HandlerFrame, UNCHANGED <<flag, used, history>>, NoEvent,
           JobOK', buttons' \subseteq Voice,
           RowOK', slot'.type # "chronometry", slot'.token = slot.token \/ slot'.token \notin Chrono, Held'
    PROVE  IInv'
<1>1. JobWrites
  BY JobFacts DEF JobWrites, history
<1> QED
  BY <1>1, JobWritesKeeps

LEMMA JobMovesOnly ==
    ASSUME IInv, HandlerFrame, UNCHANGED <<slot, flag, used, history>>, NoEvent,
           JobOK', buttons' \subseteq Voice, ByJob => ByJob'
    PROVE  IInv'
<1>1. JobMoves
  BY JobFacts DEF JobMoves, history
<1> QED
  BY <1>1, JobMovesKeeps

\* A dialogue is cleared: the row is empty, or was another's.
LEMMA ClearKeeps ==
    ASSUME IInv, HandlerFrame, UNCHANGED <<flag, used, history>>, NoEvent, JobOK',
           buttons' \subseteq Voice, NEW type, NEW token, Clear(type, token),
           slot' = slot => (ByJob => ByJob' \/ (slot.type = type /\ slot.token = token))
    PROVE  IInv'
<1>1. RowOK'  /\ \/ slot' = slot /\ ~Owns(type, token)
                 \/ slot' = NoSlot
  BY Cleared, JobFacts
<1>2. CASE slot' = NoSlot
  BY <1>1, <1>2, JobWritesOnly, SlotEmptied, HeldWhenOpen, Tokens, Nothing
<1>3. CASE slot' = slot /\ ~Owns(type, token)
  <2>1. ByJob => ByJob'
    BY <1>3 DEF Owns
  <2>2. UNCHANGED <<slot, flag, used, history>>
    BY <1>3
  <2> QED
    BY <2>1, <2>2, JobMovesOnly
<1> QED
  BY <1>1, <1>2, <1>3

\* The handler of a text goes on, with the voice command its text came from.
TextGoesOn ==
    /\ JobOK'
    /\ job.source = "voice_processing" =>
          /\ job'.source = "voice_processing" /\ job'.voice = job.voice /\ job'.pc \in TextPc

LEMMA TextHeld ==
    ASSUME job.pc \notin {"send", "record", "clear"}, UNCHANGED slot, TextGoesOn
    PROVE  ByJob => ByJob'
BY DEF ByJob, TextGoesOn

LEMMA LeaveGoesOn ==
    ASSUME IInv, NEW done \in BOOLEAN, Leave(done)
    PROVE  TextGoesOn
<1>1. JobOK /\ job \in Job
  BY JobFacts DEF JobOK
<1>2. CASE job.source = "none"
  BY <1>2, Nothing DEF Leave, JobOK, TextGoesOn
<1>3. CASE job.source # "none"
  <2>1. job' = [IdleJob EXCEPT !.pc = "end", !.source = job.source, !.voice = job.voice, !.done = done]
    BY <1>3 DEF Leave
  <2>2. /\ job.source \in {"none", "voice_edit", "voice_processing"}
        /\ job.voice \in Token \cup {NoToken}
    BY <1>1 DEF Job
  <2>3. job' \in Job /\ job'.pc = "end" /\ job'.source = job.source /\ job'.voice = job.voice
    BY <2>1, <2>2, Nothing DEF Job
  <2> QED
    BY <1>1, <2>3 DEF JobOK, TextGoesOn, TextPc
<1> QED
  BY <1>2, <1>3

LEMMA Leaves ==
    ASSUME IInv, Leave(TRUE) \/ Leave(FALSE)
    PROVE  TextGoesOn
<1>1. CASE Leave(TRUE)
  BY <1>1, LeaveGoesOn
<1>2. CASE Leave(FALSE)
  BY <1>2, LeaveGoesOn
<1> QED
  BY <1>1, <1>2

-----------------------------------------------------------------------------
(* Voice commands, buttons and /cancel *)

LEMMA VoiceKeeps ==
    ASSUME IInv,
           \/ \E q \in Voice : VoiceMessage(q)
           \/ VoiceSend \/ VoiceSendFails \/ VoiceRecord \/ Announce
    PROVE  IInv'
<1>1. JobOK /\ RowOK /\ TypeOK /\ buttons \subseteq Voice /\ used \subseteq Token /\ job \in Job
  BY Facts, JobFacts DEF JobOK
<1>2. ASSUME NEW q \in Voice, VoiceMessage(q)
      PROVE  IInv'
  <2>1. RowOK' /\ slot'.type = "voice_confirm" /\ slot'.token = q /\ q \notin Chrono
    BY <1>2, Claimed, Tokens DEF VoiceMessage, Claim, WorkflowType
  <2>2. /\ job'.pc = "send" /\ job'.type = "voice_confirm" /\ job'.token = q
        /\ JobOK'
    <3>1. job' = [pc |-> "send", type |-> "voice_confirm", token |-> q, owns |-> FALSE,
                  source |-> "none", voice |-> NoToken, done |-> FALSE]
      BY <1>2 DEF VoiceMessage, IdleJob
    <3>2. q \in Token /\ "voice_confirm" \in WorkflowType
      BY Tokens DEF WorkflowType
    <3>3. job' \in Job
      BY <3>1, <3>2, Nothing DEF Job
    <3> QED
      BY <3>1, <3>3, Nothing DEF JobOK
  <2>3. Held'
    BY <2>1, <2>2 DEF Held, ByJob
  <2>4. JobWrites
    BY <1>1, <1>2, <2>1, <2>2, <2>3, Tokens, JobFacts DEF JobWrites, VoiceMessage, Claim
  <2> QED
    BY <2>4, JobWritesKeeps
<1>3. CASE VoiceSend \/ VoiceSendFails
  <2>1. /\ job' \in Job /\ job'.pc \in {"record", "clear"} /\ job'.type = job.type
        /\ job'.token = job.token /\ job'.source = job.source /\ job'.voice = job.voice
        /\ job.pc = "send"
    BY <1>1, <1>3 DEF VoiceSend, VoiceSendFails, Goto, Job
  <2>2. JobOK' /\ buttons' \subseteq Voice
    BY <1>1, <1>3, <2>1 DEF VoiceSend, VoiceSendFails, JobOK
  <2>3. UNCHANGED <<slot, flag, used, history>> /\ NoEvent /\ HandlerFrame
    BY <1>3 DEF VoiceSend, VoiceSendFails
  <2>4. ByJob => ByJob'
    BY <2>1, <2>3 DEF ByJob, TextPc
  <2> QED
    BY <2>2, <2>3, <2>4, JobMovesOnly
<1>4. CASE VoiceRecord
  <2>1. /\ JobOK' /\ UNCHANGED <<flag, used, buttons, history>> /\ NoEvent /\ HandlerFrame
        /\ job.pc = "record"
    BY <1>4, Nothing DEF VoiceRecord, JobOK
  <2>2. CASE Transition("voice_confirm", job.token, "voice_confirm", TRUE)
    <3>1. Renewed("voice_confirm", job.token, "voice_confirm")
      BY <2>2 DEF Transition, Matches, Owns, Renewed
    <3>2. RowOK' /\ slot'.type = "voice_confirm" /\ slot'.token = slot.token /\ slot'.message
      BY <1>1, <3>1, Transitioned DEF WorkflowType
    <3> QED
      BY <1>1, <2>1, <3>2, HeldWhenOpen, JobWritesOnly
  <2>3. CASE ~Matches("voice_confirm", job.token) /\ UNCHANGED slot
    <3>1. Held'
      BY <2>1, <2>3, Facts DEF Held, ByPrompter, ByMemoirist, ByJob, InTransit, Matches, Owns,
         HandlerFrame, history, TextPc
    <3>2. Elsewhere
      BY <1>1, <2>1, <2>3, <3>1, Facts, JobFacts, Counts
      DEF Elsewhere, HandlerFrame, JobOK, TypeOK, Kinds, history, RowOK
    <3> QED
      BY <3>2, ElsewhereKeeps
  <2> QED
    BY <1>4, <2>2, <2>3 DEF VoiceRecord
<1>5. CASE Announce
  <2>1. /\ UNCHANGED <<slot, flag, used, history>> /\ NoEvent /\ HandlerFrame
        /\ buttons' \subseteq Voice /\ job.pc = "announce"
    BY <1>1, <1>5 DEF Announce, MayHide
  <2>2. /\ JobOK' /\ (ByJob => ByJob')
    <3>1. CASE Goto("route")
      BY <1>1, <2>1, <3>1 DEF Goto, JobOK, Job, ByJob, TextPc
    <3>2. CASE Leave(FALSE)
      BY <2>1, <3>2, Leaves, TextHeld DEF TextGoesOn
    <3> QED
      BY <1>5, <3>1, <3>2 DEF Announce
  <2> QED
    BY <2>1, <2>2, JobMovesOnly
<1> QED
  BY <1>2, <1>3, <1>4, <1>5

\* The handler was idle: no dialogue was its work.
LEMMA IdleHolds ==
    ASSUME job.pc = "idle"
    PROVE  ~ByJob
BY DEF ByJob, TextPc

LEMMA ButtonKeeps ==
    ASSUME IInv,
           \/ \E q \in Voice : Confirm(q) \/ Edit(q) \/ Dismiss("voice_confirm", q)
           \/ \E day \in Day : Dismiss("memoir", day)
           \/ Cancel \/ ClearDialogue
    PROVE  IInv'
<1>1. JobOK /\ RowOK /\ buttons \subseteq Voice /\ job \in Job
  BY JobFacts DEF JobOK
<1>2. ASSUME NEW q \in Voice, Confirm(q)
      PROVE  IInv'
  <2>1. Renewed("voice_confirm", q, "voice_processing")
    BY <1>2 DEF Confirm, Transition, Matches, Owns, Renewed
  <2>2. RowOK' /\ slot'.type = "voice_processing" /\ slot'.token = slot.token /\ slot'.token = q
    BY <1>1, <2>1, Transitioned DEF WorkflowType
  <2>3. /\ job' \in Job /\ job'.pc = "announce" /\ job'.source = "voice_processing" /\ job'.voice = q
    BY <1>2, Tokens, Nothing DEF Confirm, IdleJob, Job
  <2>4. Held' /\ JobOK'
    BY <2>2, <2>3 DEF Held, ByJob, TextPc, JobOK
  <2>5. UNCHANGED <<flag, used, history>> /\ buttons' \subseteq Voice /\ NoEvent /\ HandlerFrame
    BY <1>1, <1>2 DEF Confirm
  <2> QED
    BY <2>2, <2>4, <2>5, JobWritesOnly
<1>3. ASSUME NEW q \in Voice, Edit(q)
      PROVE  IInv'
  <2>1. Renewed("voice_confirm", q, "voice_edit")
    BY <1>3 DEF Edit, Transition, Matches, Owns, Renewed
  <2>2. RowOK' /\ slot'.type = "voice_edit" /\ slot'.token = slot.token
    BY <1>1, <2>1, Transitioned DEF WorkflowType
  <2>3. Held' /\ JobOK'
    BY <1>1, <1>3, <2>2, HeldWhenOpen DEF Edit, JobOK
  <2>4. UNCHANGED <<flag, used, history>> /\ buttons' \subseteq Voice /\ NoEvent /\ HandlerFrame
    BY <1>1, <1>3 DEF Edit, MayHide
  <2> QED
    BY <2>2, <2>3, <2>4, JobWritesOnly
<1>4. ASSUME job.pc = "idle", HandlerFrame, UNCHANGED <<slot, flag, used, history>>, NoEvent,
             buttons' \subseteq Voice, job' \in Job, job'.pc = "clear", job'.source = "none"
      PROVE  IInv'
  <2>1. JobOK' /\ (ByJob => ByJob')
    BY <1>4, IdleHolds DEF JobOK
  <2> QED
    BY <1>4, <2>1, JobMovesOnly
<1>5. ASSUME NEW type \in {"voice_confirm", "memoir"}, NEW q \in Voice \cup Day, Dismiss(type, q)
      PROVE  IInv'
  <2>1. job' \in Job /\ job'.pc = "clear" /\ job'.source = "none"
    <3>1. /\ job' = [IdleJob EXCEPT !.pc = "clear", !.type = type, !.token = q]
          /\ type \in WorkflowType /\ q \in Token
      BY <1>5, Tokens DEF Dismiss, WorkflowType
    <3> QED
      BY <3>1, Nothing DEF Job
  <2>2. /\ job.pc = "idle" /\ HandlerFrame /\ UNCHANGED <<slot, flag, used, history>> /\ NoEvent
        /\ buttons' \subseteq Voice
    BY <1>1, <1>5 DEF Dismiss, MayHide, Pressable, Isolated
  <2> QED
    BY <1>4, <2>1, <2>2
<1>6. CASE Cancel
  <2>1. slot.type \in WorkflowType \cup {"none"} /\ slot.token \in Token \cup {NoToken}
    BY <1>1 DEF RowOK, Slot
  <2>2. job' \in Job /\ job'.pc = "clear" /\ job'.source = "none"
    BY <1>6, <2>1, Nothing DEF Cancel, IdleJob, Job
  <2>3. /\ job.pc = "idle" /\ HandlerFrame /\ UNCHANGED <<slot, flag, used, history>> /\ NoEvent
        /\ buttons' \subseteq Voice
    BY <1>1, <1>6 DEF Cancel, Isolated
  <2> QED
    BY <1>4, <2>2, <2>3
<1>7. CASE ClearDialogue
  <2>1. /\ HandlerFrame /\ UNCHANGED <<flag, used, history>> /\ NoEvent /\ JobOK'
        /\ buttons' \subseteq Voice /\ Clear(job.type, job.token) /\ job.pc = "clear"
    BY <1>1, <1>7, Nothing DEF ClearDialogue, JobOK
  <2>2. ByJob => slot.type = job.type /\ slot.token = job.token
    BY <2>1 DEF ByJob, TextPc
  <2> QED
    BY <2>1, <2>2, ClearKeeps
<1> QED
  BY <1>2, <1>3, <1>5, <1>6, <1>7

-----------------------------------------------------------------------------
(* The pipeline of a text *)

\* A text is routed, or one more step of its handler leaves the row alone.
LEMMA TextKeeps ==
    ASSUME IInv,
           \/ Text \/ RouteChrono \/ \E done \in BOOLEAN : RouteElsewhere(done)
           \/ \E day \in Day : RouteMemoir(day)
           \/ ProjectFails \/ ChronoFails \/ Forget
    PROVE  IInv'
<1>1. /\ JobOK /\ RowOK /\ buttons \subseteq Voice /\ job \in Job
      /\ slot.token \in Token \cup {NoToken}
  BY JobFacts DEF JobOK, RowOK, Slot
<1>2. ASSUME job.pc \notin {"send", "record", "clear"}, TextGoesOn, HandlerFrame,
             UNCHANGED <<slot, used, buttons, history>>, flag' \in {flag, NoToken}, Event \/ NoEvent
      PROVE  IInv'
  <2>1. ByJob => ByJob'
    BY <1>2, TextHeld
  <2>2. JobMoves
    BY <1>1, <1>2, <2>1, JobFacts DEF JobMoves, TextGoesOn, history
  <2> QED
    BY <2>2, JobMovesKeeps
<1>3. CASE Text
  <2>1. /\ job.pc = "idle" /\ HandlerFrame /\ UNCHANGED <<slot, flag, used, buttons, history>> /\ NoEvent
    BY <1>3 DEF Text, Isolated
  <2>2. job' \in Job /\ job'.pc = "route" /\ job'.source \in {"none", "voice_edit"}
    <3>1. CASE job' = [IdleJob EXCEPT !.pc = "route", !.source = "voice_edit", !.voice = slot.token]
      BY <1>1, <3>1, Nothing DEF Job
    <3>2. CASE job' = [IdleJob EXCEPT !.pc = "route"]
      BY <3>2, Nothing DEF Job
    <3> QED
      BY <1>3, <3>1, <3>2 DEF Text
  <2>3. JobOK' /\ (ByJob => ByJob')
    BY <2>1, <2>2, IdleHolds DEF JobOK
  <2> QED
    BY <1>1, <2>1, <2>3, JobMovesOnly
<1>4. CASE RouteChrono
  <2>1. /\ job.pc = "route" /\ HandlerFrame /\ UNCHANGED <<slot, flag, used, buttons, history>>
        /\ (Event \/ NoEvent)
    BY <1>4 DEF RouteChrono
  <2>2. job' \in Job /\ job'.pc = "chrono" /\ job'.source = job.source /\ job'.voice = job.voice
    <3>1. CASE job' = [job EXCEPT !.pc = "chrono", !.type = "chronometry",
                                  !.token = IF Active("chronometry") THEN slot.token ELSE NoToken]
      <4> DEFINE t == IF Active("chronometry") THEN slot.token ELSE NoToken
      <4>1. t \in Token \cup {NoToken}
        BY <1>1
      <4>2. job' = [job EXCEPT !.pc = "chrono", !.type = "chronometry", !.token = t]
        BY <3>1
      <4> HIDE DEF t
      <4> QED
        BY <1>1, <4>1, <4>2 DEF Job, WorkflowType
    <3>2. CASE job' = [job EXCEPT !.pc = "chrono", !.type = "chronometry"]
      BY <1>1, <3>2 DEF Job, WorkflowType
    <3> QED
      BY <1>4, <3>1, <3>2 DEF RouteChrono
  <2>3. TextGoesOn
    BY <1>1, <2>2 DEF TextGoesOn, JobOK, TextPc
  <2> QED
    BY <1>2, <2>1, <2>3
<1>5. ASSUME NEW day \in Day, RouteMemoir(day)
      PROVE  IInv'
  <2>1. /\ job.pc = "route" /\ HandlerFrame /\ UNCHANGED <<slot, flag, used, buttons, history>>
        /\ NoEvent /\ job.source # "voice_processing"
    BY <1>5 DEF RouteMemoir
  <2>2. (Matches("memoir", day) /\ slot.message) \in BOOLEAN
    OBVIOUS
  <2>3. job' \in Job /\ job'.pc = "memoir" /\ job'.source = job.source /\ job'.voice = job.voice
    BY <1>1, <1>5, <2>2, Tokens DEF RouteMemoir, Job, WorkflowType
  <2>4. TextGoesOn
    BY <1>1, <2>1, <2>3 DEF TextGoesOn, JobOK
  <2> QED
    BY <1>2, <2>1, <2>4
<1>6. ASSUME NEW done \in BOOLEAN, RouteElsewhere(done)
      PROVE  IInv'
  <2>1. TextGoesOn
    <3>1. Leave(done)
      BY <1>6 DEF RouteElsewhere
    <3> QED
      BY <3>1, LeaveGoesOn
  <2> QED
    BY <1>2, <1>6, <2>1 DEF RouteElsewhere
<1>7. CASE ProjectFails \/ Forget
  <2>1. TextGoesOn
    BY <1>7, Leaves DEF ProjectFails, Forget
  <2> QED
    BY <1>2, <1>7, <2>1 DEF ProjectFails, Forget
<1>8. CASE ChronoFails
  <2>1. TextGoesOn
    BY <1>1, <1>8 DEF ChronoFails, Goto, Job, JobOK, TextGoesOn, TextPc
  <2> QED
    BY <1>2, <1>8, <2>1 DEF ChronoFails
<1> QED
  BY <1>3, <1>4, <1>5, <1>6, <1>7, <1>8

\* A saved answer is the answer to the question in the row, which it closes.
LEMMA Saved ==
    ASSUME IInv, SaveAnswer
    PROVE  /\ slot' = NoSlot /\ RowOK' /\ Held'
           /\ slot'.type # "chronometry" /\ slot'.token \notin Chrono
           /\ answers' \in [Chrono \cup Day -> Nat]
           /\ \A q \in Chrono : answers'[q] # answers[q] => q = slot.token /\ slot'.token # q
<1>1. slot' = NoSlot /\ slot.token = job.token /\ answers' = [answers EXCEPT ![job.token] = @ + 1]
  BY DEF SaveAnswer, Owns
<1>2. answers \in [Chrono \cup Day -> Nat]
  BY JobFacts
<1>3. answers' \in [Chrono \cup Day -> Nat]
  <2>1. CASE job.token \in Chrono \cup Day
    <3>1. answers[job.token] + 1 \in Nat
      BY <1>2, <2>1
    <3> QED
      BY <1>1, <1>2, <3>1
  <2>2. CASE job.token \notin Chrono \cup Day
    BY <1>1, <1>2, <2>2
  <2> QED
    BY <2>1, <2>2
<1>4. \A q \in Chrono : answers'[q] # answers[q] => q = slot.token
  BY <1>1, <1>2
<1>5. slot'.token = NoToken /\ slot'.token \notin Chrono /\ ~slot'.live /\ slot'.type = "none"
  BY <1>1, Nothing, Tokens
<1>6. RowOK' /\ Held'
  BY <1>1, <1>5, SlotEmptied, HeldWhenOpen
<1> QED
  BY <1>1, <1>3, <1>4, <1>5, <1>6

\* The handler of an answer goes on after it has saved it, or without saving it.
LEMMA AnswerGoesOn ==
    ASSUME IInv, job.pc \notin {"send", "record", "clear"}, TextGoesOn, HandlerFrame,
           UNCHANGED <<flag, used, buttons, orphaned>>, Event \/ NoEvent,
           SaveAnswer \/ UNCHANGED <<slot, answers>>
    PROVE  IInv'
<1>1. CASE SaveAnswer
  <2>1. JobWrites
    BY <1>1, Saved, JobFacts DEF JobWrites, TextGoesOn
  <2> QED
    BY <2>1, JobWritesKeeps
<1>2. CASE UNCHANGED <<slot, answers>>
  <2>1. ByJob => ByJob'
    BY <1>2, TextHeld
  <2>2. JobMoves
    BY <1>2, <2>1, JobFacts DEF JobMoves, TextGoesOn
  <2> QED
    BY <2>2, JobMovesKeeps
<1> QED
  BY <1>1, <1>2

LEMMA AnswerKeeps ==
    ASSUME IInv,
           \/ SaveMemoir \/ SaveMemoirDbError \/ ChronoRecord \/ ChronoAmbiguous
           \/ ChronoFallback \/ ChronoRaises
    PROVE  IInv'
<1>1. JobOK /\ job \in Job
  BY JobFacts DEF JobOK
<1>2. Goto("forget") \/ Goto("fallback") => TextGoesOn
  <2>1. \A pc \in {"forget", "fallback"} :
           job' = [job EXCEPT !.pc = pc] => /\ job' \in Job /\ job'.pc = pc
                                            /\ job'.source = job.source /\ job'.voice = job.voice
    BY <1>1 DEF Job
  <2> QED
    BY <1>1, <2>1 DEF Goto, TextGoesOn, JobOK, TextPc
<1>3. ChronoEntry => SaveAnswer \/ UNCHANGED <<slot, answers>>
  BY DEF ChronoEntry
<1>4. CASE SaveMemoir \/ SaveMemoirDbError
  <2>1. /\ job.pc = "memoir" /\ HandlerFrame /\ UNCHANGED <<flag, used, buttons, orphaned>>
        /\ (Event \/ NoEvent) /\ (SaveAnswer \/ UNCHANGED <<slot, answers>>)
        /\ (Leave(TRUE) \/ Leave(FALSE))
    BY <1>4 DEF SaveMemoir, SaveMemoirDbError
  <2> QED
    BY <2>1, Leaves, AnswerGoesOn
<1>5. CASE ChronoRecord \/ ChronoAmbiguous \/ ChronoFallback
  <2>1. /\ job.pc \in {"chrono", "fallback"} /\ HandlerFrame
        /\ UNCHANGED <<flag, used, buttons, orphaned>>
        /\ (Event \/ NoEvent) /\ (SaveAnswer \/ UNCHANGED <<slot, answers>>)
        /\ (Goto("forget") \/ Goto("fallback"))
    BY <1>3, <1>5 DEF ChronoRecord, ChronoAmbiguous, ChronoFallback
  <2> QED
    BY <1>2, <2>1, AnswerGoesOn
<1>6. CASE ChronoRaises
  <2>1. /\ job.pc = "fallback" /\ HandlerFrame /\ UNCHANGED <<flag, used, buttons, orphaned>>
        /\ (Event \/ NoEvent) /\ (SaveAnswer \/ UNCHANGED <<slot, answers>>)
        /\ Leave(FALSE)
    BY <1>3, <1>6 DEF ChronoRaises
  <2> QED
    BY <2>1, Leaves, AnswerGoesOn
<1> QED
  BY <1>4, <1>5, <1>6

LEMMA ProjectKeeps ==
    ASSUME IInv,
           \/ \E q \in Project : RouteProject(q) \/ RouteProjectQuestion(q)
           \/ ProjectClosed
    PROVE  IInv'
<1>1. JobOK /\ RowOK /\ job \in Job /\ buttons \subseteq Voice /\ used \subseteq Token
  BY JobFacts DEF JobOK
<1>2. ASSUME NEW q \in Project, RouteProject(q)
      PROVE  IInv'
  <2>1. Renewed("complete_project", q, "complete_project")
    BY <1>2 DEF RouteProject, Transition, Matches, Owns, Renewed
  <2>2. RowOK' /\ slot'.type = "complete_project" /\ slot'.token = slot.token
    BY <1>1, <2>1, Transitioned DEF WorkflowType
  <2>3. job' \in Job /\ job'.pc = "project" /\ job'.source = job.source /\ job'.voice = job.voice
    BY <1>1, <1>2, Tokens DEF RouteProject, Job, WorkflowType
  <2>4. Held' /\ JobOK'
    BY <1>1, <2>2, <2>3, HeldWhenOpen DEF JobOK
  <2>5. UNCHANGED <<flag, used, history>> /\ buttons' \subseteq Voice /\ NoEvent /\ HandlerFrame
    BY <1>1, <1>2 DEF RouteProject
  <2> QED
    BY <2>2, <2>4, <2>5, JobWritesOnly
<1>3. ASSUME NEW q \in Project, RouteProjectQuestion(q)
      PROVE  IInv'
  <2>1. RowOK' /\ slot'.type = "complete_project" /\ slot'.token = q /\ q \notin Chrono
    BY <1>3, Claimed, Tokens DEF RouteProjectQuestion, Claim, WorkflowType
  <2>2. Held'
    BY <2>1, HeldWhenOpen
  <2>3. TextGoesOn
    BY <1>3, Leaves DEF RouteProjectQuestion
  <2>4. JobWrites
    BY <1>1, <1>3, <2>1, <2>2, <2>3, Tokens, JobFacts
    DEF JobWrites, RouteProjectQuestion, Claim, TextGoesOn
  <2> QED
    BY <2>4, JobWritesKeeps
<1>4. CASE ProjectClosed
  <2>1. /\ HandlerFrame /\ UNCHANGED <<flag, used, history>> /\ NoEvent /\ buttons' \subseteq Voice
        /\ Clear("complete_project", job.token) /\ job.pc = "project" /\ TextGoesOn
    BY <1>1, <1>4, Leaves DEF ProjectClosed
  <2>2. slot' = slot => (ByJob => ByJob')
    BY <2>1, TextHeld
  <2> QED
    BY <2>1, <2>2, ClearKeeps DEF TextGoesOn
<1> QED
  BY <1>2, <1>3, <1>4

\* The end of a text that came from a voice dialogue.
LEMMA EndKeeps ==
    ASSUME IInv, EndEdit \/ EndVoice
    PROVE  IInv'
<1>1. JobOK /\ RowOK /\ buttons \subseteq Voice
  BY JobFacts
<1>2. /\ job.pc = "end" /\ JobOK' /\ UNCHANGED <<flag, used, history>> /\ NoEvent /\ HandlerFrame
  BY Nothing DEF EndEdit, EndVoice, JobOK
<1>3. CASE EndEdit
  <2>1. ~ByJob /\ buttons' \subseteq Voice
    BY <1>1, <1>3 DEF EndEdit, ByJob
  <2>2. CASE Clear("voice_edit", job.voice)
    BY <1>2, <2>1, <2>2, ClearKeeps
  <2>3. CASE UNCHANGED slot
    BY <1>2, <2>1, <2>3, JobMovesOnly
  <2> QED
    BY <1>3, <2>2, <2>3 DEF EndEdit
<1>4. CASE EndVoice
  <2>1. /\ job.source = "voice_processing" /\ job.voice \in Voice
        /\ (ByJob => slot.type = "voice_processing" /\ slot.token = job.voice)
    BY <1>1, <1>2, <1>4 DEF EndVoice, JobOK, ByJob
  <2>2. CASE Clear("voice_processing", job.voice) /\ UNCHANGED buttons
    <3>1. buttons' \subseteq Voice
      BY <1>1, <2>2
    <3> QED
      BY <1>2, <2>1, <2>2, <3>1, ClearKeeps
  <2>3. CASE /\ Transition("voice_processing", job.voice, "voice_confirm", TRUE)
             /\ buttons' \in {buttons, buttons \cup {job.voice}}
    <3>1. Renewed("voice_processing", job.voice, "voice_confirm")
      BY <2>3 DEF Transition, Matches, Owns, Renewed
    <3>2. RowOK' /\ slot'.type = "voice_confirm" /\ slot'.token = slot.token /\ slot'.message
      BY <1>1, <3>1, Transitioned DEF WorkflowType
    <3>3. Held' /\ buttons' \subseteq Voice
      BY <1>1, <2>1, <2>3, <3>2, HeldWhenOpen
    <3> QED
      BY <1>2, <3>2, <3>3, JobWritesOnly
  <2>4. CASE ~Matches("voice_processing", job.voice) /\ UNCHANGED <<slot, buttons>>
    <3>1. ~slot.live \/ ~ByJob
      BY <2>1, <2>4 DEF Matches, Owns
    <3>2. Held'
      BY <1>2, <2>4, <3>1, Facts DEF Held, ByPrompter, ByMemoirist, InTransit, HandlerFrame, history
    <3>3. Elsewhere
      BY <1>1, <1>2, <2>4, <3>2, Facts, JobFacts, Counts
      DEF Elsewhere, HandlerFrame, JobOK, TypeOK, Kinds, history, RowOK
    <3> QED
      BY <3>3, ElsewhereKeeps
  <2> QED
    BY <1>4, <2>2, <2>3, <2>4 DEF EndVoice
<1> QED
  BY <1>3, <1>4

-----------------------------------------------------------------------------
(* Faults, the clock and the process *)

LEMMA ErrorKeeps ==
    ASSUME IInv, HandlerDbError
    PROVE  IInv'
<1>1. JobOK /\ RowOK /\ orphaned \in BOOLEAN
  BY JobFacts
<1>2. /\ job.pc \in {"record", "clear", "end"} /\ job' = IdleJob /\ Event
      /\ UNCHANGED <<slot, flag, used, buttons, answers>> /\ HandlerFrame
  BY DEF HandlerDbError
<1>3. /\ orphaned' \in BOOLEAN /\ (orphaned => orphaned')
      /\ InTransit /\ ByJob => orphaned'
  <2>1. CASE job.pc = "end"
    <3>1. orphaned' = (orphaned \/ (InTransit /\ slot.token = job.voice))
      BY <2>1 DEF HandlerDbError, Abandon
    <3> QED
      BY <1>1, <2>1, <3>1 DEF ByJob
  <2>2. CASE job.pc # "end"
    <3>1. orphaned' = (orphaned \/ (InTransit /\ slot.token = job.token))
      BY <2>2 DEF HandlerDbError, Abandon
    <3> QED
      BY <1>1, <1>2, <2>2, <3>1 DEF ByJob, TextPc
  <2> QED
    BY <2>1, <2>2
<1>4. Held'
  BY <1>2, <1>3, Facts DEF Held, ByPrompter, ByMemoirist, InTransit, HandlerFrame
<1>5. RowOK' /\ JobOK'
  BY <1>1, <1>2, Nothing DEF RowOK, JobOK
<1>6. Elsewhere
  BY <1>1, <1>2, <1>3, <1>4, <1>5, Facts, JobFacts, Counts
  DEF Elsewhere, HandlerFrame, JobOK, TypeOK, Kinds
<1> QED
  BY <1>6, ElsewhereKeeps

\* A claim is committed and its answer lost.
LEMMA LostKeeps ==
    ASSUME IInv, Lost
    PROVE  IInv'
<1>1. /\ JobOK /\ RowOK /\ TypeOK /\ Kinds /\ OneQuestion /\ Fresh /\ buttons \subseteq Voice
      /\ used \subseteq Token
  BY Facts, JobFacts
<1>2. PICK q \in Token : \/ \E type \in {"chronometry", "memoir", "voice_confirm"} : ClaimLost(type, q)
                         \/ ConfirmLost(q)
  BY DEF Lost
<1>3. events' \in Nat
  BY <1>1, <1>2, Counts DEF ClaimLost, ConfirmLost
<1>4. ASSUME NEW type \in {"chronometry", "memoir", "voice_confirm"}, ClaimLost(type, q)
      PROVE  IInv'
  <2>1. /\ slot' = NewSlot(type, q) /\ orphaned' = TRUE
        /\ UNCHANGED <<flag, memoirist, job, prompted, asked, buttons, answers>>
    BY <1>4 DEF ClaimLost
  <2>2. RowOK' /\ slot'.type = type /\ slot'.token = q /\ slot'.live
    BY <2>1, Claimed DEF WorkflowType
  <2>3. Held'
    BY <2>1 DEF Held
  <2>4. CASE type = "chronometry"
    <3>1. /\ prompter.pc = "claim" /\ prompter.token = q /\ prompter' = IdleLoop /\ used' = used
      BY <1>4, <2>4 DEF ClaimLost
    <3>2. OneQuestion'
      BY <1>1, <2>1, <3>1, Nothing DEF OneQuestion, FlagMatchesRow, Active
    <3>3. Fresh'
      BY <1>1, <2>1, <2>2, <3>1, Nothing DEF Fresh
    <3>4. TypeOK' /\ Kinds'
      BY <1>1, <1>3, <2>1, <2>2, <3>1, Nothing DEF TypeOK, Kinds, RowOK
    <3> QED
      BY <2>3, <3>2, <3>3, <3>4 DEF IInv
  <2>5. CASE type # "chronometry"
    <3>1. /\ UNCHANGED prompter /\ used \subseteq used' /\ used' \subseteq Token
          /\ q \in Voice \cup Day
      BY <1>1, <1>4, <2>5 DEF ClaimLost
    <3>2. q \notin Chrono
      BY <3>1, Tokens
    <3>3. Elsewhere
      BY <1>1, <1>3, <2>1, <2>2, <2>3, <2>5, <3>1, <3>2, JobFacts DEF Elsewhere, JobOK, TypeOK, Kinds
    <3> QED
      BY <3>3, ElsewhereKeeps
  <2> QED
    BY <2>4, <2>5
<1>5. CASE ConfirmLost(q)
  <2>1. Renewed("voice_confirm", q, "voice_processing")
    BY <1>5 DEF ConfirmLost, Transition, Matches, Owns, Renewed
  <2>2. RowOK' /\ slot'.type = "voice_processing" /\ slot'.token = slot.token
    BY <1>1, <2>1, Transitioned DEF WorkflowType
  <2>3. /\ orphaned' = TRUE /\ UNCHANGED <<flag, job, used, answers>> /\ HandlerFrame
        /\ buttons' \subseteq Voice
    BY <1>1, <1>5 DEF ConfirmLost, MayHide
  <2>4. Held'
    BY <2>3 DEF Held
  <2>5. Elsewhere
    BY <1>1, <1>3, <2>2, <2>3, <2>4, JobFacts DEF Elsewhere, HandlerFrame, JobOK, TypeOK, Kinds
  <2> QED
    BY <2>5, ElsewhereKeeps
<1> QED
  BY <1>2, <1>4, <1>5

\* Time passes over a dialogue.
LEMMA ClockKeeps ==
    ASSUME IInv, Expire \/ Rotate
    PROVE  IInv'
<1>1. JobOK /\ RowOK /\ TypeOK /\ Kinds
  BY Facts, JobFacts
<1>2. UNCHANGED <<flag, prompter, memoirist, job, used, prompted, asked, buttons, events, answers, orphaned>>
  BY DEF Expire, Rotate, history
<1>3. RowOK' /\ ~slot'.live /\ (slot'.token = slot.token \/ slot'.token \notin Chrono)
  <2>1. CASE Expire
    BY <1>1, <2>1 DEF Expire, RowOK, Slot
  <2>2. CASE Rotate
    BY <2>2, SlotEmptied, Nothing, Tokens DEF Rotate
  <2> QED
    BY <2>1, <2>2
<1>4. Elsewhere
  BY <1>1, <1>2, <1>3, JobFacts, HeldWhenOpen DEF Elsewhere, JobOK, TypeOK, Kinds
<1> QED
  BY <1>4, ElsewhereKeeps

\* The process starts again: what was in the making is put down, or has lost its worker.
LEMMA CrashKeeps ==
    ASSUME IInv, Crash
    PROVE  IInv'
<1>1. JobOK /\ RowOK /\ TypeOK /\ Kinds /\ Fresh /\ orphaned \in BOOLEAN
  BY Facts, JobFacts
<1>2. /\ flag' = NoToken /\ prompter' = IdleLoop /\ memoirist' = IdleLoop /\ job' = IdleJob
      /\ UNCHANGED <<used, prompted, asked, buttons, answers>> /\ Recover
      /\ orphaned' = (slot.type # "voice_processing" /\ (orphaned \/ InTransit))
  BY DEF Crash
<1>3. events' \in Nat /\ orphaned' \in BOOLEAN
  BY <1>1, <1>2, Counts DEF Crash
<1>4. RowOK' /\ slot'.token = slot.token /\ Held'
  <2>1. CASE slot.type = "voice_processing"
    <3>1. slot' = [slot EXCEPT !.type = "voice_confirm", !.recovered = TRUE]
      BY <1>2, <2>1 DEF Recover
    <3>2. /\ slot' \in Slot /\ slot'.type = "voice_confirm" /\ slot'.token = slot.token
          /\ slot'.message
      BY <1>1, <2>1, <3>1 DEF RowOK, Slot, WorkflowType
    <3> QED
      BY <1>1, <2>1, <3>2, HeldWhenOpen DEF RowOK
  <2>2. CASE slot.type # "voice_processing"
    <3>1. slot' = slot
      BY <1>2, <2>2 DEF Recover
    <3>2. InTransit' => orphaned'
      BY <1>2, <2>2, <3>1 DEF InTransit
    <3> QED
      BY <1>1, <3>1, <3>2 DEF RowOK, Held
  <2> QED
    BY <2>1, <2>2
<1>5. TypeOK' /\ Kinds'
  BY <1>1, <1>2, <1>3, <1>4, Nothing DEF TypeOK, Kinds, RowOK
<1>6. OneQuestion' /\ Fresh'
  BY <1>1, <1>2, <1>4, Nothing DEF OneQuestion, FlagMatchesRow, Fresh
<1> QED
  BY <1>4, <1>5, <1>6 DEF IInv

-----------------------------------------------------------------------------
(* The invariant *)

LEMMA InitIInv == Init => IInv
<1> SUFFICES ASSUME Init PROVE IInv
  OBVIOUS
<1>1. /\ slot = NoSlot /\ flag = NoToken /\ prompter = IdleLoop /\ memoirist = IdleLoop
      /\ job = IdleJob /\ answers = [q \in Chrono \cup Day |-> 0]
  BY DEF Init
<1>2. TypeOK
  <2>1. answers \in [Chrono \cup Day -> Nat] /\ events \in Nat
    BY <1>1 DEF Init
  <2> QED
    BY <1>1, <2>1, Nothing DEF Init, TypeOK
<1>3. Kinds /\ OneQuestion /\ Held
  BY <1>1, Nothing DEF Kinds, OneQuestion, FlagMatchesRow, Active, Held
<1>4. Fresh
  BY <1>1, Nothing, Tokens DEF Fresh
<1> QED
  BY <1>2, <1>3, <1>4 DEF IInv

LEMMA HandleKeeps ==
    ASSUME IInv, Update \/ Handle
    PROVE  IInv'
BY VoiceKeeps, ButtonKeeps, TextKeeps, AnswerKeeps, ProjectKeeps, EndKeeps, ErrorKeeps
DEF Update, Handle

LEMMA NextIInv == IInv /\ [Next]_vars => IInv'
<1> SUFFICES ASSUME IInv, [Next]_vars PROVE IInv'
  OBVIOUS
<1>1. CASE Next
  BY <1>1, PromptingKeeps, MemoirKeeps, HandleKeeps, LostKeeps, ClockKeeps, CrashKeeps DEF Next
<1>2. CASE UNCHANGED vars
  BY <1>2 DEF vars, IInv, TypeOK, Kinds, OneQuestion, FlagMatchesRow, Active, Held, InTransit,
              ByPrompter, ByMemoirist, ByJob, Fresh
<1> QED
  BY <1>1, <1>2

\* The row, the flag and the workers agree in every reachable state, whoever fails, expires
\* or is restarted, and whenever.
THEOREM Invariance == Spec => []IInv
<1> QED
  BY InitIInv, NextIInv, PTL DEF Spec

\* The flag in memory never stands for another question than the row in the table.
THEOREM FlagAgrees == Spec => []FlagAndRowAgree
<1>1. IInv => FlagAndRowAgree
  BY DEF IInv, OneQuestion, FlagAndRowAgree
<1> QED
  BY <1>1, Invariance, PTL

\* A dialogue that is being set up or carried out has its worker, unless a fault cut it off.
THEOREM NothingIsOrphaned == Spec => []NothingOrphaned
<1>1. IInv => NothingOrphaned
  BY DEF IInv, Held, ByPrompter, ByMemoirist, ByJob, NothingOrphaned
<1> QED
  BY <1>1, Invariance, PTL

\* A live dialogue is closed or replaced by nobody but a worker that holds its token.
THEOREM OnlyOwnersClose == Spec => OnlyItsOwner
<1> DEFINE Owner == slot.token \in {prompter.token, memoirist.token, job.token, job.voice}
<1>1. IInv /\ [Next]_vars => [slot.live /\ slot'.token # slot.token => Owner]_vars
  <2> SUFFICES ASSUME IInv, Next, slot.live, slot'.token # slot.token
               PROVE  Owner
    BY DEF vars
  <2>1. RowOK
    BY Facts
  <2>2. ASSUME NEW type, NEW token, Clear(type, token)
        PROVE  slot.token = token
    BY <2>1, <2>2, Cleared
  <2>3. ASSUME NEW type \in WorkflowType, NEW token, NEW next \in WorkflowType,
               Renewed(type, token, next)
        PROVE  FALSE
    BY <2>1, <2>3, Transitioned
  <2>4. SaveAnswer => slot.token = job.token
    BY DEF SaveAnswer, Owns
  <2>5. CASE Prompting
    <3>1. CASE AskClear
      BY <2>2, <3>1 DEF AskClear
    <3>2. CASE AskRecord
      <4>1. Renewed("chronometry", prompter.token, "chronometry")
        BY <3>2 DEF AskRecord, Transition, Matches, Owns, Renewed
      <4> QED
        BY <2>3, <4>1 DEF WorkflowType
    <3> QED
      BY <2>5, <3>1, <3>2
      DEF Prompting, Ask, AskClaim, Claim, AskBusy, AskSend, AskSendFails, AskDbError, ForgetStale
  <2>6. CASE Memoir
    <3>1. CASE MemoirClear
      BY <2>2, <3>1 DEF MemoirClear
    <3>2. CASE MemoirRecord
      <4>1. Renewed("memoir", memoirist.token, "memoir")
        BY <3>2 DEF MemoirRecord, Transition, Matches, Owns, Renewed
      <4> QED
        BY <2>3, <4>1 DEF WorkflowType
    <3> QED
      BY <2>6, <3>1, <3>2
      DEF Memoir, MemoirClaim, Claim, MemoirDeliver, MemoirDeliverFails, MemoirMark, MemoirDbError
  <2>7. CASE Update
    <3>1. ASSUME NEW q \in Voice, Confirm(q) \/ Edit(q)
          PROVE  FALSE
      <4>1. \/ Renewed("voice_confirm", q, "voice_processing")
            \/ Renewed("voice_confirm", q, "voice_edit")
        BY <3>1 DEF Confirm, Edit, Transition, Matches, Owns, Renewed
      <4> QED
        BY <2>3, <4>1 DEF WorkflowType
    <3> QED
      BY <2>7, <3>1 DEF Update, VoiceMessage, Claim, Dismiss, Cancel, Text
  <2>8. CASE Handle
    <3>1. CASE ClearDialogue \/ ProjectClosed \/ EndEdit
      BY <2>2, <3>1 DEF ClearDialogue, ProjectClosed, EndEdit
    <3>2. CASE VoiceRecord
      <4>1. Renewed("voice_confirm", job.token, "voice_confirm")
        BY <3>2 DEF VoiceRecord, Transition, Matches, Owns, Renewed
      <4> QED
        BY <2>3, <4>1 DEF WorkflowType
    <3>3. ASSUME NEW q \in Project, RouteProject(q)
          PROVE  FALSE
      <4>1. Renewed("complete_project", q, "complete_project")
        BY <3>3 DEF RouteProject, Transition, Matches, Owns, Renewed
      <4> QED
        BY <2>3, <4>1 DEF WorkflowType
    <3>4. CASE EndVoice
      <4>1. CASE Clear("voice_processing", job.voice)
        BY <2>2, <4>1
      <4>2. CASE Transition("voice_processing", job.voice, "voice_confirm", TRUE)
        <5>1. Renewed("voice_processing", job.voice, "voice_confirm")
          BY <4>2 DEF Transition, Matches, Owns, Renewed
        <5> QED
          BY <2>3, <5>1 DEF WorkflowType
      <4> QED
        BY <3>4, <4>1, <4>2 DEF EndVoice
    <3>5. CASE SaveMemoir \/ SaveMemoirDbError \/ ChronoRecord \/ ChronoAmbiguous \/ ChronoFallback
               \/ ChronoRaises
      BY <2>4, <3>5 DEF SaveMemoir, SaveMemoirDbError, ChronoRecord, ChronoAmbiguous,
                        ChronoFallback, ChronoRaises, ChronoEntry
    <3> QED
      BY <2>8, <3>1, <3>2, <3>3, <3>4, <3>5
      DEF Handle, VoiceSend, VoiceSendFails, Announce, RouteMemoir, RouteProjectQuestion, Claim,
          RouteChrono, RouteElsewhere, ProjectFails, ChronoFails, Forget, HandlerDbError
  <2>9. CASE Lost
    <3>1. ASSUME NEW q \in Token, ConfirmLost(q)
          PROVE  FALSE
      <4>1. Renewed("voice_confirm", q, "voice_processing")
        BY <3>1 DEF ConfirmLost, Transition, Matches, Owns, Renewed
      <4> QED
        BY <2>3, <4>1 DEF WorkflowType
    <3> QED
      BY <2>9, <3>1 DEF Lost, ClaimLost
  <2>10. CASE Expire \/ Rotate \/ Crash
    BY <2>1, <2>10 DEF Expire, Rotate, Crash, Recover, RowOK, Slot
  <2> QED
    BY <2>5, <2>6, <2>7, <2>8, <2>9, <2>10 DEF Next
<1> QED
  BY <1>1, Invariance, PTL DEF Spec, OnlyItsOwner

\* An answer is saved only for the question in the row, which it closes; a question of
\* chronometry is answered once, also when a commit has lost its answer.
THEOREM OneAnswer == Spec => AnsweredOnce
<1> DEFINE Once == \A q \in Chrono \cup Day : answers'[q] # answers[q]
                      => slot.token = q /\ slot'.token # q /\ (q \in Chrono => answers[q] = 0)
<1>1. IInv /\ [Next]_vars => [Once]_vars
  <2> SUFFICES ASSUME IInv, Next, NEW q \in Chrono \cup Day, answers'[q] # answers[q]
               PROVE  slot.token = q /\ slot'.token # q /\ (q \in Chrono => answers[q] = 0)
    BY DEF vars
  <2>1. SaveAnswer
    <3>1. CASE Prompting
      BY <3>1 DEF Prompting, Ask, AskClaim, AskBusy, AskSend, AskSendFails, AskClear, AskRecord,
                  AskDbError, ForgetStale, PrompterFrame
    <3>2. CASE Memoir
      BY <3>2 DEF Memoir, MemoirClaim, MemoirDeliver, MemoirDeliverFails, MemoirRecord, MemoirClear,
                  MemoirMark, MemoirDbError, MemoirFrame
    <3>3. CASE Update
      BY <3>3 DEF Update, VoiceMessage, Confirm, Edit, Dismiss, Cancel, Text, history
    <3>4. CASE Handle
      BY <3>4 DEF Handle, VoiceSend, VoiceSendFails, VoiceRecord, Announce, ClearDialogue, RouteMemoir,
                  RouteProject, RouteProjectQuestion, RouteChrono, RouteElsewhere, SaveMemoir,
                  SaveMemoirDbError, ProjectClosed, ProjectFails, ChronoRecord, ChronoFails,
                  ChronoAmbiguous, ChronoFallback, ChronoRaises, ChronoEntry, Forget, EndEdit,
                  EndVoice, HandlerDbError, history
    <3>5. CASE Lost \/ Expire \/ Rotate \/ Crash
      BY <3>5 DEF Lost, ClaimLost, ConfirmLost, Expire, Rotate, Crash, history
    <3> QED
      BY <3>1, <3>2, <3>3, <3>4, <3>5 DEF Next
  <2>2. answers \in [Chrono \cup Day -> Nat]
    BY JobFacts
  <2>3. slot.token = q /\ slot'.token = NoToken
    BY <2>1, <2>2, Nothing DEF SaveAnswer, Owns
  <2>4. slot'.token # q
    BY <2>3, Nothing, Tokens
  <2>5. q \in Chrono => answers[q] = 0
    BY <2>3 DEF IInv, Fresh
  <2> QED
    BY <2>3, <2>4, <2>5
<1> QED
  BY <1>1, Invariance, PTL DEF Spec, AnsweredOnce
===============================================================================

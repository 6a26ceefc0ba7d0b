-------------------------- MODULE SessionProjection --------------------------
(***************************************************************************)
(* How two clients that watch one task fold the events of its runtimes:    *)
(* the desktop (Waku::handle_driver_event) and the phone (event-reducer.ts *)
(* with the steering case of runtime-context.tsx).  Both get every event,  *)
(* in the same order, so a step is one event folded by both.               *)
(*                                                                         *)
(* A view is what the transcript is made of: its turns, its messages and   *)
(* the session's status.  Reasoning and activities are one kind of event   *)
(* here, which only interrupts the text; deltas are not blank.  What a     *)
(* client does on its own (submit, cancel, answer, set a goal) is left     *)
(* out: these clients watch another one work.  The drivers of ten          *)
(* providers send the events, here in any order at all.                    *)
(***************************************************************************)
EXTENDS Naturals, Sequences

CONSTANTS
  Providers,  \* of the kinds "claude" (or Codex) and "opencode", which start
              \* turns on their own, and "other"
  MaxTurns,   \* bound: turns of a view
  MaxRows,    \* bound: messages of a view
  MaxPrompts  \* bound: prompts submitted

ASSUME ConstantsAssumption ==
  /\ Providers \subseteq {"claude", "opencode", "other"}
  /\ {MaxTurns, MaxRows, MaxPrompts} \subseteq Nat

VARIABLES
  provider, \* of the task
  desktop,  \* AgentSession in the desktop's PersistedState
  phase,    \* SessionRuntime.stream_phase
  phone,    \* AgentSession in the phone's cache
  asking,   \* which of them shows a permission or a question
  prompts,  \* prompts submitted so far
  aligned   \* no event came that the two handle differently

vars == <<provider, desktop, phase, phone, asking, prompts, aligned>>

-----------------------------------------------------------------------------
(* Values.                                                                 *)

Statuses     == {"idle", "connecting", "working", "waiting", "background", "failed"}
TurnStatuses == {"running", "completed", "failed"}
Phases       == {"none", "text", "work"}

\* A message: its turn is a position, 0 for none, and a prompt's number tells
\* it from the others.
Rows  == [role : {"user", "assistant"}, turn : 0..MaxTurns, streaming : BOOLEAN,
          prompt : 0..MaxPrompts]
Views == [status : Statuses, turns : Seq(TurnStatuses), started : BOOLEAN, rows : Seq(Rows)]

is_busy(v) == v.status \in {"connecting", "working", "waiting", "background"}

\* The last turn is running: active_turn_id.
Active(v) == v.turns # <<>> /\ v.turns[Len(v.turns)] = "running"
ActiveTurn(v) == IF Active(v) THEN Len(v.turns) ELSE 0

InTurn(v, role) ==
  \E k \in DOMAIN v.rows : v.rows[k].role = role /\ v.rows[k].turn = Len(v.turns)

-----------------------------------------------------------------------------
(* What both do to a view.                                                 *)

Push(v, role, turn, streaming, prompt) ==
  [v EXCEPT !.rows = Append(@, [role |-> role, turn |-> turn, streaming |-> streaming,
                                prompt |-> prompt])]

Begin(v, started, status) ==
  [v EXCEPT !.turns = Append(@, "running"), !.started = started, !.status = status]

\* finish_streaming_assistant.
StopText(v) == [v EXCEPT !.rows = [k \in DOMAIN @ |-> [@[k] EXCEPT !.streaming = FALSE]]]

Connected(v) == IF v.status = "connecting" THEN [v EXCEPT !.status = "working"] ELSE v

\* adopt_submitted_prompt of prompt n.
adopt_submitted_prompt(v, n) ==
  IF ~Active(v)
  THEN Push(Begin(v, FALSE, "connecting"), "user", Len(v.turns) + 1, FALSE, n)
  ELSE IF InTurn(v, "user") THEN v
  ELSE Push(v, "user", Len(v.turns), FALSE, n)

TurnStarted(v, ownTurn) ==
  IF Active(v) THEN [v EXCEPT !.started = TRUE, !.status = "working"]
  ELSE IF ownTurn THEN Begin(v, TRUE, "working") ELSE v

TurnParked(v) == IF Active(v) THEN [StopText(v) EXCEPT !.status = "background"] ELSE v

\* Mutant: the turn settles without a word.
SettleSilently(v, outcome) ==
  [StopText(v) EXCEPT !.turns[Len(v.turns)] = outcome,
                      !.status = IF outcome = "completed" THEN "idle" ELSE "failed"]

\* Mutant: text goes on streaming.
SettleMidStream(v, outcome) ==
  LET told == IF InTurn(v, "assistant") THEN v
              ELSE Push(v, "assistant", Len(v.turns), FALSE, 0)
  IN  [told EXCEPT !.turns[Len(v.turns)] = outcome,
                   !.status = IF outcome = "completed" THEN "idle" ELSE "failed"]

\* A turn settles, with a message when it has none.
Settle(v, outcome) ==
  LET quiet == StopText(v)
      told  == IF InTurn(v, "assistant") THEN quiet
               ELSE Push(quiet, "assistant", Len(v.turns), FALSE, 0)
  IN  [told EXCEPT !.turns[Len(v.turns)] = outcome,
                   !.status = IF outcome = "completed" THEN "idle" ELSE "failed"]

\* Mutant: a late end settles the last turn again.
FinishAgain(v, outcome) == IF v.turns # <<>> THEN Settle(v, outcome) ELSE v

TurnFinished(v, outcome) == IF Active(v) THEN Settle(v, outcome) ELSE v

\* An error while the turn works is only shown.  (No watcher has a turn that
\* unwind_unconfirmed_pursuit_turn would take back.)
Error(v) ==
  IF ~Active(v) \/ v.status = "working" THEN v
  ELSE LET failed == [v EXCEPT !.status = "failed"] IN
       IF InTurn(v, "assistant") THEN failed
       ELSE Push(failed, "assistant", Len(v.turns), FALSE, 0)

-----------------------------------------------------------------------------
(* The desktop.                                                            *)

accepts_turn_output(v) == Active(v) /\ is_busy(v)

\* session_accepts_turn_output repairs what a missed TurnStarted left.
Repaired(v) == [Connected(v) EXCEPT !.started = TRUE]

\* append_text_delta: the stream phase decides whether the text goes on.
DesktopText(v) ==
  IF phase = "text" /\ \E k \in DOMAIN v.rows : v.rows[k].streaming THEN v
  ELSE Push(IF phase = "text" THEN v ELSE StopText(v), "assistant", ActiveTurn(v), TRUE, 0)

\* Mutant: the turn is interrupted, as that of an orphaned runtime is.
ExitInterrupts(v) ==
  IF is_busy(v) /\ Active(v) THEN Settle(v, "interrupted") ELSE StopText(v)

\* ProcessExited settles the turn of a session that counts as busy.
DesktopExit(v) ==
  IF is_busy(v) /\ Active(v) THEN Settle(v, "failed") ELSE StopText(v)

-----------------------------------------------------------------------------
(* The phone.                                                              *)

\* Mutant: every delta is a message of its own.
PhoneTextAnew(v) == Push(StopText(v), "assistant", ActiveTurn(v), TRUE, 0)

\* appendText: the last message decides.
PhoneText(v) ==
  IF v.rows # <<>> /\ v.rows[Len(v.rows)].role = "assistant" /\ v.rows[Len(v.rows)].streaming THEN v
  ELSE Push(v, "assistant", ActiveTurn(v), TRUE, 0)

\* settleTurn.
PhoneExit(v) == IF Active(v) THEN Settle(v, "failed") ELSE StopText(v)

-----------------------------------------------------------------------------
(* The events.                                                             *)

Streaming(v) == \E k \in DOMAIN v.rows : v.rows[k].streaming

\* Both fold the event, within the bounds; it keeps them aligned unless it is
\* one of the cases they handle differently.
Fold(d, w, differently) ==
  /\ \A v \in {d, w} : Len(v.turns) <= MaxTurns /\ Len(v.rows) <= MaxRows
  /\ desktop' = d
  /\ phone' = w
  /\ aligned' = (aligned /\ ~differently)
  /\ UNCHANGED provider

Ask(d, w) == asking' = [desktop |-> d, phone |-> w]

OnConnected ==
  /\ Fold(Connected(desktop), Connected(phone), FALSE)
  /\ UNCHANGED <<phase, asking, prompts>>

\* Text that streams on around a prompt stays in one message on the desktop.
OnPromptSubmitted ==
  /\ prompts < MaxPrompts
  /\ prompts' = prompts + 1
  /\ Fold(adopt_submitted_prompt(desktop, prompts'), adopt_submitted_prompt(phone, prompts'),
          Active(phone) /\ ~InTurn(phone, "user") /\ Streaming(phone))
  /\ UNCHANGED <<phase, asking>>

\* The message of a steer lands in the running turn, or on the desktop in none
\* and on the phone in the last one.
OnSteerAccepted ==
  /\ prompts < MaxPrompts
  /\ prompts' = prompts + 1
  /\ Fold(Push(desktop, "user", ActiveTurn(desktop), FALSE, prompts'),
          Push(phone, "user", Len(phone.turns), FALSE, prompts'),
          Streaming(phone) \/ (phone.turns # <<>> /\ ~Active(phone)))
  /\ UNCHANGED <<phase, asking>>

\* The phone does not expect OpenCode to start a turn.
OnTurnStarted ==
  /\ Fold(TurnStarted(desktop, provider # "other"),
          TurnStarted(phone, provider = "claude" /\ ~is_busy(phone)),
          provider = "opencode" /\ ~Active(phone))
  /\ Ask(asking.desktop, FALSE)
  /\ UNCHANGED <<phase, prompts>>

OnTurnParked ==
  /\ Fold(TurnParked(desktop), TurnParked(phone), FALSE)
  /\ phase' = IF Active(desktop) THEN "none" ELSE phase
  /\ UNCHANGED <<asking, prompts>>

\* Output of a turn whose TurnStarted is missing.
Early == accepts_turn_output(phone) /\ ~phone.started

OnTextDelta ==
  /\ Fold(IF accepts_turn_output(desktop) THEN DesktopText(Repaired(desktop)) ELSE desktop,
          IF accepts_turn_output(phone) THEN PhoneText(phone) ELSE phone,
          Early)
  /\ phase' = IF accepts_turn_output(desktop) THEN "text" ELSE phase
  /\ Ask(asking.desktop, FALSE)
  /\ UNCHANGED prompts

\* ReasoningDelta, after which the phone asks no more, Activity and RichActivity.
OnWork ==
  /\ Fold(IF ~accepts_turn_output(desktop) THEN desktop
          ELSE IF phase = "text" THEN StopText(Repaired(desktop)) ELSE Repaired(desktop),
          IF accepts_turn_output(phone) THEN StopText(phone) ELSE phone,
          Early)
  /\ phase' = IF accepts_turn_output(desktop) THEN "work" ELSE phase
  /\ Ask(asking.desktop, FALSE) \/ UNCHANGED asking
  /\ UNCHANGED prompts

\* Permission and UserInputRequested.
OnRequest ==
  /\ Fold(IF accepts_turn_output(desktop)
          THEN [Repaired(desktop) EXCEPT !.status = "waiting"] ELSE desktop,
          IF accepts_turn_output(phone) THEN [phone EXCEPT !.status = "waiting"] ELSE phone,
          Early)
  /\ Ask(asking.desktop \/ accepts_turn_output(desktop), asking.phone \/ accepts_turn_output(phone))
  /\ UNCHANGED <<phase, prompts>>

OnTurnFinished(outcome) ==
  /\ Fold(TurnFinished(desktop, outcome), TurnFinished(phone, outcome), FALSE)
  /\ phase' = IF Active(desktop) THEN "none" ELSE phase
  /\ Ask(asking.desktop /\ ~Active(desktop), FALSE)
  /\ UNCHANGED prompts

OnError ==
  /\ Fold(Error(desktop), Error(phone), FALSE)
  /\ UNCHANGED <<phase, asking, prompts>>

\* The runtime ends; one that a client starts later sends events as well.
OnProcessExited ==
  /\ Fold(DesktopExit(desktop), PhoneExit(phone), Active(phone) /\ ~is_busy(phone))
  /\ phase' = "none"
  /\ Ask(FALSE, FALSE)
  /\ UNCHANGED prompts

-----------------------------------------------------------------------------
Init ==
  /\ provider \in Providers
  /\ desktop = [status |-> "idle", turns |-> <<>>, started |-> FALSE, rows |-> <<>>]
  /\ phone = desktop
  /\ phase = "none"
  /\ asking = [desktop |-> FALSE, phone |-> FALSE]
  /\ prompts = 0
  /\ aligned = TRUE

Next ==
  \/ OnConnected \/ OnPromptSubmitted \/ OnSteerAccepted
  \/ OnTurnStarted \/ OnTurnParked
  \/ OnTextDelta \/ OnWork \/ OnRequest
  \/ \E outcome \in {"completed", "failed"} : OnTurnFinished(outcome)
  \/ OnError \/ OnProcessExited

Spec == Init /\ [][Next]_vars

-----------------------------------------------------------------------------
(* Properties.                                                             *)

TypeOK ==
  /\ provider \in Providers
  /\ desktop \in Views /\ phone \in Views
  /\ phase \in Phases
  /\ asking \in [{"desktop", "phone"} -> BOOLEAN]
  /\ prompts \in 0..MaxPrompts
  /\ aligned \in BOOLEAN

\* Until one of the cases that the two reducers handle differently comes up,
\* the desktop and the phone show the same transcript and the same status.
SameTranscript == aligned => desktop = phone

\* Whatever order the events come in, only the newest turn of a view can be
\* running, every settled turn has an answer, and a busy task has a turn.
TurnsInOrder ==
  \A v \in {desktop, phone} :
    /\ \A n \in DOMAIN v.turns : v.turns[n] = "running" => n = Len(v.turns)
    /\ \A n \in DOMAIN v.turns :
         v.turns[n] # "running" =>
           \E k \in DOMAIN v.rows : v.rows[k].role = "assistant" /\ v.rows[k].turn = n
    /\ is_busy(v) => Active(v)

Frozen(v, w) ==
  /\ Len(v.turns) <= Len(w.turns)
  /\ \A n \in DOMAIN v.turns :
       v.turns[n] # "running" =>
         /\ w.turns[n] = v.turns[n]
         /\ \A k \in DOMAIN w.rows :
              w.rows[k].role = "assistant" /\ w.rows[k].turn = n => k \in DOMAIN v.rows

\* A settled turn stays as it is: a late end, or late output, changes neither
\* its outcome nor its answer.
SettledStaysSettled == [][Frozen(desktop, desktop') /\ Frozen(phone, phone')]_vars

\* A client asks its user something only while a turn runs, and text streams
\* only into the running turn.
NothingOutlivesItsTurn ==
  /\ asking.desktop => Active(desktop)
  /\ asking.phone => Active(phone)
  /\ \A v \in {desktop, phone} : \A k \in DOMAIN v.rows :
       v.rows[k].streaming => v.rows[k].turn = ActiveTurn(v) /\ Active(v)
=============================================================================

---------------------- MODULE SessionProjectionProofs ----------------------
(***************************************************************************)
(* What SessionProjection guarantees for any providers and any number of   *)
(* turns, messages and prompts.                                            *)
(***************************************************************************)
EXTENDS SessionProjection, TLAPS

-----------------------------------------------------------------------------
(* Views.                                                                  *)

LEMMA ViewParts ==
  ASSUME NEW v \in Views
  PROVE  /\ v.status \in Statuses /\ v.started \in BOOLEAN
         /\ v.turns \in Seq(TurnStatuses) /\ Len(v.turns) \in Nat
         /\ DOMAIN v.turns = 1..Len(v.turns)
         /\ v.rows \in Seq(Rows) /\ Len(v.rows) \in Nat /\ DOMAIN v.rows = 1..Len(v.rows)
         /\ \A k \in 1..Len(v.rows) : v.rows[k] \in Rows
BY DEF Views

LEMMA PushView ==
  ASSUME NEW v \in Views, NEW role \in {"user", "assistant"}, NEW turn \in 0..MaxTurns,
         NEW streaming \in BOOLEAN, NEW n \in 0..MaxPrompts,
         NEW w, w = Push(v, role, turn, streaming, n)
  PROVE  /\ w \in Views /\ w.status = v.status /\ w.started = v.started /\ w.turns = v.turns
         /\ Len(w.rows) = Len(v.rows) + 1
         /\ \A k \in 1..Len(v.rows) : w.rows[k] = v.rows[k]
         /\ w.rows[Len(w.rows)] =
              [role |-> role, turn |-> turn, streaming |-> streaming, prompt |-> n]
<1> DEFINE r == [role |-> role, turn |-> turn, streaming |-> streaming, prompt |-> n]
<1>1. r \in Rows
  BY DEF Rows
<1>2. w = [v EXCEPT !.rows = Append(v.rows, r)]
  BY DEF Push
<1>3. Append(v.rows, r) \in Seq(Rows) /\ Len(Append(v.rows, r)) = Len(v.rows) + 1
      /\ \A k \in 1..Len(v.rows) : Append(v.rows, r)[k] = v.rows[k]
      /\ Append(v.rows, r)[Len(v.rows) + 1] = r
  BY <1>1, ViewParts
<1> HIDE DEF r
<1>4. w.rows = Append(v.rows, r) /\ w.turns = v.turns /\ w.status = v.status
      /\ w.started = v.started /\ w \in Views
  BY <1>2, <1>3 DEF Views
<1>5. w.rows[Len(w.rows)] = r
  BY <1>3, <1>4
<1> QED
  BY <1>3, <1>4, <1>5 DEF r

LEMMA StopTextView ==
  ASSUME NEW v \in Views, NEW w, w = StopText(v)
  PROVE  /\ w \in Views /\ w.status = v.status /\ w.started = v.started /\ w.turns = v.turns
         /\ Len(w.rows) = Len(v.rows)
         /\ \A k \in 1..Len(v.rows) :
              /\ w.rows[k].role = v.rows[k].role /\ w.rows[k].turn = v.rows[k].turn
              /\ w.rows[k].streaming = FALSE
<1> DEFINE rows == [k \in DOMAIN v.rows |-> [v.rows[k] EXCEPT !.streaming = FALSE]]
<1>1. \A k \in 1..Len(v.rows) :
        /\ v.rows[k] \in Rows /\ [v.rows[k] EXCEPT !.streaming = FALSE] \in Rows
        /\ [v.rows[k] EXCEPT !.streaming = FALSE].role = v.rows[k].role
        /\ [v.rows[k] EXCEPT !.streaming = FALSE].turn = v.rows[k].turn
        /\ [v.rows[k] EXCEPT !.streaming = FALSE].streaming = FALSE
  BY ViewParts DEF Rows
<1>2. rows \in Seq(Rows) /\ Len(rows) = Len(v.rows)
      /\ \A k \in 1..Len(v.rows) : rows[k] = [v.rows[k] EXCEPT !.streaming = FALSE]
  <2> DEFINE n == Len(v.rows)
             Quiet(k) == [v.rows[k] EXCEPT !.streaming = FALSE]
  <2>1. n \in Nat /\ \A k \in 1..n : Quiet(k) \in Rows
    BY <1>1, ViewParts
  <2>2. rows = [k \in 1..n |-> Quiet(k)]
    BY ViewParts
  <2> HIDE DEF n, Quiet, rows
  <2>3. rows \in Seq(Rows) /\ Len(rows) = n /\ \A k \in 1..n : rows[k] = Quiet(k)
    BY <2>1, <2>2
  <2> QED
    BY <2>3 DEF n, Quiet
<1>3. w = [v EXCEPT !.rows = rows]
  BY DEF StopText
<1> HIDE DEF rows
<1>4. w.rows = rows /\ w.turns = v.turns /\ w.status = v.status
      /\ w.started = v.started /\ w \in Views
  BY <1>2, <1>3 DEF Views
<1> QED
  BY <1>1, <1>2, <1>4

\* Stopping what does not stream changes nothing.
LEMMA StopTextQuiet ==
  ASSUME NEW v \in Views, \A k \in 1..Len(v.rows) : ~v.rows[k].streaming
  PROVE  StopText(v) = v
<1> DEFINE rows == [k \in DOMAIN v.rows |-> [v.rows[k] EXCEPT !.streaming = FALSE]]
<1>1. \A k \in 1..Len(v.rows) : [v.rows[k] EXCEPT !.streaming = FALSE] = v.rows[k]
  BY ViewParts DEF Rows
<1>2. rows = v.rows
  <2>1. v.rows = [k \in DOMAIN v.rows |-> v.rows[k]] /\ DOMAIN v.rows = 1..Len(v.rows)
    BY ViewParts
  <2>2. rows = [k \in DOMAIN v.rows |-> v.rows[k]]
    BY <1>1, <2>1
  <2> QED
    BY <2>1, <2>2
<1> QED
  BY <1>2 DEF StopText, Views

-----------------------------------------------------------------------------
(* What holds of each view, and how a view may change.                     *)

Answered(v, n) ==
  \E k \in 1..Len(v.rows) : v.rows[k].role = "assistant" /\ v.rows[k].turn = n

ViewInv(v) ==
  /\ v \in Views /\ Len(v.turns) <= MaxTurns
  /\ \A n \in 1..Len(v.turns) : v.turns[n] = "running" => n = Len(v.turns)
  /\ \A n \in 1..Len(v.turns) : v.turns[n] # "running" => Answered(v, n)
  /\ is_busy(v) => Active(v)
  /\ \A k \in 1..Len(v.rows) : v.rows[k].streaming =>
       Active(v) /\ v.rows[k].turn = Len(v.turns) /\ v.rows[k].role = "assistant"
  /\ Active(v) /\ v.started => v.status # "connecting"

\* Messages are added, an answer only to the running turn, and streaming ones
\* stop; a turn begins when none runs, and the running one settles answered.
Evolves(v, w) ==
  /\ w \in Views /\ Len(w.turns) <= MaxTurns
  /\ Len(v.rows) <= Len(w.rows)
  /\ \A k \in 1..Len(v.rows) :
       /\ w.rows[k].role = v.rows[k].role /\ w.rows[k].turn = v.rows[k].turn
       /\ w.rows[k].streaming => v.rows[k].streaming
  /\ \A k \in 1..Len(w.rows) : k > Len(v.rows) =>
       /\ w.rows[k].role = "assistant" => Active(v) /\ w.rows[k].turn = Len(v.turns)
       /\ w.rows[k].streaming => w.rows[k].role = "assistant"
  /\ \/ w.turns = v.turns
     \/ ~Active(v) /\ w.turns = Append(v.turns, "running")
     \/ /\ Active(v)
        /\ \E o \in {"completed", "failed"} : w.turns = [v.turns EXCEPT ![Len(v.turns)] = o]
        /\ \A k \in 1..Len(w.rows) : ~w.rows[k].streaming
        /\ Answered(w, Len(v.turns))
  /\ is_busy(w) => Active(w)
  /\ Active(w) /\ w.started => w.status # "connecting"

LEMMA EvolvesKeeps ==
  ASSUME NEW v, NEW w, ViewInv(v), Evolves(v, w)
  PROVE  ViewInv(w) /\ Frozen(v, w)
<1>1. v \in Views /\ w \in Views
  BY DEF ViewInv, Evolves
<1>2. /\ v.turns \in Seq(TurnStatuses) /\ Len(v.turns) \in Nat /\ DOMAIN v.turns = 1..Len(v.turns)
      /\ w.turns \in Seq(TurnStatuses) /\ Len(w.turns) \in Nat /\ DOMAIN w.turns = 1..Len(w.turns)
      /\ Len(v.rows) \in Nat /\ Len(w.rows) \in Nat
      /\ DOMAIN v.rows = 1..Len(v.rows) /\ DOMAIN w.rows = 1..Len(w.rows)
  BY <1>1, ViewParts
<1>3. Active(v) => Len(v.turns) \in 1..Len(v.turns) /\ v.turns[Len(v.turns)] = "running"
  BY <1>2 DEF Active
<1>4. \A n : Answered(v, n) => Answered(w, n)
  <2>1. \A k \in 1..Len(v.rows) :
          /\ k \in 1..Len(w.rows)
          /\ w.rows[k].role = v.rows[k].role /\ w.rows[k].turn = v.rows[k].turn
    BY <1>2 DEF Evolves
  <2> QED
    BY <2>1 DEF Answered
<1>5. ASSUME NEW k \in 1..Len(w.rows), w.rows[k].streaming
      PROVE  Active(v) /\ w.rows[k].turn = Len(v.turns) /\ w.rows[k].role = "assistant"
  <2>1. CASE k \in 1..Len(v.rows)
    BY <1>5, <2>1 DEF Evolves, ViewInv
  <2>2. CASE k > Len(v.rows)
    BY <1>5, <2>2 DEF Evolves
  <2> QED
    BY <1>2, <2>1, <2>2
<1>6. CASE w.turns = v.turns
  <2>1. Active(w) <=> Active(v)
    BY <1>6 DEF Active
  <2>2. ViewInv(w)
    BY <1>4, <1>5, <1>6, <2>1 DEF ViewInv, Evolves
  <2>3. ASSUME NEW n \in 1..Len(v.turns), v.turns[n] # "running",
               NEW k \in 1..Len(w.rows), w.rows[k].role = "assistant", w.rows[k].turn = n
        PROVE  k \in 1..Len(v.rows)
    BY <1>2, <1>3, <2>3 DEF Evolves
  <2> QED
    BY <1>2, <1>6, <2>2, <2>3 DEF Frozen
<1>7. CASE ~Active(v) /\ w.turns = Append(v.turns, "running")
  <2>1. /\ Len(w.turns) = Len(v.turns) + 1 /\ w.turns[Len(w.turns)] = "running"
        /\ \A n \in 1..Len(v.turns) : w.turns[n] = v.turns[n] /\ v.turns[n] # "running"
    BY <1>2, <1>7 DEF ViewInv, Active
  <2>2. Active(w)
    BY <1>2, <2>1 DEF Active
  <2>3. \A n \in 1..Len(w.turns) : w.turns[n] = "running" <=> n = Len(w.turns)
    BY <1>2, <2>1
  <2>4. \A n \in 1..Len(w.turns) : w.turns[n] # "running" => Answered(w, n)
    <3> SUFFICES ASSUME NEW n \in 1..Len(w.turns), w.turns[n] # "running" PROVE Answered(w, n)
      OBVIOUS
    <3>1. n \in 1..Len(v.turns) /\ v.turns[n] # "running"
      BY <1>2, <2>1, <2>3
    <3> QED
      BY <1>4, <3>1 DEF ViewInv
  <2>5. \A k \in 1..Len(w.rows) : ~w.rows[k].streaming
    BY <1>5, <1>7
  <2>6. ViewInv(w)
    BY <2>2, <2>3, <2>4, <2>5 DEF ViewInv, Evolves
  <2>7. ASSUME NEW k \in 1..Len(w.rows), w.rows[k].role = "assistant" PROVE k \in 1..Len(v.rows)
    BY <1>2, <1>7, <2>7 DEF Evolves
  <2> QED
    BY <1>2, <2>1, <2>6, <2>7 DEF Frozen
<1>8. ASSUME Active(v), NEW o \in {"completed", "failed"},
             w.turns = [v.turns EXCEPT ![Len(v.turns)] = o],
             \A k \in 1..Len(w.rows) : ~w.rows[k].streaming, Answered(w, Len(v.turns))
      PROVE  ViewInv(w) /\ Frozen(v, w)
  <2>1. /\ Len(w.turns) = Len(v.turns) /\ w.turns[Len(v.turns)] = o
        /\ \A n \in 1..Len(v.turns) : n # Len(v.turns) => w.turns[n] = v.turns[n]
    BY <1>2, <1>3, <1>8
  <2>2. \A n \in 1..Len(v.turns) : w.turns[n] # "running"
    BY <1>8, <2>1 DEF ViewInv
  <2>3. ~Active(w)
    BY <1>2, <1>3, <1>8, <2>1 DEF Active
  <2>4. \A n \in 1..Len(w.turns) : Answered(w, n)
    BY <1>4, <1>8, <2>1, <2>2 DEF ViewInv
  <2>5. ViewInv(w)
    BY <1>8, <2>1, <2>2, <2>3, <2>4 DEF ViewInv, Evolves
  <2>6. ASSUME NEW n \in 1..Len(v.turns), v.turns[n] # "running" PROVE w.turns[n] = v.turns[n]
    BY <1>3, <1>8, <2>1, <2>6
  <2>7. ASSUME NEW n \in 1..Len(v.turns), v.turns[n] # "running",
               NEW k \in 1..Len(w.rows), w.rows[k].role = "assistant", w.rows[k].turn = n
        PROVE  k \in 1..Len(v.rows)
    BY <1>2, <1>3, <2>7 DEF Evolves
  <2> QED
    BY <1>2, <2>1, <2>5, <2>6, <2>7 DEF Frozen
<1> QED
  BY <1>6, <1>7, <1>8 DEF Evolves

\* Rows of a view that is v but for text that stopped.
SameRows(v, u) ==
  /\ Len(u.rows) = Len(v.rows)
  /\ \A k \in 1..Len(v.rows) :
       /\ u.rows[k].role = v.rows[k].role /\ u.rows[k].turn = v.rows[k].turn
       /\ u.rows[k].streaming => v.rows[k].streaming

LEMMA SameRowsCases ==
  ASSUME NEW v \in Views, NEW u \in Views, u.rows = v.rows \/ u = StopText(v)
  PROVE  SameRows(v, u)
<1>1. CASE u.rows = v.rows
  BY <1>1 DEF SameRows
<1>2. CASE u = StopText(v)
  BY <1>2, StopTextView DEF SameRows
<1> QED
  BY <1>1, <1>2

\* A change of status alone, or with text that stops.
LEMMA QuietEvolves ==
  ASSUME NEW v, ViewInv(v), NEW w \in Views, w.turns = v.turns, SameRows(v, w),
         is_busy(w) => Active(v), Active(v) /\ w.started => w.status # "connecting"
  PROVE  Evolves(v, w)
<1>1. v \in Views /\ Len(v.rows) \in Nat /\ Len(v.turns) <= MaxTurns
  BY ViewParts DEF ViewInv
<1>2. Active(w) <=> Active(v)
  BY DEF Active
<1>3. \A k \in 1..Len(w.rows) : ~(k > Len(v.rows))
  BY <1>1 DEF SameRows
<1> QED
  BY <1>1, <1>2, <1>3 DEF Evolves, SameRows

\* A message is added.
LEMMA PushEvolves ==
  ASSUME NEW v, ViewInv(v), NEW u \in Views, SameRows(v, u), u.turns = v.turns,
         NEW role \in {"user", "assistant"}, NEW turn \in 0..MaxTurns,
         NEW streaming \in BOOLEAN, NEW n \in 0..MaxPrompts,
         NEW w, w = Push(u, role, turn, streaming, n),
         role = "assistant" => Active(v) /\ turn = Len(v.turns), streaming => role = "assistant",
         is_busy(u) => Active(v), Active(v) /\ u.started => u.status # "connecting"
  PROVE  Evolves(v, w)
<1>1. v \in Views /\ Len(v.rows) \in Nat /\ Len(v.turns) <= MaxTurns
  BY ViewParts DEF ViewInv
<1>2. /\ w \in Views /\ w.status = u.status /\ w.started = u.started /\ w.turns = u.turns
      /\ Len(w.rows) = Len(u.rows) + 1
      /\ \A k \in 1..Len(u.rows) : w.rows[k] = u.rows[k]
      /\ w.rows[Len(w.rows)] =
           [role |-> role, turn |-> turn, streaming |-> streaming, prompt |-> n]
  BY PushView
<1>3. Len(u.rows) = Len(v.rows)
      /\ \A k \in 1..Len(v.rows) :
           /\ w.rows[k].role = v.rows[k].role /\ w.rows[k].turn = v.rows[k].turn
           /\ w.rows[k].streaming => v.rows[k].streaming
  BY <1>2 DEF SameRows
<1>4. \A k \in 1..Len(w.rows) : k > Len(v.rows) => k = Len(w.rows)
  BY <1>1, <1>2, <1>3
<1>5. /\ w.rows[Len(w.rows)].role = role /\ w.rows[Len(w.rows)].turn = turn
      /\ w.rows[Len(w.rows)].streaming = streaming
  BY <1>2
<1>6. \A k \in 1..Len(w.rows) : k > Len(v.rows) =>
        /\ w.rows[k].role = "assistant" => Active(v) /\ w.rows[k].turn = Len(v.turns)
        /\ w.rows[k].streaming => w.rows[k].role = "assistant"
  BY <1>4, <1>5
<1>7. (Active(w) <=> Active(v)) /\ (is_busy(w) <=> is_busy(u))
  BY <1>2 DEF Active, is_busy
<1>8. Len(v.rows) <= Len(w.rows)
  BY <1>1, <1>2, <1>3
<1> QED
  BY <1>1, <1>2, <1>3, <1>6, <1>7, <1>8 DEF Evolves

LEMMA ActiveRange ==
  ASSUME NEW v \in Views, Len(v.turns) <= MaxTurns
  PROVE  /\ MaxTurns \in Nat /\ Len(v.turns) \in Nat /\ Len(v.turns) \in 0..MaxTurns
         /\ ActiveTurn(v) \in 0..MaxTurns /\ 0 \in 0..MaxPrompts
         /\ Active(v) => Len(v.turns) \in 1..Len(v.turns) /\ ActiveTurn(v) = Len(v.turns)
                         /\ v.turns[Len(v.turns)] = "running"
BY ViewParts, ConstantsAssumption DEF ActiveTurn, Active

LEMMA InTurnRows ==
  ASSUME NEW v \in Views, InTurn(v, "assistant") PROVE Answered(v, Len(v.turns))
BY ViewParts DEF InTurn, Answered

\* w is u with an answer of turn t.
Answers(u, w, t) ==
  /\ w \in Views /\ w.turns = u.turns /\ Len(w.rows) = Len(u.rows) + 1
  /\ \A k \in 1..Len(u.rows) : w.rows[k] = u.rows[k]
  /\ w.rows[Len(w.rows)].role = "assistant" /\ w.rows[Len(w.rows)].turn = t
  /\ ~w.rows[Len(w.rows)].streaming

LEMMA PushAnswer ==
  ASSUME NEW u \in Views, NEW t \in 0..MaxTurns
  PROVE  Answers(u, Push(u, "assistant", t, FALSE, 0), t)
<1>1. \E role \in {"user", "assistant"}, streaming \in BOOLEAN, n \in 0..MaxPrompts :
        role = "assistant" /\ streaming = FALSE /\ n = 0
  <2>1. 0 \in 0..MaxPrompts
    BY ConstantsAssumption
  <2> QED
    BY <2>1
<1>2. PICK role \in {"user", "assistant"}, streaming \in BOOLEAN, n \in 0..MaxPrompts :
        role = "assistant" /\ streaming = FALSE /\ n = 0
  BY <1>1
<1>3. ASSUME NEW w, w = Push(u, role, t, streaming, n)
      PROVE  Answers(u, w, t)
  <2>1. role \in {"user", "assistant"} /\ streaming \in BOOLEAN /\ n \in 0..MaxPrompts
    BY <1>2
  <2>2. /\ w \in Views /\ w.turns = u.turns /\ Len(w.rows) = Len(u.rows) + 1
        /\ \A k \in 1..Len(u.rows) : w.rows[k] = u.rows[k]
        /\ w.rows[Len(w.rows)] =
             [role |-> role, turn |-> t, streaming |-> streaming, prompt |-> n]
    BY <1>3, <2>1, PushView
  <2>3. /\ w.rows[Len(w.rows)].role = role /\ w.rows[Len(w.rows)].turn = t
        /\ w.rows[Len(w.rows)].streaming = streaming
    BY <2>2
  <2> QED
    BY <1>2, <2>2, <2>3 DEF Answers
<1>4. Push(u, "assistant", t, FALSE, 0) = Push(u, role, t, streaming, n)
  BY <1>2
<1> QED
  BY <1>3, <1>4

\* The running turn settles.
LEMMA SettleEvolves ==
  ASSUME NEW v, ViewInv(v), Active(v), NEW o \in {"completed", "failed"}
  PROVE  Evolves(v, Settle(v, o))
<1> DEFINE quiet == StopText(v)
           told  == IF InTurn(v, "assistant") THEN quiet
                    ELSE Push(quiet, "assistant", Len(v.turns), FALSE, 0)
           w     == [told EXCEPT !.turns[Len(v.turns)] = o,
                                 !.status = IF o = "completed" THEN "idle" ELSE "failed"]
<1>1. v \in Views /\ Len(v.rows) \in Nat /\ Len(v.turns) <= MaxTurns
  BY ViewParts DEF ViewInv
<1>2. /\ quiet \in Views /\ quiet.turns = v.turns /\ Len(quiet.rows) = Len(v.rows)
      /\ \A k \in 1..Len(v.rows) :
           /\ quiet.rows[k].role = v.rows[k].role /\ quiet.rows[k].turn = v.rows[k].turn
           /\ quiet.rows[k].streaming = FALSE
  BY <1>1, StopTextView
<1>3. /\ told \in Views /\ told.turns = v.turns
      /\ Len(v.rows) <= Len(told.rows)
      /\ \A k \in 1..Len(v.rows) :
           told.rows[k].role = v.rows[k].role /\ told.rows[k].turn = v.rows[k].turn
      /\ \A k \in 1..Len(told.rows) : ~told.rows[k].streaming
      /\ \A k \in 1..Len(told.rows) : k > Len(v.rows) => told.rows[k].turn = Len(v.turns)
      /\ Answered(told, Len(v.turns))
  <2>1. CASE InTurn(v, "assistant")
    <3>1. told = quiet
      BY <2>1
    <3>2. Answered(v, Len(v.turns))
      BY <1>1, <2>1, InTurnRows
    <3>3. Answered(quiet, Len(v.turns))
      BY <1>2, <3>2 DEF Answered
    <3>4. \A k \in 1..Len(quiet.rows) : ~(k > Len(v.rows)) /\ ~quiet.rows[k].streaming
      BY <1>1, <1>2
    <3> HIDE DEF told, quiet
    <3> QED
      BY <1>1, <1>2, <3>1, <3>3, <3>4
  <2>2. CASE ~InTurn(v, "assistant")
    <3>1. told = Push(quiet, "assistant", Len(v.turns), FALSE, 0)
      BY <2>2
    <3>2. Len(v.turns) \in 0..MaxTurns /\ 0 \in 0..MaxPrompts
      BY <1>1, ActiveRange
    <3> HIDE DEF told, quiet
    <3>3. /\ told \in Views /\ told.turns = quiet.turns
          /\ Len(told.rows) = Len(quiet.rows) + 1
          /\ \A k \in 1..Len(quiet.rows) : told.rows[k] = quiet.rows[k]
          /\ told.rows[Len(told.rows)].role = "assistant"
          /\ told.rows[Len(told.rows)].turn = Len(v.turns)
          /\ ~told.rows[Len(told.rows)].streaming
      <4>1. \A t \in 0..MaxTurns : Answers(quiet, Push(quiet, "assistant", t, FALSE, 0), t)
        BY <1>2, PushAnswer
      <4>2. Answers(quiet, told, Len(v.turns))
        BY <3>1, <3>2, <4>1
      <4> QED
        BY <4>2 DEF Answers
    <3>4. \A k \in 1..Len(told.rows) : k \in 1..Len(v.rows) \/ k = Len(told.rows)
      BY <1>1, <1>2, <3>3
    <3>5. \A k \in 1..Len(told.rows) : ~told.rows[k].streaming
      BY <1>2, <3>3, <3>4
    <3>6. Len(told.rows) \in 1..Len(told.rows) /\ Len(v.rows) <= Len(told.rows)
      BY <1>1, <1>2, <3>3
    <3>7. Answered(told, Len(v.turns))
      BY <3>3, <3>6 DEF Answered
    <3>8. \A k \in 1..Len(told.rows) : k > Len(v.rows) => told.rows[k].turn = Len(v.turns)
      BY <1>1, <3>3, <3>4
    <3> QED
      BY <1>2, <3>3, <3>5, <3>6, <3>7, <3>8
  <2> QED
    BY <2>1, <2>2
<1>4. Len(v.turns) \in 1..Len(v.turns) /\ v.turns \in Seq(TurnStatuses)
  BY <1>1, ViewParts, ActiveRange
<1> HIDE DEF told
<1>5. /\ w.turns = [v.turns EXCEPT ![Len(v.turns)] = o] /\ w.rows = told.rows
      /\ w.status \in {"idle", "failed"} /\ w.started = told.started
  BY <1>3 DEF Views
<1>6. w.turns \in Seq(TurnStatuses) /\ Len(w.turns) = Len(v.turns)
  <2>1. /\ [v.turns EXCEPT ![Len(v.turns)] = o] \in Seq(TurnStatuses)
        /\ Len([v.turns EXCEPT ![Len(v.turns)] = o]) = Len(v.turns)
    BY <1>4 DEF TurnStatuses
  <2> HIDE DEF w
  <2> QED
    BY <1>5, <2>1
<1>7. w \in Views
  <2>1. w = [told EXCEPT !.turns = w.turns, !.status = w.status]
    BY <1>3, <1>5 DEF Views
  <2> QED
    BY <1>3, <1>5, <1>6, <2>1 DEF Views, Statuses
<1>8. ~is_busy(w) /\ ~Active(w)
  BY <1>4, <1>5, <1>6 DEF is_busy, Active
<1>9. Answered(w, Len(v.turns))
  BY <1>3, <1>5 DEF Answered
<1>10. w = Settle(v, o)
  BY DEF Settle, told
<1> HIDE DEF w
<1>11. Evolves(v, w)
  BY <1>1, <1>3, <1>5, <1>6, <1>7, <1>8, <1>9 DEF Evolves
<1> QED
  BY <1>10, <1>11

-----------------------------------------------------------------------------
(* Each event, on a view.                                                  *)

\* A message of the user is added, or the answer of the running turn, or text.
LEMMA PushUserEvolves ==
  ASSUME NEW v, ViewInv(v), NEW t \in 0..MaxTurns, NEW n \in 0..MaxPrompts
  PROVE  Evolves(v, Push(v, "user", t, FALSE, n))
<1>1. PICK role \in {"user", "assistant"}, streaming \in BOOLEAN :
        role = "user" /\ streaming = FALSE
  OBVIOUS
<1>2. v \in Views /\ SameRows(v, v)
  BY SameRowsCases DEF ViewInv
<1>3. \A w : w = Push(v, role, t, streaming, n) => Evolves(v, w)
  BY <1>1, <1>2, PushEvolves DEF ViewInv
<1>4. Push(v, "user", t, FALSE, n) = Push(v, role, t, streaming, n)
  BY <1>1
<1> QED
  BY <1>3, <1>4

LEMMA PushAnswerEvolves ==
  ASSUME NEW v, ViewInv(v), Active(v), NEW u \in Views, SameRows(v, u), u.turns = v.turns,
         Active(v) /\ u.started => u.status # "connecting", NEW streaming \in BOOLEAN
  PROVE  Evolves(v, Push(u, "assistant", Len(v.turns), streaming, 0))
<1>1. PICK role \in {"user", "assistant"}, n \in 0..MaxPrompts : role = "assistant" /\ n = 0
  BY ConstantsAssumption
<1>2. PICK t \in 0..MaxTurns : t = Len(v.turns)
  BY ActiveRange DEF ViewInv
<1>3. \A w : w = Push(u, role, t, streaming, n) => Evolves(v, w)
  BY <1>1, <1>2, PushEvolves
<1>4. Push(u, "assistant", Len(v.turns), streaming, 0) = Push(u, role, t, streaming, n)
  BY <1>1, <1>2
<1> QED
  BY <1>3, <1>4

LEMMA StatusView ==
  ASSUME NEW v \in Views, NEW s \in Statuses, NEW w, w = [v EXCEPT !.status = s]
  PROVE  /\ w \in Views /\ w.status = s /\ w.started = v.started
         /\ w.turns = v.turns /\ w.rows = v.rows
BY DEF Views

LEMMA ConnectedView ==
  ASSUME NEW v, ViewInv(v), NEW w, w = Connected(v)
  PROVE  /\ w \in Views /\ w.status # "connecting" /\ w.started = v.started
         /\ w.turns = v.turns /\ w.rows = v.rows /\ (is_busy(w) => Active(v))
         /\ Evolves(v, w)
<1>1. v \in Views /\ (is_busy(v) => Active(v))
  BY DEF ViewInv
<1>2. "working" \in Statuses
  BY DEF Statuses
<1>3. /\ w \in Views /\ w.status # "connecting" /\ w.started = v.started
      /\ w.turns = v.turns /\ w.rows = v.rows /\ (is_busy(w) => Active(v))
  BY <1>1, <1>2, StatusView DEF Connected, is_busy
<1>4. SameRows(v, w)
  BY <1>1, <1>3, SameRowsCases
<1> QED
  BY <1>3, <1>4, QuietEvolves

LEMMA RepairedView ==
  ASSUME NEW v, ViewInv(v), NEW w, w = Repaired(v)
  PROVE  /\ w \in Views /\ w.status # "connecting" /\ w.started = TRUE
         /\ w.turns = v.turns /\ w.rows = v.rows /\ (is_busy(w) => Active(v))
         /\ SameRows(v, w) /\ Evolves(v, w)
<1> DEFINE c == Connected(v)
<1>1. /\ c \in Views /\ c.status # "connecting"
      /\ c.turns = v.turns /\ c.rows = v.rows /\ (is_busy(c) => Active(v))
  BY ConnectedView
<1>2. w = [c EXCEPT !.started = TRUE]
  BY DEF Repaired
<1> HIDE DEF c
<1>3. /\ w \in Views /\ w.status = c.status /\ w.started = TRUE
      /\ w.turns = c.turns /\ w.rows = c.rows
  BY <1>1, <1>2 DEF Views
<1>4. is_busy(w) => Active(v)
  BY <1>1, <1>3 DEF is_busy
<1>5. SameRows(v, w)
  BY <1>1, <1>3, SameRowsCases DEF ViewInv
<1> QED
  BY <1>1, <1>3, <1>4, <1>5, QuietEvolves

LEMMA StopTextEvolves ==
  ASSUME NEW v, ViewInv(v) PROVE Evolves(v, StopText(v))
<1> DEFINE w == StopText(v)
<1>1. v \in Views /\ (is_busy(v) => Active(v)) /\ (Active(v) /\ v.started => v.status # "connecting")
  BY DEF ViewInv
<1>2. w \in Views /\ w.status = v.status /\ w.started = v.started /\ w.turns = v.turns
  BY <1>1, StopTextView
<1>3. SameRows(v, w)
  BY <1>1, <1>2, SameRowsCases
<1> HIDE DEF w
<1>4. Evolves(v, w)
  BY <1>1, <1>2, <1>3, QuietEvolves DEF is_busy
<1> QED
  BY <1>4 DEF w

LEMMA SameEvolves ==
  ASSUME NEW v, ViewInv(v) PROVE Evolves(v, v)
BY SameRowsCases, QuietEvolves DEF ViewInv

\* A turn begins.
LEMMA BeginView ==
  ASSUME NEW v, ViewInv(v), ~Active(v), NEW started \in BOOLEAN, NEW status \in Statuses,
         started => status # "connecting",
         NEW w, w = Begin(v, started, status), Len(w.turns) <= MaxTurns
  PROVE  /\ w \in Views /\ w.status = status /\ w.started = started /\ w.rows = v.rows
         /\ w.turns = Append(v.turns, "running")
         /\ Len(w.turns) = Len(v.turns) + 1 /\ Len(v.turns) + 1 \in 0..MaxTurns
         /\ Active(w) /\ SameRows(v, w) /\ Evolves(v, w)
<1>1. /\ v \in Views /\ v.turns \in Seq(TurnStatuses) /\ Len(v.turns) \in Nat /\ Len(v.rows) \in Nat
      /\ MaxTurns \in Nat
  BY ViewParts, ConstantsAssumption DEF ViewInv
<1>2. /\ Append(v.turns, "running") \in Seq(TurnStatuses)
      /\ Len(Append(v.turns, "running")) = Len(v.turns) + 1
      /\ Append(v.turns, "running")[Len(v.turns) + 1] = "running"
  BY <1>1 DEF TurnStatuses
<1>3. /\ w.status = status /\ w.started = started /\ w.rows = v.rows
      /\ w.turns = Append(v.turns, "running")
  BY <1>1 DEF Begin, Views
<1>4. w \in Views
  <2>1. w = [v EXCEPT !.turns = w.turns, !.started = started, !.status = status]
    BY <1>1 DEF Begin, Views
  <2>2. w.turns \in Seq(TurnStatuses)
    BY <1>2, <1>3
  <2> QED
    BY <1>1, <2>1, <2>2 DEF Views
<1>5. Len(w.turns) = Len(v.turns) + 1 /\ Len(v.turns) + 1 \in 0..MaxTurns
  BY <1>1, <1>2, <1>3
<1>6. Active(w)
  BY <1>1, <1>2, <1>3, <1>5 DEF Active
<1>7. SameRows(v, w)
  BY <1>1, <1>3, <1>4, SameRowsCases
<1>8. \A k \in 1..Len(w.rows) : ~(k > Len(v.rows))
  BY <1>1, <1>3
<1>9. Evolves(v, w)
  BY <1>1, <1>3, <1>4, <1>6, <1>7, <1>8 DEF Evolves, SameRows
<1> QED
  BY <1>3, <1>4, <1>5, <1>6, <1>7, <1>9

LEMMA PromptEvolves ==
  ASSUME NEW v, ViewInv(v), NEW n \in 0..MaxPrompts,
         Len(adopt_submitted_prompt(v, n).turns) <= MaxTurns
  PROVE  Evolves(v, adopt_submitted_prompt(v, n))
<1>1. v \in Views /\ Len(v.turns) \in 0..MaxTurns /\ Len(v.turns) \in Nat /\ Len(v.rows) \in Nat
  BY ActiveRange, ViewParts DEF ViewInv
<1>2. CASE Active(v)
  BY <1>1, <1>2, PushUserEvolves, SameEvolves DEF adopt_submitted_prompt
<1>3. CASE ~Active(v)
  <2> DEFINE u == Begin(v, FALSE, "connecting")
             t == Len(v.turns) + 1
             w == Push(u, "user", t, FALSE, n)
  <2>1. w = adopt_submitted_prompt(v, n)
    BY <1>3 DEF adopt_submitted_prompt
  <2>2. w.turns = u.turns
    BY DEF Push
  <2>3. Len(u.turns) <= MaxTurns /\ "connecting" \in Statuses
    BY <2>1, <2>2 DEF Statuses
  <2>4. /\ u \in Views /\ u.status = "connecting" /\ ~u.started /\ u.rows = v.rows
        /\ u.turns = Append(v.turns, "running") /\ t \in 0..MaxTurns
        /\ Active(u)
    <3>1. PICK started \in BOOLEAN, status \in Statuses : started = FALSE /\ status = "connecting"
      BY DEF Statuses
    <3>2. u = Begin(v, started, status)
      BY <3>1
    <3> HIDE DEF u
    <3> QED
      BY <1>3, <2>3, <3>1, <3>2, BeginView
  <2> HIDE DEF u, t
  <2>5. PICK role \in {"user", "assistant"}, streaming \in BOOLEAN :
          role = "user" /\ streaming = FALSE
    OBVIOUS
  <2>6. w = Push(u, role, t, streaming, n)
    BY <2>5
  <2> HIDE DEF w
  <2>7. /\ w \in Views /\ w.status = u.status /\ w.started = u.started /\ w.turns = u.turns
        /\ Len(w.rows) = Len(u.rows) + 1
        /\ \A k \in 1..Len(u.rows) : w.rows[k] = u.rows[k]
        /\ w.rows[Len(w.rows)] =
             [role |-> role, turn |-> t, streaming |-> streaming, prompt |-> n]
    <3>1. role \in {"user", "assistant"} /\ streaming \in BOOLEAN
      BY <2>5
    <3>2. u \in Views /\ t \in 0..MaxTurns
      BY <2>4
    <3> QED
      BY <2>6, <3>1, <3>2, PushView
  <2>8. w.rows[Len(w.rows)].role = "user" /\ ~w.rows[Len(w.rows)].streaming
    <3>1. w.rows[Len(w.rows)].role = role /\ w.rows[Len(w.rows)].streaming = streaming
      BY <2>7
    <3> QED
      BY <2>5, <3>1
  <2>9. \A k \in 1..Len(w.rows) : k > Len(v.rows) => k = Len(w.rows)
    BY <1>1, <2>4, <2>7
  <2>10. Len(v.rows) <= Len(w.rows)
    BY <1>1, <2>4, <2>7
  <2>11. Active(w) /\ ~w.started
    BY <2>4, <2>7 DEF Active
  <2>12. \A k \in 1..Len(w.rows) : k > Len(v.rows) =>
           w.rows[k].role # "assistant" /\ ~w.rows[k].streaming
    BY <2>8, <2>9
  <2>13. Len(w.turns) <= MaxTurns
    BY <2>3, <2>7
  <2>14. Evolves(v, w)
    BY <1>3, <2>4, <2>7, <2>10, <2>11, <2>12, <2>13 DEF Evolves
  <2> QED
    BY <2>1, <2>14
<1> QED
  BY <1>2, <1>3

LEMMA TurnStartedEvolves ==
  ASSUME NEW v, ViewInv(v), NEW own \in BOOLEAN, Len(TurnStarted(v, own).turns) <= MaxTurns
  PROVE  Evolves(v, TurnStarted(v, own))
<1> DEFINE w == TurnStarted(v, own)
<1>1. CASE Active(v)
  <2>1. v \in Views /\ w = [v EXCEPT !.started = TRUE, !.status = "working"]
    BY <1>1 DEF TurnStarted, ViewInv
  <2> HIDE DEF w
  <2>2. /\ w \in Views /\ w.status = "working" /\ w.turns = v.turns /\ w.rows = v.rows
    BY <2>1 DEF Views, Statuses
  <2>3. SameRows(v, w)
    BY <2>1, <2>2, SameRowsCases
  <2>4. Evolves(v, w)
    BY <1>1, <2>2, <2>3, QuietEvolves
  <2> QED
    BY <2>4 DEF w
<1>2. CASE ~Active(v) /\ own
  <2>1. PICK started \in BOOLEAN, status \in Statuses : started = TRUE /\ status = "working"
    BY DEF Statuses
  <2>2. w = Begin(v, started, status)
    BY <1>2, <2>1 DEF TurnStarted
  <2>3. Len(w.turns) <= MaxTurns
    OBVIOUS
  <2> HIDE DEF w
  <2>4. Evolves(v, w)
    BY <1>2, <2>1, <2>2, <2>3, BeginView
  <2> QED
    BY <2>4 DEF w
<1>3. CASE ~Active(v) /\ ~own
  BY <1>3, SameEvolves DEF TurnStarted
<1> QED
  BY <1>1, <1>2, <1>3

LEMMA TurnParkedEvolves ==
  ASSUME NEW v, ViewInv(v) PROVE Evolves(v, TurnParked(v))
<1>1. CASE Active(v)
  <2> DEFINE u == StopText(v)
             w == [u EXCEPT !.status = "background"]
  <2>1. v \in Views /\ w = TurnParked(v) /\ "background" \in Statuses
    BY <1>1 DEF TurnParked, ViewInv, Statuses
  <2>2. u \in Views /\ u.turns = v.turns /\ SameRows(v, u)
    BY <2>1, StopTextView, SameRowsCases
  <2> HIDE DEF u
  <2>3. w \in Views /\ w.status = "background" /\ w.turns = v.turns /\ w.rows = u.rows
    BY <2>1, <2>2, StatusView
  <2> HIDE DEF w
  <2>4. SameRows(v, w)
    BY <2>2, <2>3 DEF SameRows
  <2>5. Evolves(v, w)
    BY <1>1, <2>3, <2>4, QuietEvolves
  <2> QED
    BY <2>1, <2>5
<1>2. CASE ~Active(v)
  BY <1>2, SameEvolves DEF TurnParked
<1> QED
  BY <1>1, <1>2

LEMMA ErrorEvolves ==
  ASSUME NEW v, ViewInv(v) PROVE Evolves(v, Error(v))
<1>1. CASE ~Active(v) \/ v.status = "working"
  BY <1>1, SameEvolves DEF Error
<1>2. CASE Active(v) /\ v.status # "working"
  <2> DEFINE u == [v EXCEPT !.status = "failed"]
  <2>1. v \in Views /\ "failed" \in Statuses
    BY DEF ViewInv, Statuses
  <2>2. u \in Views /\ u.status = "failed" /\ u.turns = v.turns /\ u.rows = v.rows
    BY <2>1, StatusView
  <2>3. Error(v) = IF InTurn(v, "assistant") THEN u
                   ELSE Push(u, "assistant", Len(v.turns), FALSE, 0)
    BY <1>2 DEF Error
  <2> HIDE DEF u
  <2>4. SameRows(v, u) /\ ~is_busy(u)
    BY <2>1, <2>2, SameRowsCases DEF is_busy
  <2>5. Evolves(v, u)
    BY <2>2, <2>4, QuietEvolves
  <2>6. PICK streaming \in BOOLEAN : streaming = FALSE
    OBVIOUS
  <2>7. Evolves(v, Push(u, "assistant", Len(v.turns), streaming, 0))
    BY <1>2, <2>2, <2>4, PushAnswerEvolves
  <2> QED
    BY <2>3, <2>5, <2>6, <2>7
<1> QED
  BY <1>1, <1>2

LEMMA FinishEvolves ==
  ASSUME NEW v, ViewInv(v), NEW o \in {"completed", "failed"}
  PROVE  Evolves(v, TurnFinished(v, o))
BY SettleEvolves, SameEvolves DEF TurnFinished

LEMMA ExitEvolves ==
  ASSUME NEW v, ViewInv(v)
  PROVE  Evolves(v, DesktopExit(v)) /\ Evolves(v, PhoneExit(v))
BY SettleEvolves, StopTextEvolves DEF DesktopExit, PhoneExit

LEMMA DesktopTextEvolves ==
  ASSUME NEW v, ViewInv(v), Active(v)
  PROVE  Evolves(v, DesktopText(Repaired(v)))
<1> DEFINE u == Repaired(v)
           x == IF phase = "text" THEN u ELSE StopText(u)
<1>1. v \in Views
  BY DEF ViewInv
<1>2. /\ u \in Views /\ u.status # "connecting" /\ u.turns = v.turns /\ u.rows = v.rows
      /\ SameRows(v, u) /\ Evolves(v, u)
  BY RepairedView
<1> HIDE DEF u
<1>3. x \in Views /\ x.status = u.status /\ x.turns = v.turns /\ SameRows(v, x)
  <2>1. CASE phase = "text"
    BY <1>2, <2>1
  <2>2. CASE phase # "text"
    <3>1. /\ x \in Views /\ x.status = u.status /\ x.turns = u.turns
          /\ SameRows(u, x)
      BY <1>2, <2>2, StopTextView, SameRowsCases
    <3> HIDE DEF x
    <3> QED
      BY <1>2, <3>1 DEF SameRows
  <2> QED
    BY <2>1, <2>2
<1>4. ActiveTurn(u) = Len(v.turns)
  BY <1>2 DEF ActiveTurn, Active
<1>5. \/ DesktopText(u) = u
      \/ DesktopText(u) = Push(x, "assistant", Len(v.turns), TRUE, 0)
  BY <1>4 DEF DesktopText
<1> HIDE DEF x
<1>6. ASSUME NEW streaming \in BOOLEAN, streaming = TRUE
      PROVE  Evolves(v, Push(x, "assistant", Len(v.turns), streaming, 0))
  BY <1>2, <1>3, PushAnswerEvolves
<1>7. Evolves(v, DesktopText(u))
  BY <1>2, <1>5, <1>6
<1> QED
  BY <1>7 DEF u

LEMMA PhoneTextEvolves ==
  ASSUME NEW v, ViewInv(v), Active(v)
  PROVE  Evolves(v, PhoneText(v))
<1>1. v \in Views /\ (Active(v) /\ v.started => v.status # "connecting")
  BY DEF ViewInv
<1>2. SameRows(v, v)
  BY <1>1, SameRowsCases
<1>3. ASSUME NEW streaming \in BOOLEAN, streaming = TRUE
      PROVE  Evolves(v, Push(v, "assistant", Len(v.turns), streaming, 0))
  BY <1>1, <1>2, PushAnswerEvolves
<1>4. PhoneText(v) \in {v, Push(v, "assistant", Len(v.turns), TRUE, 0)}
  BY DEF PhoneText, ActiveTurn
<1> QED
  BY <1>3, <1>4, SameEvolves

\* Reasoning and activities interrupt the text; a request waits for its answer.
LEMMA WorkEvolves ==
  ASSUME NEW v, ViewInv(v)
  PROVE  Evolves(v, StopText(Repaired(v))) /\ Evolves(v, Repaired(v))
<1> DEFINE u == Repaired(v)
           w == StopText(u)
<1>1. /\ u \in Views /\ u.status # "connecting" /\ u.turns = v.turns /\ u.rows = v.rows
      /\ (is_busy(u) => Active(v)) /\ SameRows(v, u) /\ Evolves(v, u)
  BY RepairedView
<1> HIDE DEF u
<1>2. w \in Views /\ w.status = u.status /\ w.turns = u.turns /\ SameRows(u, w)
  BY <1>1, StopTextView, SameRowsCases
<1> HIDE DEF w
<1>3. SameRows(v, w)
  BY <1>1, <1>2 DEF SameRows
<1>4. Evolves(v, w)
  BY <1>1, <1>2, <1>3, QuietEvolves DEF is_busy
<1> QED
  BY <1>1, <1>4 DEF u, w

LEMMA RequestEvolves ==
  ASSUME NEW v, ViewInv(v), Active(v)
  PROVE  /\ Evolves(v, [Repaired(v) EXCEPT !.status = "waiting"])
         /\ Evolves(v, [v EXCEPT !.status = "waiting"])
<1>1. ASSUME NEW u \in Views, u.turns = v.turns, SameRows(v, u)
      PROVE  Evolves(v, [u EXCEPT !.status = "waiting"])
  <2> DEFINE w == [u EXCEPT !.status = "waiting"]
  <2>1. "waiting" \in Statuses
    BY DEF Statuses
  <2>2. w \in Views /\ w.status = "waiting" /\ w.turns = u.turns /\ w.rows = u.rows
    BY <2>1, StatusView
  <2> HIDE DEF w
  <2>3. SameRows(v, w)
    BY <1>1, <2>2 DEF SameRows
  <2>4. Evolves(v, w)
    BY <1>1, <2>2, <2>3, QuietEvolves
  <2> QED
    BY <2>4 DEF w
<1>2. v \in Views /\ SameRows(v, v)
  BY SameRowsCases DEF ViewInv
<1>3. Repaired(v) \in Views /\ Repaired(v).turns = v.turns /\ SameRows(v, Repaired(v))
  BY RepairedView
<1> QED
  BY <1>1, <1>2, <1>3

-----------------------------------------------------------------------------
(* Every step changes both views as Evolves allows.                        *)

BothInv == ViewInv(desktop) /\ ViewInv(phone)

LEMMA BothEvolve ==
  ASSUME TypeOK, BothInv, Next
  PROVE  Evolves(desktop, desktop') /\ Evolves(phone, phone')
<1>1. ViewInv(desktop) /\ ViewInv(phone)
  BY DEF BothInv
<1>2. ActiveTurn(desktop) \in 0..MaxTurns /\ Len(phone.turns) \in 0..MaxTurns
  BY <1>1, ActiveRange DEF ViewInv
<1>3. prompts < MaxPrompts /\ prompts' = prompts + 1 => prompts' \in 0..MaxPrompts
  BY ConstantsAssumption DEF TypeOK
<1>4. CASE OnConnected
  BY <1>1, <1>4, ConnectedView DEF OnConnected, Fold
<1>5. CASE OnPromptSubmitted
  BY <1>1, <1>3, <1>5, PromptEvolves DEF OnPromptSubmitted, Fold
<1>6. CASE OnSteerAccepted
  BY <1>1, <1>2, <1>3, <1>6, PushUserEvolves DEF OnSteerAccepted, Fold
<1>7. CASE OnTurnStarted
  <2>1. \A v \in {desktop', phone'} : Len(v.turns) <= MaxTurns
    BY <1>7 DEF OnTurnStarted, Fold
  <2>2. PICK a \in BOOLEAN, b \in BOOLEAN :
          desktop' = TurnStarted(desktop, a) /\ phone' = TurnStarted(phone, b)
    BY <1>7 DEF OnTurnStarted, Fold
  <2> QED
    BY <1>1, <2>1, <2>2, TurnStartedEvolves
<1>8. CASE OnTurnParked
  BY <1>1, <1>8, TurnParkedEvolves DEF OnTurnParked, Fold
<1>9. CASE OnTextDelta
  BY <1>1, <1>9, DesktopTextEvolves, PhoneTextEvolves, SameEvolves
     DEF OnTextDelta, Fold, accepts_turn_output
<1>10. CASE OnWork
  BY <1>1, <1>10, WorkEvolves, StopTextEvolves, SameEvolves DEF OnWork, Fold
<1>11. CASE OnRequest
  BY <1>1, <1>11, RequestEvolves, SameEvolves DEF OnRequest, Fold, accepts_turn_output
<1>12. ASSUME NEW outcome \in {"completed", "failed"}, OnTurnFinished(outcome)
       PROVE  Evolves(desktop, desktop') /\ Evolves(phone, phone')
  BY <1>1, <1>12, FinishEvolves DEF OnTurnFinished, Fold
<1>13. CASE OnError
  BY <1>1, <1>13, ErrorEvolves DEF OnError, Fold
<1>14. CASE OnProcessExited
  BY <1>1, <1>14, ExitEvolves DEF OnProcessExited, Fold
<1> QED
  BY <1>4, <1>5, <1>6, <1>7, <1>8, <1>9, <1>10, <1>11, <1>12, <1>13, <1>14 DEF Next

-----------------------------------------------------------------------------
(* Only an end of the running turn, or of the runtime, makes it stop.      *)

LEMMA TurnRunsOn ==
  ASSUME NEW v, ViewInv(v), Active(v), NEW n, NEW own
  PROVE  /\ Active(Connected(v)) /\ Active(adopt_submitted_prompt(v, n))
         /\ Active(Push(v, "user", n, FALSE, own))
         /\ Active(TurnStarted(v, own)) /\ Active(TurnParked(v)) /\ Active(Error(v))
         /\ Active(DesktopText(Repaired(v))) /\ Active(PhoneText(v))
         /\ Active(StopText(Repaired(v))) /\ Active(Repaired(v)) /\ Active(StopText(v))
         /\ Active([Repaired(v) EXCEPT !.status = "waiting"])
         /\ Active([v EXCEPT !.status = "waiting"])
<1>1. v \in Views
  BY DEF ViewInv
<1>2. ASSUME NEW w, w.turns = v.turns PROVE Active(w)
  BY <1>2 DEF Active
<1>3. Repaired(v) \in Views /\ Repaired(v).turns = v.turns
  BY RepairedView
<1>4. StopText(Repaired(v)) \in Views /\ StopText(v) \in Views
  BY <1>1, <1>3, StopTextView
<1>5. /\ Active(Connected(v)) /\ Active(Push(v, "user", n, FALSE, own))
      /\ Active(StopText(Repaired(v))) /\ Active(Repaired(v)) /\ Active(StopText(v))
      /\ Active([Repaired(v) EXCEPT !.status = "waiting"])
      /\ Active([v EXCEPT !.status = "waiting"])
  BY <1>1, <1>2, <1>3 DEF Connected, Push, StopText, Views
<1>6. Active(adopt_submitted_prompt(v, n))
  BY <1>1, <1>2 DEF adopt_submitted_prompt, Push, Views
<1>7. Active(TurnStarted(v, own))
  BY <1>1, <1>2 DEF TurnStarted, Views
<1>8. Active(TurnParked(v))
  BY <1>1, <1>2, <1>4 DEF TurnParked, StopText, Views
<1>9. Active(Error(v))
  <2>1. [v EXCEPT !.status = "failed"] \in Views
    BY <1>1, StatusView DEF Statuses
  <2> QED
    BY <1>1, <1>2, <2>1 DEF Error, Push, Views
<1>10. Active(DesktopText(Repaired(v)))
  BY <1>2, <1>3, <1>4 DEF DesktopText, Push, StopText, Views
<1>11. Active(PhoneText(v))
  BY <1>1, <1>2 DEF PhoneText, Push, Views
<1> QED
  BY <1>5, <1>6, <1>7, <1>8, <1>9, <1>10, <1>11

-----------------------------------------------------------------------------
(* Nobody is asked anything when no turn runs.                             *)

AskingInv == (asking.desktop => Active(desktop)) /\ (asking.phone => Active(phone))

LEMMA AskingStep ==
  ASSUME TypeOK, BothInv, AskingInv, Next
  PROVE  AskingInv'
<1>1. ViewInv(desktop) /\ ViewInv(phone)
  BY DEF BothInv
<1>2. CASE OnConnected
  BY <1>1, <1>2, TurnRunsOn DEF OnConnected, Fold, AskingInv
<1>3. CASE OnPromptSubmitted
  BY <1>1, <1>3, TurnRunsOn DEF OnPromptSubmitted, Fold, AskingInv
<1>4. CASE OnSteerAccepted
  BY <1>1, <1>4, TurnRunsOn DEF OnSteerAccepted, Fold, AskingInv
<1>5. CASE OnTurnStarted
  BY <1>1, <1>5, TurnRunsOn DEF OnTurnStarted, Fold, Ask, AskingInv
<1>6. CASE OnTurnParked
  BY <1>1, <1>6, TurnRunsOn DEF OnTurnParked, Fold, AskingInv
<1>7. CASE OnTextDelta
  BY <1>1, <1>7, TurnRunsOn DEF OnTextDelta, Fold, Ask, AskingInv, accepts_turn_output
<1>8. CASE OnWork
  <2>1. /\ asking'.desktop = asking.desktop
        /\ asking'.phone => asking.phone
    BY <1>8 DEF OnWork, Ask
  <2>2. /\ Active(desktop) => Active(desktop')
        /\ Active(phone) => Active(phone')
    BY <1>1, <1>8, TurnRunsOn DEF OnWork, Fold, accepts_turn_output
  <2> QED
    BY <2>1, <2>2 DEF AskingInv, Active
<1>9. CASE OnRequest
  BY <1>1, <1>9, TurnRunsOn DEF OnRequest, Fold, Ask, AskingInv, accepts_turn_output
<1>10. ASSUME NEW outcome \in {"completed", "failed"}, OnTurnFinished(outcome)
       PROVE  AskingInv'
  BY <1>10 DEF OnTurnFinished, Ask, AskingInv
<1>11. CASE OnError
  BY <1>1, <1>11, TurnRunsOn DEF OnError, Fold, AskingInv
<1>12. CASE OnProcessExited
  BY <1>12 DEF OnProcessExited, Ask, AskingInv
<1> QED
  BY <1>2, <1>3, <1>4, <1>5, <1>6, <1>7, <1>8, <1>9, <1>10, <1>11, <1>12 DEF Next

-----------------------------------------------------------------------------
(* The two views stay the same: text streams only in the last message, and *)
(* the desktop's stream phase knows it.                                    *)

Still(v) == \A k \in DOMAIN v.rows : ~v.rows[k].streaming

StreamsLast(v, p) ==
  \A k \in DOMAIN v.rows : v.rows[k].streaming => k = Len(v.rows) /\ p = "text"

AlignedInv == aligned => desktop = phone /\ StreamsLast(desktop, phase)

LEMMA StopStill ==
  ASSUME NEW v \in Views
  PROVE  Still(StopText(v)) /\ (Still(v) => StopText(v) = v)
<1>1. Still(StopText(v))
  BY StopTextView, ViewParts DEF Still
<1>2. Still(v) => StopText(v) = v
  BY StopTextQuiet, ViewParts DEF Still
<1> QED
  BY <1>1, <1>2

\* A message that does not stream.
LEMMA PushStill ==
  ASSUME NEW v \in Views, NEW t \in 0..MaxTurns, NEW n \in 0..MaxPrompts, Still(v)
  PROVE  /\ Still(Push(v, "user", t, FALSE, n))
         /\ Still(Push(v, "assistant", t, FALSE, 0))
<1>1. ASSUME NEW r, ~r.streaming PROVE Still([v EXCEPT !.rows = Append(@, r)])
  <2>1. /\ [v EXCEPT !.rows = Append(@, r)].rows = Append(v.rows, r)
        /\ v.rows \in Seq(Rows) /\ Len(v.rows) \in Nat
    BY ViewParts DEF Views
  <2>2. /\ DOMAIN Append(v.rows, r) = 1..(Len(v.rows) + 1)
        /\ \A k \in 1..Len(v.rows) : Append(v.rows, r)[k] = v.rows[k]
        /\ Append(v.rows, r)[Len(v.rows) + 1] = r
    BY <2>1
  <2>3. \A k \in 1..(Len(v.rows) + 1) : k \in 1..Len(v.rows) \/ k = Len(v.rows) + 1
    BY <2>1
  <2>4. \A k \in 1..Len(v.rows) : ~v.rows[k].streaming
    BY ViewParts DEF Still
  <2> QED
    BY <1>1, <2>1, <2>2, <2>3, <2>4 DEF Still
<1> QED
  BY <1>1 DEF Push

\* The answer streams in the last message.
LEMMA PushTail ==
  ASSUME NEW v \in Views, NEW t, Still(v)
  PROVE  StreamsLast(Push(v, "assistant", t, TRUE, 0), "text")
<1> DEFINE r == [role |-> "assistant", turn |-> t, streaming |-> TRUE, prompt |-> 0]
<1>1. /\ Push(v, "assistant", t, TRUE, 0).rows = Append(v.rows, r)
      /\ v.rows \in Seq(Rows) /\ Len(v.rows) \in Nat
  BY ViewParts DEF Push, Views
<1> HIDE DEF r
<1>2. /\ DOMAIN Append(v.rows, r) = 1..(Len(v.rows) + 1)
      /\ Len(Append(v.rows, r)) = Len(v.rows) + 1
      /\ \A k \in 1..Len(v.rows) : Append(v.rows, r)[k] = v.rows[k]
  BY <1>1
<1>3. \A k \in 1..(Len(v.rows) + 1) : k \in 1..Len(v.rows) \/ k = Len(v.rows) + 1
  BY <1>1
<1>4. \A k \in 1..Len(v.rows) : ~v.rows[k].streaming
  BY ViewParts DEF Still
<1> QED
  BY <1>1, <1>2, <1>3, <1>4 DEF StreamsLast

LEMMA SettleStill ==
  ASSUME NEW v, ViewInv(v), Active(v), NEW o \in {"completed", "failed"}
  PROVE  Still(Settle(v, o))
<1>1. v \in Views /\ Len(v.turns) \in 0..MaxTurns
  BY ActiveRange DEF ViewInv
<1>2. StopText(v) \in Views /\ Still(StopText(v))
  BY <1>1, StopTextView, StopStill
<1>3. 0 \in 0..MaxPrompts
  BY <1>1, ActiveRange DEF ViewInv
<1> DEFINE told == IF InTurn(v, "assistant") THEN StopText(v)
                   ELSE Push(StopText(v), "assistant", Len(v.turns), FALSE, 0)
<1>4. Still(told)
  BY <1>1, <1>2, <1>3, PushStill
<1>5. told \in Views
  BY <1>1, <1>2, PushAnswer DEF Answers
<1>6. Settle(v, o).rows = told.rows
  BY <1>5 DEF Settle, Views
<1> QED
  BY <1>4, <1>6 DEF Still

\* What streams is an answer of the running turn.
LEMMA InactiveStill ==
  ASSUME NEW v, ViewInv(v), ~Active(v) \/ ~InTurn(v, "assistant")
  PROVE  Still(v)
BY ViewParts DEF ViewInv, Still, InTurn

LEMMA AlignedStep ==
  ASSUME TypeOK, BothInv, AlignedInv, Next
  PROVE  AlignedInv'
<1> DEFINE v == desktop
<1> SUFFICES ASSUME aligned'
             PROVE  desktop' = phone' /\ StreamsLast(desktop', phase')
  BY DEF AlignedInv
<1>1. /\ ViewInv(v) /\ v \in Views /\ (is_busy(v) => Active(v))
      /\ ActiveTurn(v) \in 0..MaxTurns /\ Len(v.turns) \in 0..MaxTurns /\ 0 \in 0..MaxPrompts
  BY ActiveRange DEF BothInv, ViewInv
<1>2. aligned => desktop = phone /\ StreamsLast(v, phase)
  BY DEF AlignedInv
<1>3. prompts < MaxPrompts /\ prompts' = prompts + 1 => prompts' \in 0..MaxPrompts
  BY ConstantsAssumption DEF TypeOK
<1>4. phase # "text" /\ StreamsLast(v, phase) => Still(v)
  BY DEF StreamsLast, Still
<1>5. Active(v) => Len(v.turns) = ActiveTurn(v)
  BY DEF ActiveTurn
<1>6. CASE OnConnected
  <2>1. aligned /\ desktop' = Connected(v) /\ phone' = Connected(phone) /\ phase' = phase
    BY <1>6 DEF OnConnected, Fold
  <2>2. Connected(v).rows = v.rows
    BY <1>1, ConnectedView
  <2> QED
    BY <1>2, <2>1, <2>2 DEF StreamsLast
<1>7. CASE OnPromptSubmitted
  <2>1. /\ aligned /\ prompts' \in 0..MaxPrompts /\ phase' = phase
        /\ desktop' = adopt_submitted_prompt(v, prompts')
        /\ phone' = adopt_submitted_prompt(phone, prompts')
        /\ ~(Active(phone) /\ ~InTurn(phone, "user") /\ Streaming(phone))
        /\ Len(desktop'.turns) <= MaxTurns
    BY <1>3, <1>7 DEF OnPromptSubmitted, Fold
  <2>2. CASE Active(v) /\ InTurn(v, "user")
    BY <1>2, <2>1, <2>2 DEF adopt_submitted_prompt
  <2>3. CASE Active(v) /\ ~InTurn(v, "user")
    <3>1. Still(v)
      BY <1>2, <2>1, <2>3 DEF Streaming, Still
    <3>2. desktop' = Push(v, "user", Len(v.turns), FALSE, prompts')
      BY <2>1, <2>3 DEF adopt_submitted_prompt
    <3>3. Still(desktop')
      BY <1>1, <2>1, <3>1, <3>2, PushStill
    <3> QED
      BY <1>2, <2>1, <3>3 DEF StreamsLast, Still
  <2>4. CASE ~Active(v)
    <3> DEFINE u == Begin(v, FALSE, "connecting")
               t == Len(v.turns) + 1
    <3>1. desktop' = Push(u, "user", t, FALSE, prompts')
      BY <2>1, <2>4 DEF adopt_submitted_prompt
    <3>2. Len(u.turns) <= MaxTurns
      BY <1>1, <2>1, <3>1 DEF Push, Begin, Views
    <3>3. u \in Views /\ t \in 0..MaxTurns /\ u.rows = v.rows
      <4>1. PICK started \in BOOLEAN, status \in Statuses :
              started = FALSE /\ status = "connecting"
        BY DEF Statuses
      <4>2. u = Begin(v, started, status)
        BY <4>1
      <4> HIDE DEF u
      <4> QED
        BY <1>1, <2>4, <3>2, <4>1, <4>2, BeginView
    <3> HIDE DEF u, t
    <3>4. Still(u)
      BY <1>1, <2>4, <3>3, InactiveStill DEF Still
    <3>5. Still(desktop')
      BY <2>1, <3>1, <3>3, <3>4, PushStill
    <3> QED
      BY <1>2, <2>1, <3>5 DEF StreamsLast, Still
  <2> QED
    BY <2>2, <2>3, <2>4
<1>8. CASE OnSteerAccepted
  <2>1. /\ aligned /\ prompts' \in 0..MaxPrompts
        /\ desktop' = Push(v, "user", ActiveTurn(v), FALSE, prompts')
        /\ phone' = Push(phone, "user", Len(phone.turns), FALSE, prompts')
        /\ ~Streaming(phone) /\ (phone.turns = <<>> \/ Active(phone))
    BY <1>3, <1>8 DEF OnSteerAccepted, Fold
  <2>2. Still(v)
    BY <1>2, <2>1 DEF Streaming, Still
  <2>3. ActiveTurn(v) = Len(v.turns)
    <3>1. v.turns = <<>> => Len(v.turns) = 0 /\ ~Active(v)
      BY DEF Active
    <3> QED
      BY <1>2, <1>5, <2>1, <3>1 DEF ActiveTurn
  <2>4. Still(desktop')
    BY <1>1, <2>1, <2>2, PushStill
  <2> QED
    BY <1>2, <2>1, <2>3, <2>4 DEF StreamsLast, Still
<1>9. CASE OnTurnStarted
  <2>1. /\ aligned /\ phase' = phase
        /\ desktop' = TurnStarted(v, provider # "other")
        /\ phone' = TurnStarted(phone, provider = "claude" /\ ~is_busy(phone))
        /\ ~(provider = "opencode" /\ ~Active(phone))
    BY <1>9 DEF OnTurnStarted, Fold
  <2>2. provider \in {"claude", "opencode", "other"}
    BY ConstantsAssumption DEF TypeOK
  <2>3. desktop' = phone'
    BY <1>1, <1>2, <2>1, <2>2 DEF TurnStarted
  <2>4. desktop'.rows = v.rows
    BY <1>1, <2>1 DEF TurnStarted, Begin, Views
  <2> QED
    BY <1>2, <2>1, <2>3, <2>4 DEF StreamsLast
<1>10. CASE OnTurnParked
  <2>1. /\ aligned /\ desktop' = TurnParked(v) /\ phone' = TurnParked(phone)
        /\ phase' = IF Active(v) THEN "none" ELSE phase
    BY <1>10 DEF OnTurnParked, Fold
  <2>2. CASE Active(v)
    <3>1. desktop' = [StopText(v) EXCEPT !.status = "background"]
      BY <2>1, <2>2 DEF TurnParked
    <3>2. desktop'.rows = StopText(v).rows
      BY <1>1, <3>1, StopTextView DEF Views
    <3>3. Still(desktop')
      BY <1>1, <3>2, StopStill DEF Still
    <3> QED
      BY <1>2, <2>1, <3>3 DEF StreamsLast, Still
  <2>3. CASE ~Active(v)
    BY <1>2, <2>1, <2>3 DEF TurnParked
  <2> QED
    BY <2>2, <2>3
<1>11. accepts_turn_output(v) /\ ~Early /\ aligned => Repaired(v) = v
  <2> SUFFICES ASSUME accepts_turn_output(v), v.started, v.status # "connecting"
               PROVE  Repaired(v) = v
    BY <1>1, <1>2 DEF Early, accepts_turn_output, ViewInv
  <2>1. Connected(v) = v
    BY DEF Connected
  <2>2. v.started = TRUE
    BY <1>1 DEF Views
  <2> QED
    BY <1>1, <2>1, <2>2 DEF Repaired, Views
<1>12. CASE OnTextDelta
  <2>1. /\ aligned /\ ~Early
        /\ desktop' = IF accepts_turn_output(v) THEN DesktopText(Repaired(v)) ELSE v
        /\ phone' = IF accepts_turn_output(phone) THEN PhoneText(phone) ELSE phone
        /\ phase' = IF accepts_turn_output(v) THEN "text" ELSE phase
    BY <1>12 DEF OnTextDelta, Fold
  <2>2. CASE ~accepts_turn_output(v)
    BY <1>2, <2>1, <2>2
  <2>3. CASE accepts_turn_output(v)
    <3>1. desktop' = DesktopText(v) /\ phone' = PhoneText(v) /\ phase' = "text"
      BY <1>2, <1>11, <2>1, <2>3
    <3>2. CASE ~Still(v)
      <4>1. PICK k \in DOMAIN v.rows : v.rows[k].streaming
        BY <3>2 DEF Still
      <4>2. k = Len(v.rows) /\ phase = "text" /\ v.rows[k].role = "assistant"
        BY <1>1, <1>2, <2>1, <4>1, ViewParts DEF StreamsLast, ViewInv
      <4>3. v.rows # <<>>
        BY <4>1
      <4> QED
        BY <1>2, <2>1, <3>1, <4>1, <4>2, <4>3 DEF DesktopText, PhoneText
    <3>3. CASE Still(v)
      <4>1. ~\E k \in DOMAIN v.rows : v.rows[k].streaming
        BY <3>3 DEF Still
      <4>2. v.rows # <<>> => Len(v.rows) \in DOMAIN v.rows
        BY <1>1, ViewParts
      <4>3. StopText(v) = v
        BY <1>1, <3>3, StopStill
      <4>4. /\ DesktopText(v) = Push(v, "assistant", ActiveTurn(v), TRUE, 0)
            /\ PhoneText(v) = Push(v, "assistant", ActiveTurn(v), TRUE, 0)
        BY <4>1, <4>2, <4>3 DEF DesktopText, PhoneText
      <4> QED
        BY <1>1, <3>1, <3>3, <4>4, PushTail
    <3> QED
      BY <3>2, <3>3
  <2> QED
    BY <2>2, <2>3
<1>13. CASE OnWork
  <2>1. /\ aligned /\ ~Early
        /\ desktop' = IF ~accepts_turn_output(v) THEN v
                      ELSE IF phase = "text" THEN StopText(Repaired(v)) ELSE Repaired(v)
        /\ phone' = IF accepts_turn_output(phone) THEN StopText(phone) ELSE phone
        /\ phase' = IF accepts_turn_output(v) THEN "work" ELSE phase
    BY <1>13 DEF OnWork, Fold
  <2>2. CASE ~accepts_turn_output(v)
    BY <1>2, <2>1, <2>2
  <2>3. CASE accepts_turn_output(v)
    <3>1. phone' = StopText(v) /\ desktop' = IF phase = "text" THEN StopText(v) ELSE v
      BY <1>2, <1>11, <2>1, <2>3
    <3>2. phase # "text" => StopText(v) = v
      BY <1>1, <1>2, <1>4, <2>1, StopStill
    <3>3. Still(StopText(v))
      BY <1>1, StopStill
    <3> QED
      BY <3>1, <3>2, <3>3 DEF StreamsLast, Still
  <2> QED
    BY <2>2, <2>3
<1>14. CASE OnRequest
  <2>1. /\ aligned /\ ~Early /\ phase' = phase
        /\ desktop' = IF accepts_turn_output(v)
                      THEN [Repaired(v) EXCEPT !.status = "waiting"] ELSE v
        /\ phone' = IF accepts_turn_output(phone)
                    THEN [phone EXCEPT !.status = "waiting"] ELSE phone
    BY <1>14 DEF OnRequest, Fold
  <2>2. desktop' = phone'
    BY <1>2, <1>11, <2>1
  <2>3. phone'.rows = v.rows
    BY <1>1, <1>2, <2>1 DEF Views
  <2> QED
    BY <1>2, <2>1, <2>2, <2>3 DEF StreamsLast
<1>15. ASSUME NEW outcome \in {"completed", "failed"}, OnTurnFinished(outcome)
       PROVE  desktop' = phone' /\ StreamsLast(desktop', phase')
  <2>1. /\ aligned /\ desktop' = TurnFinished(v, outcome) /\ phone' = TurnFinished(phone, outcome)
        /\ phase' = IF Active(v) THEN "none" ELSE phase
    BY <1>15 DEF OnTurnFinished, Fold
  <2>2. Active(v) => Still(desktop')
    BY <1>1, <2>1, SettleStill DEF TurnFinished
  <2> QED
    BY <1>2, <2>1, <2>2 DEF TurnFinished, StreamsLast, Still
<1>16. CASE OnError
  <2>1. aligned /\ desktop' = Error(v) /\ phone' = Error(phone) /\ phase' = phase
    BY <1>16 DEF OnError, Fold
  <2> DEFINE u == [v EXCEPT !.status = "failed"]
  <2>2. u \in Views /\ u.rows = v.rows
    BY <1>1, StatusView DEF Statuses
  <2>3. \/ Error(v) \in {v, u}
        \/ ~InTurn(v, "assistant") /\ Error(v) = Push(u, "assistant", Len(v.turns), FALSE, 0)
    BY DEF Error
  <2> HIDE DEF u
  <2>4. CASE Error(v) \in {v, u}
    BY <1>2, <2>1, <2>2, <2>4 DEF StreamsLast
  <2>5. CASE ~InTurn(v, "assistant") /\ Error(v) = Push(u, "assistant", Len(v.turns), FALSE, 0)
    <3>1. Still(u)
      BY <1>1, <2>2, <2>5, InactiveStill DEF Still
    <3>2. Still(desktop')
      BY <1>1, <2>1, <2>2, <2>5, <3>1, PushStill
    <3> QED
      BY <1>2, <2>1, <3>2 DEF StreamsLast, Still
  <2> QED
    BY <2>3, <2>4, <2>5
<1>17. CASE OnProcessExited
  <2>1. /\ aligned /\ ~(Active(phone) /\ ~is_busy(phone))
        /\ desktop' = DesktopExit(v) /\ phone' = PhoneExit(phone)
    BY <1>17 DEF OnProcessExited, Fold
  <2>2. DesktopExit(v) = PhoneExit(v)
    BY <1>2, <2>1 DEF DesktopExit, PhoneExit
  <2>3. Still(PhoneExit(v))
    BY <1>1, SettleStill, StopStill DEF PhoneExit
  <2> QED
    BY <1>2, <2>1, <2>2, <2>3 DEF StreamsLast, Still
<1> QED
  BY <1>6, <1>7, <1>8, <1>9, <1>10, <1>12, <1>13, <1>14, <1>15, <1>16, <1>17 DEF Next

-----------------------------------------------------------------------------
(* Theorems.                                                               *)

IInv == TypeOK /\ BothInv /\ AskingInv /\ AlignedInv

LEMMA AskingType ==
  ASSUME NEW b \in BOOLEAN, NEW c \in BOOLEAN
  PROVE  [desktop |-> b, phone |-> c] \in [{"desktop", "phone"} -> BOOLEAN]
OBVIOUS

LEMMA InitIInv == Init => IInv
<1> SUFFICES ASSUME Init PROVE IInv
  OBVIOUS
<1>1. <<>> \in Seq(TurnStatuses) /\ <<>> \in Seq(Rows) /\ Len(<<>>) = 0
  OBVIOUS
<1>2. desktop \in Views /\ phone = desktop
  BY <1>1 DEF Init, Views, Statuses
<1>3. /\ Len(desktop.turns) = 0 /\ Len(desktop.rows) = 0 /\ desktop.rows = <<>>
      /\ desktop.status = "idle" /\ ~Active(desktop)
  BY <1>1 DEF Init, Active
<1>4. TypeOK
  <2>1. asking \in [{"desktop", "phone"} -> BOOLEAN]
    <3>1. PICK b \in BOOLEAN : b = FALSE
      OBVIOUS
    <3>2. asking = [desktop |-> b, phone |-> b]
      BY <3>1 DEF Init
    <3> QED
      BY <3>2, AskingType
  <2>2. provider \in Providers /\ phase \in Phases /\ aligned \in BOOLEAN
    BY DEF Init, Phases
  <2>3. prompts \in 0..MaxPrompts
    BY ConstantsAssumption DEF Init
  <2> QED
    BY <1>2, <2>1, <2>2, <2>3 DEF TypeOK
<1>5. ViewInv(desktop)
  BY <1>2, <1>3, ConstantsAssumption DEF ViewInv, is_busy
<1>6. AskingInv /\ AlignedInv
  BY <1>2, <1>3 DEF Init, AskingInv, AlignedInv, StreamsLast
<1> QED
  BY <1>2, <1>4, <1>5, <1>6 DEF IInv, BothInv

LEMMA NextIInv == IInv /\ [Next]_vars => IInv'
<1> SUFFICES ASSUME IInv, [Next]_vars PROVE IInv'
  OBVIOUS
<1>1. CASE UNCHANGED vars
  BY <1>1 DEF IInv, vars, TypeOK, BothInv, ViewInv, AskingInv, AlignedInv, StreamsLast, Active, is_busy,
     Answered
<1>2. CASE Next
  <2>1. Evolves(desktop, desktop') /\ Evolves(phone, phone')
    BY <1>2, BothEvolve DEF IInv
  <2>2. ViewInv(desktop') /\ ViewInv(phone')
    BY <2>1, EvolvesKeeps DEF IInv, BothInv
  <2>3. AskingInv' /\ AlignedInv'
    BY <1>2, AskingStep, AlignedStep DEF IInv
  <2>4. TypeOK'
    <3>1. desktop' \in Views /\ phone' \in Views
      BY <2>1 DEF Evolves
    <3>2. provider' = provider /\ phase' \in Phases
      BY <1>2
         DEF IInv, TypeOK, Next, Fold, Phases, OnConnected, OnPromptSubmitted, OnSteerAccepted,
             OnTurnStarted, OnTurnParked, OnTextDelta, OnWork, OnRequest, OnTurnFinished, OnError,
             OnProcessExited
    <3>3. prompts' \in 0..MaxPrompts
      <4>1. prompts' = prompts \/ (prompts < MaxPrompts /\ prompts' = prompts + 1)
        BY <1>2
           DEF Next, OnConnected, OnPromptSubmitted, OnSteerAccepted, OnTurnStarted, OnTurnParked,
               OnTextDelta, OnWork, OnRequest, OnTurnFinished, OnError, OnProcessExited
      <4> QED
        BY <4>1, ConstantsAssumption DEF IInv, TypeOK
    <3>4. aligned' \in BOOLEAN
      BY <1>2
         DEF IInv, TypeOK, Next, Fold, OnConnected, OnPromptSubmitted, OnSteerAccepted,
             OnTurnStarted, OnTurnParked, OnTextDelta, OnWork, OnRequest, OnTurnFinished, OnError,
             OnProcessExited
    <3>5. asking' \in [{"desktop", "phone"} -> BOOLEAN]
      <4>1. asking \in [{"desktop", "phone"} -> BOOLEAN]
        BY DEF IInv, TypeOK
      <4>2. asking.desktop \in BOOLEAN /\ asking.phone \in BOOLEAN
        BY <4>1
      <4>3. \/ asking' = asking
            \/ \E b \in BOOLEAN, c \in BOOLEAN : asking' = [desktop |-> b, phone |-> c]
        BY <1>2, <4>2
           DEF Next, Ask, OnConnected, OnPromptSubmitted, OnSteerAccepted, OnTurnStarted,
               OnTurnParked, OnTextDelta, OnWork, OnRequest, OnTurnFinished, OnError,
               OnProcessExited, accepts_turn_output, Active, is_busy
      <4> QED
        BY <4>1, <4>3, AskingType
    <3> QED
      BY <3>1, <3>2, <3>3, <3>4, <3>5 DEF IInv, TypeOK
  <2> QED
    BY <2>2, <2>3, <2>4 DEF IInv, BothInv
<1> QED
  BY <1>1, <1>2

THEOREM Inductive == Spec => []IInv
BY InitIInv, NextIInv, PTL DEF Spec

\* The views stay transcripts: whatever order the events come in, every
\* handler keeps the statuses, the turns and the messages well formed.
THEOREM TypeCorrect == Spec => []TypeOK
<1>1. IInv => TypeOK
  BY DEF IInv
<1> QED
  BY <1>1, Inductive, PTL

\* Only the newest turn of a view runs, every settled turn has an answer, and
\* a busy task has a running turn, on the desktop and on the phone.
THEOREM TurnsStayInOrder == Spec => []TurnsInOrder
<1>1. IInv => TurnsInOrder
  <2> SUFFICES ASSUME IInv, NEW v \in {desktop, phone}
               PROVE  /\ \A n \in DOMAIN v.turns : v.turns[n] = "running" => n = Len(v.turns)
                      /\ \A n \in DOMAIN v.turns :
                           v.turns[n] # "running" =>
                             \E k \in DOMAIN v.rows :
                               v.rows[k].role = "assistant" /\ v.rows[k].turn = n
                      /\ is_busy(v) => Active(v)
    BY DEF TurnsInOrder
  <2>1. ViewInv(v)
    BY DEF IInv, BothInv
  <2>2. DOMAIN v.turns = 1..Len(v.turns) /\ DOMAIN v.rows = 1..Len(v.rows)
    BY <2>1, ViewParts DEF ViewInv
  <2> QED
    BY <2>1, <2>2 DEF ViewInv, Answered
<1> QED
  BY <1>1, Inductive, PTL

\* Nobody is asked anything, and no text streams, once the turn has ended.
THEOREM TurnsEndCleanly == Spec => []NothingOutlivesItsTurn
<1>1. IInv => NothingOutlivesItsTurn
  BY ViewParts DEF IInv, BothInv, AskingInv, ViewInv, NothingOutlivesItsTurn, ActiveTurn
<1> QED
  BY <1>1, Inductive, PTL

\* While no event comes that they handle differently, the desktop's reducer
\* and the phone's give the same transcript.
THEOREM ReducersAgree == Spec => []SameTranscript
<1>1. IInv => SameTranscript
  BY DEF IInv, AlignedInv, SameTranscript
<1> QED
  BY <1>1, Inductive, PTL

\* A settled turn keeps its outcome and its answer, whatever comes late.
THEOREM SettledIsFinal == Spec => SettledStaysSettled
<1>1. ASSUME IInv, [Next]_vars PROVE [Frozen(desktop, desktop') /\ Frozen(phone, phone')]_vars
  <2>1. CASE Next
    <3>1. Evolves(desktop, desktop') /\ Evolves(phone, phone')
      BY <1>1, <2>1, BothEvolve DEF IInv
    <3> QED
      BY <1>1, <3>1, EvolvesKeeps DEF IInv, BothInv
  <2> QED
    BY <1>1, <2>1
<1> QED
  BY <1>1, Inductive, PTL DEF Spec, SettledStaysSettled

=============================================================================

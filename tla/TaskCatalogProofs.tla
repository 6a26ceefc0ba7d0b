-------------------------- MODULE TaskCatalogProofs --------------------------
(***************************************************************************)
(* What TaskCatalog guarantees for any number of clients, saves, events,   *)
(* failed loads and daemon restarts.                                       *)
(***************************************************************************)
EXTENDS TaskCatalog, TLAPS

-----------------------------------------------------------------------------
(* Rows.                                                                   *)

LEMMA RowParts ==
  ASSUME NEW r \in Rows
  PROVE  /\ r # NoRow
         /\ r.archived \in BOOLEAN /\ r.seq \in 0..MaxSeq /\ r.seq \in Nat
         /\ r.history \in BOOLEAN /\ r.loaded \in BOOLEAN
BY NoRowAssumption, ConstantsAssumption DEF Rows

LEMMA SkeletonRow ==
  ASSUME NEW r \in Rows \cup {NoRow}, NEW w, w = Skeleton(r)
  PROVE  /\ w \in Rows \cup {NoRow} /\ (w = NoRow <=> r = NoRow)
         /\ w # NoRow => w.archived = r.archived /\ w.seq = 0
<1>1. 0 \in 0..MaxSeq
  BY ConstantsAssumption
<1> QED
  BY <1>1, NoRowAssumption DEF Skeleton, Rows

LEMMA OnWireRow ==
  ASSUME NEW r \in Rows, NEW w, w = OnWire(r)
  PROVE  w \in Rows /\ w.archived = r.archived /\ w.seq = r.seq /\ w.loaded = TRUE
BY DEF OnWire, Rows

LEMMA WrittenRow ==
  ASSUME NEW r \in Rows, stored \in Rows \cup {NoRow}
  PROVE  /\ Written(r) \in Rows \cup {NoRow}
         /\ Written(r) # NoRow =>
              /\ Written(r).archived = r.archived
              /\ Written(r).seq = r.seq
                 \/ (~r.loaded /\ stored # NoRow /\ Written(r).seq = stored.seq)
              /\ Written(r).loaded = TRUE \/ (stored # NoRow /\ Written(r).loaded = stored.loaded)
<1>1. OnWire(r) \in Rows /\ OnWire(r).archived = r.archived /\ OnWire(r).seq = r.seq
      /\ OnWire(r).loaded = TRUE
  BY OnWireRow
<1>2. ASSUME stored # NoRow
      PROVE  /\ [stored EXCEPT !.archived = r.archived] \in Rows
             /\ [stored EXCEPT !.archived = r.archived].archived = r.archived
             /\ [stored EXCEPT !.archived = r.archived].seq = stored.seq
             /\ [stored EXCEPT !.archived = r.archived].loaded = stored.loaded
  <2>1. stored \in Rows
    BY <1>2
  <2> QED
    BY <2>1 DEF Rows
<1> QED
  BY <1>1, <1>2 DEF Written

LEMMA TrimmedRow ==
  ASSUME NEW r \in Rows, NEW live \in BOOLEAN, NEW w \in Trimmed(r, live)
  PROVE  w \in Rows /\ w.archived = r.archived /\ w.seq = r.seq
BY DEF Trimmed, Rows

LEMMA HydratedRow ==
  ASSUME NEW r \in Rows, stored \in Rows \cup {NoRow}, NEW w, w = Hydrated(r)
  PROVE  /\ w \in Rows /\ w.archived = r.archived
         /\ w.loaded = TRUE \/ (stored # NoRow /\ w.loaded = stored.loaded)
         /\ w.seq = r.seq \/ (~r.loaded /\ stored # NoRow /\ w.seq = stored.seq)
<1>1. CASE r.loaded \/ stored = NoRow
  BY <1>1 DEF Hydrated, Rows
<1>2. CASE ~r.loaded /\ stored \in Rows
  <2>1. stored # NoRow
    BY <1>2, NoRowAssumption
  <2> QED
    BY <1>2, <2>1 DEF Hydrated, Rows
<1> QED
  BY <1>1, <1>2

\* The row after a save.
LEMMA SavedRow ==
  ASSUME NEW r \in Rows, row \in Rows \cup {NoRow}, NEW live, NEW busy, NEW older,
         NEW w, w = Saved(r, live, busy, older)
  PROVE  /\ w \in Rows
         /\ w.archived = IF row = NoRow THEN r.archived ELSE row.archived
         /\ \/ w.seq = r.seq /\ w.loaded = r.loaded
            \/ row # NoRow /\ w = row
<1>1. CASE row = NoRow
  BY <1>1 DEF Saved
<1>2. CASE row # NoRow
  <2>1. row \in Rows
    BY <1>2
  <2>2. w = row \/ w = [r EXCEPT !.archived = row.archived]
    BY <1>2 DEF Saved, adopt_client_projection
  <2> QED
    BY <1>2, <2>1, <2>2 DEF Rows
<1> QED
  BY <1>1, <1>2

-----------------------------------------------------------------------------
(* Types.                                                                  *)

\* A save that has not been served carries a row.
Carried == \A s \in SaveIds : saves[s].pc \in {"sample", "apply"} => saves[s].row \in Rows

TypeInv == TypeOK /\ Carried

\* A save comes in, and is served.
LEMMA SendType ==
  ASSUME TypeInv, NEW c \in Clients, NEW r \in Rows, Send(c, r)
  PROVE  /\ saves' \in [SaveIds -> Requests]
         /\ spent' \in Nat /\ Carried'
<1> DEFINE new == [pc |-> "sample", from |-> c, row |-> r, live |-> FALSE]
<1>1. PICK s \in SaveIds : saves' = [saves EXCEPT ![s] = new]
  BY DEF Send, NoSave
<1>2. new \in Requests /\ new.row = r
  BY DEF Requests, SavePcs
<1> HIDE DEF new
<1> QED
  BY <1>1, <1>2 DEF TypeInv, TypeOK, Carried, Send, Spend

LEMMA EndedType == Ended \in Requests /\ Ended.pc \notin {"sample", "apply"} /\ Ended.row = NoRow
BY DEF Ended, NoSave, Requests, SavePcs

\* The steps of a save's worker.
LEMMA SampleParts ==
  ASSUME TypeInv, NEW s \in SaveIds, SampleRuntimes(s)
  PROVE  /\ saves[s].pc = "sample" /\ saves' \in [SaveIds -> Requests]
         /\ saves'[s].pc = "apply" /\ saves'[s].row = saves[s].row
         /\ saves'[s].live = (runtime = "live")
         /\ \A u \in SaveIds \ {s} : saves'[u] = saves[u]
<1>1. saves \in [SaveIds -> Requests]
  BY DEF TypeInv, TypeOK
<1>2. saves' = [saves EXCEPT ![s] = [@ EXCEPT !.pc = "apply", !.live = (runtime = "live")]]
  BY <1>1 DEF SampleRuntimes, Requests
<1> QED
  BY <1>1, <1>2 DEF SampleRuntimes, Requests, SavePcs

LEMMA ApplyFrame ==
  ASSUME TypeInv, NEW s \in SaveIds, ApplySave(s)
  PROVE  /\ saves' \in [SaveIds -> Requests]
         /\ saves'[s].pc \notin {"sample", "apply"} /\ saves'[s].row = NoRow
         /\ \A u \in SaveIds \ {s} : saves'[u] = saves[u]
<1>1. saves \in [SaveIds -> Requests]
  BY DEF TypeInv, TypeOK
<1>2. CASE saves' = [saves EXCEPT ![s] = Ended]
  BY <1>1, <1>2, EndedType
<1>3. CASE saves' = [saves EXCEPT ![s].pc = "tell", ![s].row = NoRow, ![s].live = FALSE]
  <2>1. saves' = [saves EXCEPT ![s] = [@ EXCEPT !.pc = "tell", !.row = NoRow, !.live = FALSE]]
    BY <1>1, <1>3 DEF Requests
  <2> QED
    BY <1>1, <2>1 DEF Requests, SavePcs
<1> QED
  BY <1>2, <1>3 DEF ApplySave, Apply

\* What a save does to the row: a task the daemon does not know comes with all
\* the client shows, of another one the archive stamp is the daemon's.
LEMMA ApplyParts ==
  ASSUME TypeInv, NEW s \in SaveIds, ApplySave(s), ~removed,
         NEW live, live = saves[s].live
  PROVE  /\ live \in BOOLEAN
         /\ UNCHANGED <<removed, runtime>>
         /\ \E r \in Rows, busy, older \in BOOLEAN, new \in Rows :
              /\ r.seq = saves[s].row.seq /\ r.loaded = TRUE
              /\ new = Saved(r, live, busy, older)
              /\ new.archived = IF row = NoRow THEN r.archived ELSE row.archived
              /\ new = row \/ (new.seq = r.seq /\ new.loaded = TRUE)
              /\ stored' = Written(new) /\ row' \in Trimmed(new, live)
              /\ best' = Brought(r, live)
              /\ chosen' = (IF row = NoRow THEN r.archived ELSE chosen)
<1> DEFINE r == OnWire(saves[s].row)
<1>1. Apply(s, r) /\ UNCHANGED <<removed, runtime>>
  BY DEF ApplySave
<1>2. r \in Rows /\ r.seq = saves[s].row.seq /\ r.loaded = TRUE
  <2>1. saves[s].row \in Rows
    BY DEF TypeInv, Carried, ApplySave
  <2> QED
    BY <2>1, OnWireRow
<1>3. live \in BOOLEAN
  BY DEF TypeInv, TypeOK, Requests
<1> HIDE DEF r
<1>4. PICK busy \in BOOLEAN, older \in BOOLEAN :
        /\ stored' = Written(Saved(r, live, busy, older))
        /\ row' \in Trimmed(Saved(r, live, busy, older), live)
  BY <1>1 DEF Apply
<1>5. PICK new : new = Saved(r, live, busy, older)
  OBVIOUS
<1>6. /\ new \in Rows
      /\ new.archived = IF row = NoRow THEN r.archived ELSE row.archived
      /\ new = row \/ (new.seq = r.seq /\ new.loaded = TRUE)
  <2>1. row \in Rows \cup {NoRow}
    BY DEF TypeInv, TypeOK
  <2> QED
    BY <1>2, <1>5, <2>1, SavedRow
<1>7. /\ best' = Brought(r, live)
      /\ chosen' = IF row = NoRow THEN r.archived ELSE chosen
  BY <1>1 DEF Apply
<1> QED
  BY <1>1, <1>2, <1>3, <1>4, <1>5, <1>6, <1>7

LEMMA SaveTypes ==
  ASSUME TypeInv, NEW s \in SaveIds, SampleRuntimes(s) \/ ApplySave(s) \/ TellSaved(s)
  PROVE  TypeInv'
<1>1. CASE SampleRuntimes(s)
  <2>1. saves' \in [SaveIds -> Requests] /\ Carried'
    BY <1>1, SampleParts DEF TypeInv, Carried
  <2> QED
    BY <1>1, <2>1 DEF SampleRuntimes, TypeInv, TypeOK, daemonVars, clientVars, syncVars,
                      historyVars
<1>2. CASE ApplySave(s) /\ ~removed
  <2> DEFINE live == saves[s].live
  <2>1. /\ live \in BOOLEAN
        /\ \E r \in Rows, new \in Rows :
             /\ stored' = Written(new) /\ row' \in Trimmed(new, live)
             /\ best' = Brought(r, live)
             /\ chosen' = (IF row = NoRow THEN r.archived ELSE chosen)
    BY <1>2, ApplyParts
  <2> HIDE DEF live
  <2>2. row' \in Rows /\ stored' \in Rows \cup {NoRow}
    BY <2>1, WrittenRow, TrimmedRow DEF TypeInv, TypeOK
  <2>3. best' \in Nat /\ chosen' \in BOOLEAN
    BY <2>1, RowParts DEF TypeInv, TypeOK, Newest, Brought
  <2>4. saves' \in [SaveIds -> Requests] /\ Carried'
    BY <1>2, ApplyFrame DEF TypeInv, Carried
  <2> QED
    BY <1>2, <2>2, <2>3, <2>4 DEF ApplySave, TypeInv, TypeOK, clientVars, syncVars
<1>3. CASE ApplySave(s) /\ removed
  <2>1. saves' \in [SaveIds -> Requests] /\ Carried'
    BY <1>3, ApplyFrame DEF TypeInv, Carried
  <2> QED
    BY <1>3, <2>1 DEF ApplySave, TypeInv, TypeOK, clientVars, syncVars
<1>4. CASE TellSaved(s)
  <2>1. saves' \in [SaveIds -> Requests] /\ Carried'
    BY <1>4, EndedType DEF TellSaved, TypeInv, TypeOK, Carried
  <2> QED
    BY <1>4, <2>1
       DEF TellSaved, TypeInv, TypeOK, daemonVars, clientVars, historyVars, Broadcast
<1> QED
  BY <1>1, <1>2, <1>3, <1>4

LEMMA CommandTypes ==
  ASSUME TypeInv, ApplyRemove \/ ApplyArchive \/ TellCommand
  PROVE  TypeInv'
<1>1. mailbox # <<>> => Head(mailbox) \in Commands /\ Tail(mailbox) \in Seq(Commands)
  BY DEF TypeInv, TypeOK
<1>2. mailbox # <<>> => /\ Head(mailbox).from \in Clients
                        /\ Head(mailbox).archive \in BOOLEAN
  BY <1>1 DEF Commands
<1>3. CASE ApplyRemove
  BY <1>1, <1>2, <1>3 DEF ApplyRemove, TypeInv, TypeOK, Carried, clientVars, syncVars
<1>4. CASE ApplyArchive /\ row = NoRow
  BY <1>1, <1>4 DEF ApplyArchive, TypeInv, TypeOK, Carried, clientVars, syncVars
<1>5. CASE ApplyArchive /\ row # NoRow
  <2>1. row \in Rows /\ row' = [row EXCEPT !.archived = Head(mailbox).archive]
    BY <1>5 DEF ApplyArchive, TypeInv, TypeOK
  <2>2. row' \in Rows
    BY <1>2, <1>5, <2>1 DEF ApplyArchive, Rows
  <2>3. stored' \in Rows \cup {NoRow}
    BY <1>5, <2>2, WrittenRow DEF ApplyArchive, TypeInv, TypeOK
  <2> QED
    BY <1>2, <1>5, <2>2, <2>3 DEF ApplyArchive, TypeInv, TypeOK, Carried, clientVars, syncVars
<1>6. CASE TellCommand
  BY <1>1, <1>6
     DEF TellCommand, TypeInv, TypeOK, Carried, daemonVars, clientVars, historyVars, Broadcast
<1> QED
  BY <1>3, <1>4, <1>5, <1>6

LEMMA RuntimeTypes ==
  ASSUME TypeInv, StartRuntime \/ CloseRuntime
  PROVE  TypeInv'
BY DEF StartRuntime, CloseRuntime, TypeInv, TypeOK, Carried, requestVars, clientVars, syncVars,
       historyVars

LEMMA PostType ==
  ASSUME TypeInv, NEW c \in Clients, NEW remove \in BOOLEAN, NEW archive \in BOOLEAN,
         Post(c, remove, archive)
  PROVE  mailbox' \in Seq(Commands) /\ mailbox' # <<>> /\ spent' \in Nat
<1>1. [remove |-> remove, archive |-> archive, from |-> c] \in Commands
  BY DEF Commands
<1> QED
  BY <1>1 DEF Post, Spend, TypeInv, TypeOK

LEMMA ClientTypes ==
  ASSUME TypeInv, NEW c \in Clients,
         \/ CreateTask(c) \/ Observe(c) \/ Save(c)
         \/ persist_archived(c) \/ remove_session(c)
  PROVE  TypeInv'
<1>1. local[c] \in Rows \cup {NoRow}
  BY DEF TypeInv, TypeOK
<1>2. local[c] # NoRow => local[c] \in Rows /\ local[c].archived \in BOOLEAN
  BY <1>1, RowParts
<1>3. CASE CreateTask(c)
  <2> DEFINE r == [archived |-> FALSE, seq |-> 0, history |-> TRUE, loaded |-> TRUE]
  <2>1. r \in Rows
    BY ConstantsAssumption DEF Rows
  <2>2. Send(c, r) /\ local' = [local EXCEPT ![c] = r]
    BY <1>3 DEF CreateTask
  <2> HIDE DEF r
  <2>3. /\ saves' \in [SaveIds -> Requests]
        /\ spent' \in Nat /\ Carried'
    BY <2>1, <2>2, SendType
  <2> QED
    BY <1>3, <2>1, <2>2, <2>3 DEF CreateTask, TypeInv, TypeOK, daemonVars, syncVars, historyVars
<1>4. CASE Observe(c)
  <2>1. local' = [local EXCEPT ![c] = [local[c] EXCEPT !.seq = local[c].seq + 1, !.history = TRUE]]
    BY <1>4 DEF Observe
  <2>2. local[c] \in Rows /\ local[c].loaded /\ local[c].seq + 1 \in 0..MaxSeq
    BY <1>2, <1>4, RowParts, ConstantsAssumption DEF Observe
  <2>3. [local[c] EXCEPT !.seq = local[c].seq + 1, !.history = TRUE] \in Rows
    BY <2>2 DEF Rows
  <2>4. local' \in [Clients -> Rows \cup {NoRow}]
    BY <2>1, <2>3 DEF TypeInv, TypeOK
  <2> QED
    BY <1>4, <2>4
       DEF Observe, TypeInv, TypeOK, Carried, daemonVars, requestVars, syncVars, historyVars
<1>5. CASE Save(c)
  BY <1>2, <1>5, SendType
     DEF Save, TypeInv, TypeOK, daemonVars, clientVars, syncVars, historyVars
<1>6. CASE persist_archived(c)
  <2>1. local[c] \in Rows /\ Post(c, FALSE, ~local[c].archived)
    BY <1>2, <1>6 DEF persist_archived
  <2>2. mailbox' \in Seq(Commands) /\ mailbox' # <<>> /\ spent' \in Nat
    <3>1. PICK remove \in BOOLEAN, archive \in BOOLEAN :
            remove = FALSE /\ archive = ~local[c].archived
      OBVIOUS
    <3>2. Post(c, remove, archive)
      BY <2>1, <3>1
    <3>3. remove \in BOOLEAN /\ archive \in BOOLEAN
      BY <3>1
    <3> HIDE <2>1
    <3> QED
      BY <3>2, <3>3, PostType
  <2>3. [local[c] EXCEPT !.archived = ~local[c].archived] \in Rows
    BY <2>1 DEF Rows
  <2>4. local' = [local EXCEPT ![c] = [local[c] EXCEPT !.archived = ~local[c].archived]]
    BY <1>6 DEF persist_archived
  <2>5. local' \in [Clients -> Rows \cup {NoRow}]
    BY <2>3, <2>4 DEF TypeInv, TypeOK
  <2>6. UNCHANGED <<daemonVars, saves, telling, degraded, syncVars, historyVars>>
    BY <1>6 DEF persist_archived
  <2> HIDE <1>6, <2>1
  <2> QED
    BY <2>2, <2>5, <2>6
       DEF TypeInv, TypeOK, Carried, daemonVars, syncVars, historyVars
<1>7. CASE remove_session(c)
  <2>1. mailbox' \in Seq(Commands) /\ (mailbox' # <<>> \/ mailbox' = mailbox) /\ spent' \in Nat
    <3>1. PICK remove \in BOOLEAN, archive \in BOOLEAN : remove = TRUE /\ archive = FALSE
      OBVIOUS
    <3>2. Post(c, remove, archive) \/ (Spend /\ UNCHANGED mailbox)
      BY <1>7, <3>1 DEF remove_session
    <3>3. remove \in BOOLEAN /\ archive \in BOOLEAN
      BY <3>1
    <3>4. CASE Post(c, remove, archive)
      BY <3>3, <3>4, PostType
    <3>5. CASE Spend /\ UNCHANGED mailbox
      BY <1>2, <3>5 DEF Spend, TypeInv, TypeOK
    <3> QED
      BY <3>2, <3>4, <3>5
  <2> QED
    BY <1>7, <2>1
       DEF remove_session, TypeInv, TypeOK, Carried, daemonVars, syncVars, historyVars
<1> QED
  BY <1>3, <1>4, <1>5, <1>6, <1>7

LEMMA ListTypes ==
  ASSUME TypeInv, NEW c \in Clients,
         \/ HydrateSession(c) \/ Drain(c)
         \/ LoadTaskState(c) \/ LoadReply(c) \/ SyncFails(c)
  PROVE  TypeInv'
<1>1. CASE HydrateSession(c)
  <2>1. row \in Rows /\ row' \in Trimmed(Hydrated(row), FALSE) /\ local' = [local EXCEPT ![c] = Hydrated(row)]
    BY <1>1 DEF HydrateSession, TypeInv, TypeOK
  <2>2. Hydrated(row) \in Rows
    BY <2>1, HydratedRow DEF TypeInv, TypeOK
  <2>3. row' \in Rows
    BY <2>1, <2>2, TrimmedRow
  <2> QED
    BY <1>1, <2>1, <2>2, <2>3
       DEF HydrateSession, TypeInv, TypeOK, Carried, requestVars, syncVars, historyVars
<1>2. CASE Drain(c) /\ (result[c] = Failure \/ degraded[c])
  BY <1>2 DEF Drain, TypeInv, TypeOK, Carried, daemonVars, requestVars
<1>3. CASE Drain(c) /\ ~(result[c] = Failure \/ degraded[c])
  <2>1. result[c] \in Rows \cup {NoRow}
    BY <1>3 DEF Drain, TypeInv, TypeOK
  <2>2. Merged(local[c], result[c]) \in Rows \cup {NoRow}
    BY <2>1 DEF Merged, TypeInv, TypeOK
  <2> QED
    BY <1>3, <2>2 DEF Drain, TypeInv, TypeOK, Carried, daemonVars, requestVars
<1>4. CASE LoadTaskState(c)
  <2>1. Skeleton(row) \in Rows \cup {NoRow}
    BY SkeletonRow DEF TypeInv, TypeOK
  <2> QED
    BY <1>4, <2>1
       DEF LoadTaskState, TypeInv, TypeOK, Carried, SyncPcs, daemonVars, requestVars, clientVars,
           historyVars
<1>5. CASE LoadReply(c)
  BY <1>5
     DEF LoadReply, TypeInv, TypeOK, Carried, SyncPcs, daemonVars, requestVars, clientVars,
         historyVars
<1>6. CASE SyncFails(c)
  BY <1>6
     DEF SyncFails, Spend, TypeInv, TypeOK, Carried, SyncPcs, daemonVars, requestVars, clientVars
<1> QED
  BY <1>1, <1>2, <1>3, <1>4, <1>5, <1>6

LEMMA RestartTypes ==
  ASSUME TypeInv, Restart
  PROVE  TypeInv'
<1>1. row' \in Rows \cup {NoRow} /\ stored' = stored
  BY SkeletonRow DEF Restart, TypeInv, TypeOK
<1>2. /\ saves' \in [SaveIds -> Requests]
      /\ Carried'
  BY EndedType DEF Restart, TypeInv, TypeOK, Carried
<1>3. mailbox' \in Seq(Commands) /\ ~telling'
  BY DEF Restart
<1>4. behind' \in [Clients -> BOOLEAN] /\ sync' \in [Clients -> SyncPcs]
  BY DEF Restart, TypeInv, TypeOK, SyncPcs
<1>5. result' \in [Clients -> Rows \cup {NoRow, Failure, NoResult}]
  BY DEF Restart, TypeInv, TypeOK
<1>6. /\ snapshot' \in [Clients -> Rows \cup {NoRow}] /\ revision' \in [Clients -> BOOLEAN]
      /\ removed' \in BOOLEAN /\ telling' \in BOOLEAN
      /\ remover' \in Clients \cup {NoClient}
  BY DEF Restart
<1>7. runtime' \in {"none", "live", "closed"} /\ spent' \in Nat
  BY DEF Restart, Spend, TypeInv, TypeOK
<1>8. UNCHANGED <<stored, local, degraded, chosen>> /\ best' = 0
  BY DEF Restart
<1>9. /\ TypeOK
  BY DEF TypeInv
<1> HIDE DEF Restart
<1> QED
  BY <1>1, <1>2, <1>3, <1>4, <1>5, <1>6, <1>7, <1>8, <1>9 DEF TypeInv, TypeOK

LEMMA TypeStep ==
  ASSUME TypeInv, [Next]_vars
  PROVE  TypeInv'
<1>1. CASE UNCHANGED vars
  BY <1>1
     DEF vars, daemonVars, requestVars, clientVars, syncVars, historyVars, TypeInv, TypeOK, Carried
<1>2. CASE Next
  BY <1>2, SaveTypes, CommandTypes, RuntimeTypes, ClientTypes, ListTypes, RestartTypes DEF Next
<1> QED
  BY <1>1, <1>2

LEMMA InitStored ==
  ASSUME Init
  PROVE  /\ stored \in Rows \cup {NoRow}
         /\ stored # NoRow => stored.archived = FALSE /\ stored.loaded = TRUE /\ stored.seq = 0
<1>1. CASE stored = NoRow
  BY <1>1
<1>2. CASE stored \in [archived : {FALSE}, seq : {0}, history : {TRUE}, loaded : {TRUE}]
  <2>1. /\ stored.archived = FALSE /\ stored.loaded = TRUE /\ stored.seq = 0
        /\ stored.history = TRUE
    <3>1. /\ stored.archived \in {FALSE} /\ stored.loaded \in {TRUE} /\ stored.seq \in {0}
          /\ stored.history \in {TRUE}
      BY <1>2
    <3> QED
      BY <3>1
  <2>2. stored \in [archived : BOOLEAN, seq : 0..MaxSeq, history : BOOLEAN, loaded : BOOLEAN]
    <3>1. 0 \in 0..MaxSeq /\ {FALSE} \subseteq BOOLEAN /\ {TRUE} \subseteq BOOLEAN
      BY ConstantsAssumption
    <3> QED
      BY <1>2, <3>1
  <2> QED
    BY <2>1, <2>2 DEF Rows
<1> QED
  BY <1>1, <1>2 DEF Init

LEMMA InitType == Init => TypeInv
<1> SUFFICES ASSUME Init PROVE TypeInv
  OBVIOUS
<1>1. stored \in Rows \cup {NoRow}
  BY InitStored
<1>2. row \in Rows \cup {NoRow}
  BY <1>1, SkeletonRow DEF Init
<1>3. /\ saves \in [SaveIds -> Requests]
      /\ Carried
  BY DEF Init, NoSave, Requests, SavePcs, Carried
<1>4. mailbox \in Seq(Commands) /\ ~telling
  BY DEF Init
<1> QED
  BY <1>1, <1>2, <1>3, <1>4 DEF Init, TypeInv, TypeOK, SyncPcs

-----------------------------------------------------------------------------
(* The daemon's row and its copy agree with the commands.                  *)

CatalogInv ==
  /\ removed => row = NoRow
  /\ row = NoRow => stored = NoRow
  /\ stored # NoRow => stored.archived = chosen /\ stored.loaded = TRUE
  /\ row # NoRow => row.archived = chosen

LEMMA CatalogFrame ==
  ASSUME CatalogInv, UNCHANGED <<row, stored, removed, chosen>>
  PROVE  CatalogInv'
BY DEF CatalogInv

LEMMA CatalogStep ==
  ASSUME TypeInv, CatalogInv, Next
  PROVE  CatalogInv'
<1>1. row \in Rows \cup {NoRow} /\ stored \in Rows \cup {NoRow}
  BY DEF TypeInv, TypeOK
<1>2. ASSUME NEW s \in SaveIds, ApplySave(s) PROVE CatalogInv'
  <2>1. CASE removed
    BY <1>2, <2>1, CatalogFrame DEF ApplySave
  <2>2. CASE ~removed
    <3> DEFINE live == saves[s].live
    <3>0. live \in BOOLEAN /\ UNCHANGED removed
      BY <1>2, <2>2, ApplyParts
    <3>1. PICK r \in Rows, busy \in BOOLEAN, older \in BOOLEAN, new \in Rows :
            /\ r.seq = saves[s].row.seq /\ r.loaded = TRUE
            /\ new = Saved(r, live, busy, older)
            /\ new.archived = IF row = NoRow THEN r.archived ELSE row.archived
            /\ new = row \/ (new.seq = r.seq /\ new.loaded = TRUE)
            /\ stored' = Written(new) /\ row' \in Trimmed(new, live)
            /\ best' = Brought(r, live)
            /\ chosen' = (IF row = NoRow THEN r.archived ELSE chosen)
      BY <1>2, <2>2, ApplyParts
    <3> HIDE DEF live
    <3>2. new.archived = chosen'
      BY <3>1 DEF CatalogInv
    <3>3. row' # NoRow /\ row'.archived = chosen'
      BY <3>0, <3>1, <3>2, TrimmedRow, RowParts
    <3>4. stored' # NoRow => stored'.archived = chosen' /\ stored'.loaded = TRUE
      BY <1>1, <3>1, <3>2, WrittenRow DEF CatalogInv
    <3> QED
      BY <2>2, <3>0, <3>3, <3>4 DEF CatalogInv
  <2> QED
    BY <2>1, <2>2
<1>3. CASE ApplyRemove
  BY <1>3 DEF ApplyRemove, CatalogInv
<1>4. CASE ApplyArchive
  <2>1. CASE row = NoRow
    BY <1>4, <2>1, CatalogFrame DEF ApplyArchive, CatalogInv
  <2>2. CASE row # NoRow
    <3>1. mailbox # <<>> => Head(mailbox).archive \in BOOLEAN
      <4>1. mailbox # <<>> => Head(mailbox) \in Commands
        BY DEF TypeInv, TypeOK
      <4> QED
        BY <4>1 DEF Commands
    <3>2. /\ row' \in Rows /\ row'.archived = chosen'
          /\ stored' = IF row' = row THEN stored ELSE Written(row')
          /\ UNCHANGED removed
      BY <1>1, <1>4, <2>2, <3>1 DEF ApplyArchive, Rows
    <3>3. row' # NoRow
      BY <3>2, RowParts
    <3>4. stored' # NoRow => stored'.archived = chosen' /\ stored'.loaded = TRUE
      BY <1>1, <2>2, <3>2, WrittenRow DEF CatalogInv
    <3> QED
      BY <2>2, <3>2, <3>3, <3>4 DEF CatalogInv
  <2> QED
    BY <2>1, <2>2
<1>5. ASSUME NEW c \in Clients, HydrateSession(c) PROVE CatalogInv'
  <2>1. row \in Rows /\ row # NoRow /\ row' \in Trimmed(Hydrated(row), FALSE)
    BY <1>1, <1>5 DEF HydrateSession
  <2>2. Hydrated(row) \in Rows /\ Hydrated(row).archived = row.archived
    BY <1>1, <2>1, HydratedRow
  <2>3. row' # NoRow /\ row'.archived = row.archived
    BY <2>1, <2>2, TrimmedRow, RowParts
  <2>4. UNCHANGED <<stored, removed, chosen>>
    BY <1>5 DEF HydrateSession, historyVars
  <2> QED
    BY <2>1, <2>3, <2>4 DEF CatalogInv
<1>6. CASE Restart
  <2>1. row' = Skeleton(stored) /\ removed' = FALSE /\ UNCHANGED <<stored, chosen>>
    BY <1>6 DEF Restart
  <2>2. (row' = NoRow <=> stored = NoRow) /\ (row' # NoRow => row'.archived = stored.archived)
    BY <1>1, <2>1, SkeletonRow
  <2> QED
    BY <2>1, <2>2 DEF CatalogInv
<1>7. ASSUME NEW s \in SaveIds, SampleRuntimes(s) \/ TellSaved(s) PROVE CatalogInv'
  BY <1>7, CatalogFrame DEF SampleRuntimes, TellSaved, daemonVars, historyVars
<1>8. CASE TellCommand \/ StartRuntime \/ CloseRuntime
  BY <1>8, CatalogFrame DEF TellCommand, StartRuntime, CloseRuntime, daemonVars, historyVars
<1>9. ASSUME NEW c \in Clients,
             CreateTask(c) \/ Observe(c) \/ Save(c) \/ persist_archived(c) \/ remove_session(c)
      PROVE  CatalogInv'
  BY <1>9, CatalogFrame
     DEF CreateTask, Observe, Save, persist_archived, remove_session, daemonVars, historyVars
<1>10. ASSUME NEW c \in Clients, Drain(c) \/ LoadTaskState(c) \/ LoadReply(c) \/ SyncFails(c)
       PROVE  CatalogInv'
  BY <1>10, CatalogFrame
     DEF Drain, LoadTaskState, LoadReply, SyncFails, daemonVars, historyVars
<1> QED
  BY <1>2, <1>3, <1>4, <1>5, <1>6, <1>7, <1>8, <1>9, <1>10 DEF Next

LEMMA InitCatalog == Init => CatalogInv
<1> SUFFICES ASSUME Init PROVE CatalogInv
  OBVIOUS
<1>1. stored \in Rows \cup {NoRow}
  BY InitStored
<1>2. (row = NoRow <=> stored = NoRow) /\ (row # NoRow => row.archived = stored.archived)
  BY <1>1, SkeletonRow DEF Init
<1>3. stored # NoRow => stored.archived = FALSE /\ stored.loaded = TRUE
  BY InitStored
<1> QED
  BY <1>2, <1>3 DEF Init, CatalogInv

-----------------------------------------------------------------------------
(* Sequences: no row has one before the runtime starts; while it lives the *)
(* daemon's row has the highest one it was given.                          *)

\* ... and so has its copy in the database, for hydration to bring back.
LiveSeq ==
  runtime = "live" =>
    /\ row # NoRow /\ best <= row.seq
    /\ stored # NoRow => stored.seq = row.seq

\* A save that looked for runtimes in vain, and now meets one, was sent before it.
SampleSeq ==
  \A s \in SaveIds :
    runtime = "live" /\ saves[s].pc = "apply" /\ ~saves[s].live => saves[s].row.seq = 0

EarlySeq ==
  runtime = "none" =>
    /\ best = 0
    /\ row # NoRow => row.seq = 0
    /\ stored # NoRow => stored.seq = 0
    /\ \A c \in Clients : local[c] # NoRow => local[c].seq = 0
    /\ \A s \in SaveIds : saves[s].row # NoRow => saves[s].row.seq = 0

ListedSeq ==
  \A c \in Clients :
    /\ snapshot[c] # NoRow => snapshot[c].seq = 0
    /\ result[c] \notin {NoRow, Failure, NoResult} => result[c].seq = 0

SeqInv == LiveSeq /\ SampleSeq /\ EarlySeq /\ ListedSeq

\* The choice between two projections takes no events back, but for a save that
\* has no cursor and knows of no runtime.
LEMMA NewerIsKept ==
  ASSUME row \in Rows, NEW r \in Rows, NEW live \in BOOLEAN, live \/ r.seq = 0,
         best \in Nat, best <= row.seq,
         NEW busy \in BOOLEAN, NEW older \in BOOLEAN, NEW w, w = Saved(r, live, busy, older),
         live \/ w.seq # 0
  PROVE  w.seq >= best /\ w.seq >= r.seq
<1>1. row # NoRow /\ row.seq \in Nat /\ r.seq \in Nat
  BY RowParts
<1>2. CASE session_projection_precedes(row, r, live, busy, older)
  <2>1. w = row
    BY <1>1, <1>2 DEF Saved
  <2>2. r.seq <= row.seq
    <3>0. CASE ~live
      BY <1>1, <3>0
    <3>1. CASE live /\ (row.seq > 0) # (r.seq > 0)
      <4>1. row.seq > 0
        BY <1>2, <3>1 DEF session_projection_precedes
      <4> QED
        BY <1>1, <3>1, <4>1
    <3>2. CASE live /\ (row.seq > 0) = (r.seq > 0) /\ row.seq > 0
      <4>1. r.seq > 0
        BY <3>2
      <4>2. r.seq < row.seq
        BY <1>2, <3>2, <4>1 DEF session_projection_precedes
      <4> QED
        BY <1>1, <4>2
    <3>3. CASE (row.seq > 0) = (r.seq > 0) /\ ~(row.seq > 0)
      <4>1. ~(r.seq > 0)
        BY <3>3
      <4> QED
        BY <1>1, <4>1
    <3> QED
      BY <3>0, <3>1, <3>2, <3>3
  <2> QED
    BY <1>1, <2>1, <2>2
<1>3. CASE ~session_projection_precedes(row, r, live, busy, older)
  <2>1. w = [r EXCEPT !.archived = row.archived]
    BY <1>1, <1>3 DEF Saved, adopt_client_projection
  <2>2. w.seq = r.seq
    BY <2>1 DEF Rows
  <2>3. live
    BY <2>2
  <2>4. row.seq <= r.seq
    <3>1. CASE (row.seq > 0) # (r.seq > 0)
      <4>1. ~(row.seq > 0)
        BY <1>3, <2>3, <3>1 DEF session_projection_precedes
      <4> QED
        BY <1>1, <4>1
    <3>2. CASE (row.seq > 0) = (r.seq > 0) /\ row.seq > 0
      <4>1. r.seq > 0
        BY <3>2
      <4>2. ~(r.seq < row.seq)
        BY <1>3, <3>2, <4>1 DEF session_projection_precedes
      <4> QED
        BY <1>1, <4>2
    <3>3. CASE ~(row.seq > 0)
      BY <1>1, <3>3
    <3> QED
      BY <3>1, <3>2, <3>3
  <2> QED
    BY <1>1, <2>2, <2>4
<1> QED
  BY <1>2, <1>3

LEMMA SeqFrame ==
  ASSUME SeqInv, UNCHANGED <<row, stored, runtime, best, local, saves, snapshot, result>>
  PROVE  SeqInv'
BY DEF SeqInv, LiveSeq, SampleSeq, EarlySeq, ListedSeq

LEMMA SaveSeq ==
  ASSUME TypeInv, SeqInv, NEW s \in SaveIds, ApplySave(s)
  PROVE  SeqInv'
<1>1. /\ row \in Rows \cup {NoRow} /\ stored \in Rows \cup {NoRow} /\ best \in Nat
      /\ saves[s].row \in Rows /\ saves[s].row # NoRow
  BY RowParts DEF TypeInv, TypeOK, Carried, ApplySave
<1>2. /\ UNCHANGED <<runtime, local, snapshot, result>>
      /\ \A u \in SaveIds : /\ saves'[u].row = saves[u].row \/ saves'[u].row = NoRow
                            /\ saves'[u] = saves[u] \/ saves'[u].pc # "apply"
  <2>1. UNCHANGED <<runtime, local, snapshot, result>>
    BY DEF ApplySave, clientVars, syncVars
  <2> QED
    BY <2>1, ApplyFrame
<1>3. CASE removed
  <2>1. UNCHANGED <<row, stored, best>>
    BY <1>3 DEF ApplySave
  <2> QED
    BY <1>2, <2>1 DEF SeqInv, LiveSeq, SampleSeq, EarlySeq, ListedSeq
<1>4. CASE ~removed
  <2> DEFINE live == saves[s].live
  <2>0. live \in BOOLEAN /\ (runtime = "live" => live \/ saves[s].row.seq = 0)
    BY <1>4, ApplyParts DEF SeqInv, SampleSeq, ApplySave
  <2>1. PICK r \in Rows, busy \in BOOLEAN, older \in BOOLEAN, new \in Rows :
          /\ r.seq = saves[s].row.seq /\ r.loaded = TRUE
          /\ new = Saved(r, live, busy, older)
          /\ new.archived = IF row = NoRow THEN r.archived ELSE row.archived
          /\ new = row \/ (new.seq = r.seq /\ new.loaded = TRUE)
          /\ stored' = Written(new) /\ row' \in Trimmed(new, live)
          /\ best' = Brought(r, live)
          /\ chosen' = (IF row = NoRow THEN r.archived ELSE chosen)
    BY <1>4, ApplyParts
  <2> HIDE DEF live
  <2>2. row' # NoRow /\ row'.seq = new.seq
    BY <2>0, <2>1, TrimmedRow, RowParts
  <2>3. r.seq \in Nat /\ new.seq \in Nat
    BY <2>1, RowParts
  <2>4. LiveSeq'
    <3> SUFFICES ASSUME runtime = "live"
                 PROVE  best' <= new.seq /\ (stored' # NoRow => stored'.seq = new.seq)
      BY <1>2, <2>2 DEF LiveSeq
    <3>1. /\ row \in Rows /\ best <= row.seq
          /\ stored # NoRow => stored.seq = row.seq
      BY <1>1 DEF SeqInv, LiveSeq
    <3>2. live \/ r.seq = 0
      BY <2>0, <2>1
    <3>3. best' <= new.seq
      <4>1. CASE r.seq = 0 /\ ~live /\ new.seq = 0
        <5>1. best' = 0
          BY <2>1, <2>2, <4>1 DEF Brought
        <5> QED
          BY <2>3, <5>1
      <4>2. CASE live \/ new.seq # 0
        <5>1. new.seq >= best /\ new.seq >= r.seq
          BY <1>1, <2>0, <2>1, <3>1, <3>2, <4>2, NewerIsKept
        <5>2. best' = Newest(best, r.seq)
          BY <2>1, <2>2, <4>2 DEF Brought
        <5> QED
          BY <1>1, <2>3, <5>1, <5>2 DEF Newest
      <4> QED
        BY <3>2, <4>1, <4>2
    <3>4. new = row \/ new.loaded = TRUE
      BY <2>1
    <3>5. stored' # NoRow => stored'.seq = new.seq
      BY <1>1, <2>1, <3>1, <3>4, WrittenRow
    <3> QED
      BY <3>3, <3>5
  <2>5. EarlySeq'
    <3> SUFFICES ASSUME runtime = "none"
                 PROVE  /\ best' = 0 /\ row'.seq = 0
                        /\ stored' # NoRow => stored'.seq = 0
      BY <1>2 DEF SeqInv, EarlySeq
    <3>1. r.seq = 0 /\ best' = 0
      BY <1>1, <2>1 DEF SeqInv, EarlySeq, Brought
    <3>2. new.seq = 0
      BY <2>1, <2>3, <3>1, RowParts DEF SeqInv, EarlySeq
    <3>3. stored' # NoRow => stored'.seq = 0
      BY <1>1, <2>1, <3>2, WrittenRow DEF SeqInv, EarlySeq
    <3> QED
      BY <2>2, <3>1, <3>2, <3>3
  <2>6. SampleSeq'
    BY <1>2 DEF SeqInv, SampleSeq
  <2> QED
    BY <1>2, <2>4, <2>5, <2>6 DEF SeqInv, ListedSeq
<1> QED
  BY <1>3, <1>4

LEMMA SeqStep ==
  ASSUME TypeInv, CatalogInv, SeqInv, Next
  PROVE  SeqInv'
<1>1. /\ row \in Rows \cup {NoRow} /\ stored \in Rows \cup {NoRow} /\ best \in Nat
      /\ local \in [Clients -> Rows \cup {NoRow}]
  BY DEF TypeInv, TypeOK
<1>2. ASSUME NEW s \in SaveIds, TellSaved(s) PROVE SeqInv'
  <2>1. \A u \in SaveIds : saves'[u] = saves[u] \/ saves'[u] = Ended
    BY <1>2 DEF TellSaved, TypeInv, TypeOK
  <2>2. UNCHANGED <<row, stored, runtime, best, local, snapshot, result>>
    BY <1>2 DEF TellSaved, daemonVars, clientVars, historyVars
  <2> QED
    BY <2>1, <2>2, EndedType DEF SeqInv, LiveSeq, SampleSeq, EarlySeq, ListedSeq
<1>3. CASE ApplyRemove
  BY <1>3
     DEF ApplyRemove, TypeInv, TypeOK, clientVars, syncVars, SeqInv, LiveSeq, SampleSeq,
         EarlySeq, ListedSeq
<1>4. CASE ApplyArchive
  <2>1. UNCHANGED <<runtime, best, local, saves, snapshot, result>>
    BY <1>4 DEF ApplyArchive, clientVars, syncVars
  <2>2. CASE row = NoRow
    BY <1>4, <2>1, <2>2, SeqFrame DEF ApplyArchive
  <2>3. CASE row # NoRow
    <3>1. mailbox # <<>> => Head(mailbox).archive \in BOOLEAN
      <4>1. mailbox # <<>> => Head(mailbox) \in Commands
        BY DEF TypeInv, TypeOK
      <4> QED
        BY <4>1 DEF Commands
    <3>2. /\ row' \in Rows /\ row'.seq = row.seq /\ row'.loaded = row.loaded
          /\ stored' = IF row' = row THEN stored ELSE Written(row')
      BY <1>1, <1>4, <2>3, <3>1 DEF ApplyArchive, Rows
    <3>3. row' # NoRow
      BY <3>2, RowParts
    <3>4. EarlySeq'
      <4>1. runtime = "none" /\ stored' # NoRow => stored'.seq = 0
        BY <1>1, <2>3, <3>2, WrittenRow DEF SeqInv, EarlySeq
      <4> QED
        BY <2>1, <2>3, <3>2, <4>1 DEF SeqInv, EarlySeq
    <3>5. LiveSeq'
      <4>1. runtime = "live" /\ stored' # NoRow => stored'.seq = row.seq
        BY <1>1, <2>3, <3>2, WrittenRow DEF SeqInv, LiveSeq
      <4> QED
        BY <2>1, <3>2, <3>3, <4>1 DEF SeqInv, LiveSeq
    <3> QED
      BY <2>1, <3>4, <3>5 DEF SeqInv, SampleSeq, ListedSeq
  <2> QED
    BY <2>2, <2>3
<1>5. CASE TellCommand
  BY <1>5, SeqFrame DEF TellCommand, daemonVars, clientVars, historyVars
<1>6. CASE StartRuntime
  <2>1. row \in Rows
    BY <1>1, <1>6 DEF StartRuntime
  <2>2. /\ runtime' = "live" /\ row # NoRow
        /\ UNCHANGED <<row, stored, best, local, saves, snapshot, result>>
        /\ best = 0 /\ row.seq = 0
    BY <1>6 DEF StartRuntime, requestVars, clientVars, syncVars, historyVars, SeqInv, EarlySeq
  <2>3. stored # NoRow => stored.seq = 0
    BY <1>6 DEF StartRuntime, SeqInv, EarlySeq
  <2>4. \A s \in SaveIds : saves[s].pc = "apply" => saves[s].row.seq = 0
    BY <1>6, RowParts DEF StartRuntime, SeqInv, EarlySeq, TypeInv, Carried
  <2> QED
    BY <2>2, <2>3, <2>4 DEF SeqInv, LiveSeq, SampleSeq, EarlySeq, ListedSeq
<1>7. CASE CloseRuntime
  BY <1>7
     DEF CloseRuntime, requestVars, clientVars, syncVars, SeqInv, LiveSeq, SampleSeq, EarlySeq,
         ListedSeq
<1>8. ASSUME NEW c \in Clients, NEW r \in Rows, Send(c, r), runtime = "none" => r.seq = 0,
             UNCHANGED <<row, stored, runtime, best, snapshot, result>>,
             local' = local \/ local' = [local EXCEPT ![c] = r]
      PROVE  SeqInv'
  <2>1. \A u \in SaveIds : saves'[u] = saves[u] \/ (saves'[u].row = r /\ saves'[u].pc = "sample")
    BY <1>8 DEF Send, NoSave, TypeInv, TypeOK
  <2>2. \A d \in Clients : local'[d] = local[d] \/ local'[d] = r
    BY <1>1, <1>8
  <2> QED
    BY <1>8, <2>1, <2>2 DEF SeqInv, LiveSeq, SampleSeq, EarlySeq, ListedSeq
<1>9. ASSUME NEW c \in Clients, CreateTask(c) PROVE SeqInv'
  <2> DEFINE r == [archived |-> FALSE, seq |-> 0, history |-> TRUE, loaded |-> TRUE]
  <2>1. r \in Rows /\ r.seq = 0
    BY ConstantsAssumption DEF Rows
  <2>2. /\ Send(c, r) /\ local' = [local EXCEPT ![c] = r]
        /\ UNCHANGED <<row, stored, runtime, best, snapshot, result>>
    BY <1>9 DEF CreateTask, daemonVars, syncVars, historyVars
  <2> HIDE DEF r
  <2> QED
    BY <1>8, <2>1, <2>2
<1>10. ASSUME NEW c \in Clients, Save(c) PROVE SeqInv'
  <2>1. local[c] \in Rows /\ (runtime = "none" => local[c].seq = 0)
    BY <1>1, <1>10 DEF Save, SeqInv, EarlySeq
  <2>2. Send(c, local[c]) /\ UNCHANGED <<row, stored, runtime, best, snapshot, result, local>>
    BY <1>10 DEF Save, daemonVars, clientVars, syncVars, historyVars
  <2> QED
    BY <1>8, <2>1, <2>2
<1>11. ASSUME NEW c \in Clients, Observe(c) PROVE SeqInv'
  <2>1. /\ runtime = "live"
        /\ UNCHANGED <<row, stored, runtime, best, saves, snapshot, result>>
    BY <1>11 DEF Observe, daemonVars, requestVars, syncVars, historyVars
  <2> QED
    BY <2>1 DEF SeqInv, LiveSeq, SampleSeq, EarlySeq, ListedSeq
<1>12. ASSUME NEW c \in Clients, persist_archived(c) \/ remove_session(c) PROVE SeqInv'
  <2>1. UNCHANGED <<row, stored, runtime, best, saves, snapshot, result>>
    BY <1>12 DEF persist_archived, remove_session, daemonVars, syncVars, historyVars
  <2>2. \A d \in Clients : local'[d] # NoRow => local[d] # NoRow /\ local'[d].seq = local[d].seq
    <3>1. CASE persist_archived(c)
      <4>1. local' = [local EXCEPT ![c] = [local[c] EXCEPT !.archived = ~local[c].archived]]
            /\ local[c] \in Rows
        BY <1>1, <3>1 DEF persist_archived
      <4>2. [local[c] EXCEPT !.archived = ~local[c].archived].seq = local[c].seq
        BY <4>1 DEF Rows
      <4>3. local[c] # NoRow
        BY <4>1, RowParts
      <4> QED
        BY <1>1, <4>1, <4>2, <4>3
    <3>2. CASE remove_session(c)
      BY <1>1, <3>2 DEF remove_session
    <3> QED
      BY <1>12, <3>1, <3>2
  <2> QED
    BY <2>1, <2>2 DEF SeqInv, LiveSeq, SampleSeq, EarlySeq, ListedSeq
<1>13. ASSUME NEW c \in Clients, HydrateSession(c) PROVE SeqInv'
  <2>1. /\ row \in Rows /\ row # NoRow /\ row' \in Trimmed(Hydrated(row), FALSE)
        /\ local' = [local EXCEPT ![c] = Hydrated(row)]
        /\ UNCHANGED <<stored, runtime, best, saves, snapshot, result>>
    BY <1>1, <1>13 DEF HydrateSession, requestVars, syncVars, historyVars
  <2> DEFINE h == Hydrated(row)
  <2>2. /\ h \in Rows
        /\ h.loaded = TRUE \/ (stored # NoRow /\ h.loaded = stored.loaded)
        /\ h.seq = row.seq \/ (~row.loaded /\ stored # NoRow /\ h.seq = stored.seq)
    BY <1>1, <2>1, HydratedRow
  <2>3. row' \in Trimmed(h, FALSE) /\ local' = [local EXCEPT ![c] = h]
    BY <2>1
  <2> HIDE DEF h
  <2>4. row' # NoRow /\ row'.seq = h.seq
    BY <2>2, <2>3, TrimmedRow, RowParts
  <2>5. LiveSeq'
    BY <2>1, <2>2, <2>4 DEF SeqInv, LiveSeq
  <2>6. EarlySeq'
    <3>1. \A d \in Clients : local'[d] = local[d] \/ local'[d] = h
      BY <1>1, <2>3
    <3> QED
      BY <2>1, <2>2, <2>4, <3>1 DEF SeqInv, EarlySeq
  <2> QED
    BY <2>1, <2>5, <2>6 DEF SeqInv, SampleSeq, ListedSeq
<1>14. ASSUME NEW c \in Clients, Drain(c) PROVE SeqInv'
  <2>1. UNCHANGED <<row, stored, runtime, best, saves, snapshot>>
    BY <1>14 DEF Drain, daemonVars, requestVars
  <2>2. \A d \in Clients : result'[d] = result[d] \/ result'[d] = NoResult
    BY <1>14 DEF Drain, TypeInv, TypeOK
  <2>3. \A d \in Clients :
          \/ local'[d] = local[d]
          \/ local'[d] = result[d] /\ result[d] # Failure /\ result[d] # NoResult
    BY <1>1, <1>14 DEF Drain, Merged
  <2> QED
    BY <2>1, <2>2, <2>3 DEF SeqInv, LiveSeq, SampleSeq, EarlySeq, ListedSeq
<1>15. ASSUME NEW c \in Clients, LoadTaskState(c) PROVE SeqInv'
  <2>1. UNCHANGED <<row, stored, runtime, best, local, saves, result>>
    BY <1>15 DEF LoadTaskState, daemonVars, requestVars, clientVars, historyVars
  <2>2. \A d \in Clients : snapshot'[d] = snapshot[d] \/ snapshot'[d] = Skeleton(row)
    BY <1>15 DEF LoadTaskState, TypeInv, TypeOK
  <2>3. Skeleton(row) # NoRow => Skeleton(row).seq = 0
    BY <1>1, SkeletonRow
  <2> QED
    BY <2>1, <2>2, <2>3 DEF SeqInv, LiveSeq, SampleSeq, EarlySeq, ListedSeq
<1>16. ASSUME NEW c \in Clients, LoadReply(c) \/ SyncFails(c) PROVE SeqInv'
  <2>1. UNCHANGED <<row, stored, runtime, best, local, saves>>
    BY <1>16 DEF LoadReply, SyncFails, daemonVars, requestVars, clientVars, historyVars
  <2>2. \A d \in Clients : snapshot'[d] = snapshot[d] \/ snapshot'[d] = NoRow
    BY <1>16 DEF LoadReply, SyncFails, TypeInv, TypeOK
  <2>3. \A d \in Clients : result'[d] \in {result[d], snapshot[d], Failure}
    BY <1>16 DEF LoadReply, SyncFails, TypeInv, TypeOK
  <2> QED
    BY <2>1, <2>2, <2>3 DEF SeqInv, LiveSeq, SampleSeq, EarlySeq, ListedSeq
<1>17. CASE Restart
  <2>1. /\ row' = Skeleton(stored) /\ best' = 0 /\ UNCHANGED <<stored, local>>
        /\ runtime' # "live" /\ (runtime' = "none" => runtime = "none")
    BY <1>17 DEF Restart, TypeInv, TypeOK
  <2>2. row' # NoRow => row'.seq = 0
    BY <1>1, <2>1, SkeletonRow
  <2>3. \A u \in SaveIds : saves'[u] = saves[u] \/ saves'[u] = Ended
    BY <1>17 DEF Restart
  <2>4. \A d \in Clients : snapshot'[d] = NoRow /\ result'[d] \in {result[d], Failure}
    BY <1>17 DEF Restart
  <2> QED
    BY <2>1, <2>2, <2>3, <2>4, EndedType DEF SeqInv, LiveSeq, SampleSeq, EarlySeq, ListedSeq
<1>18. ASSUME NEW s \in SaveIds, SampleRuntimes(s) PROVE SeqInv'
  <2>1. UNCHANGED <<row, stored, runtime, best, local, snapshot, result>>
    BY <1>18 DEF SampleRuntimes, daemonVars, clientVars, syncVars, historyVars
  <2>2. /\ saves'[s].row = saves[s].row /\ saves'[s].live = (runtime = "live")
        /\ \A u \in SaveIds \ {s} : saves'[u] = saves[u]
    BY <1>18, SampleParts
  <2> QED
    BY <2>1, <2>2 DEF SeqInv, LiveSeq, SampleSeq, EarlySeq, ListedSeq
<1> QED
  BY <1>2, <1>3, <1>4, <1>5, <1>6, <1>7, <1>9, <1>10, <1>11, <1>12, <1>13, <1>14, <1>15, <1>16,
     <1>17, <1>18, SaveSeq DEF Next

LEMMA InitSeq == Init => SeqInv
<1> SUFFICES ASSUME Init PROVE SeqInv
  OBVIOUS
<1>1. row # NoRow => row.seq = 0
  BY InitStored, SkeletonRow DEF Init
<1>2. stored # NoRow => stored.seq = 0
  BY InitStored
<1>3. /\ \A c \in Clients : local[c] = NoRow /\ snapshot[c] = NoRow /\ result[c] = NoResult
      /\ \A s \in SaveIds : saves[s].row = NoRow
      /\ best = 0 /\ runtime = "none"
  BY DEF Init, NoSave
<1> QED
  BY <1>1, <1>2, <1>3 DEF SeqInv, LiveSeq, SampleSeq, EarlySeq, ListedSeq

-----------------------------------------------------------------------------
(* News of a removal: until a client is told, something still is to tell it. *)

\* A client whose last load failed, or whose banner is up, has not caught up.
BehindInv == \A c \in Clients : result[c] = Failure \/ degraded[c] => behind[c]

\* The removal is still to be announced to c, or to be loaded, or in the load's
\* answer, or the answer waits for the UI thread, or there is nothing to take
\* away any more.
Told(c) ==
  \/ telling
  \/ revision[c]
  \/ sync[c] = "reply" /\ snapshot[c] = NoRow
  \/ /\ sync[c] = "wait"
     /\ \/ result[c] \in {NoRow, Failure}
        \/ result[c] = NoResult /\ (behind[c] \/ local[c] = NoRow \/ ~has_started(local[c]))

\* The mailbox serves one command at a time, so what is being told is the
\* removal, or another one.
RemovalInv ==
  /\ BehindInv
  /\ removed => runtime # "live"
  /\ removed /\ telling => Head(mailbox).from = remover
  /\ removed => \A c \in Clients \ {remover} : Told(c)

\* A task that is there has nobody to tell.
LEMMA NotRemoved ==
  ASSUME BehindInv', ~removed'
  PROVE  RemovalInv'
BY DEF RemovalInv

LEMMA BehindFrame ==
  ASSUME BehindInv, UNCHANGED <<result, degraded, behind>>
  PROVE  BehindInv'
BY DEF BehindInv

\* Steps that touch neither the client's list nor what brings it news.
LEMMA ToldFrame ==
  ASSUME TypeInv, NEW d \in Clients, Told(d),
         UNCHANGED <<telling, sync, snapshot, result, behind>>,
         revision[d] => revision'[d],
         \/ local'[d] = local[d] \/ local'[d] = NoRow
         \/ local[d] # NoRow /\ local'[d] # NoRow /\ has_started(local'[d]) = has_started(local[d])
  PROVE  Told(d)'
<1>1. CASE telling \/ revision[d] \/ (sync[d] = "reply" /\ snapshot[d] = NoRow)
  BY <1>1 DEF Told
<1>2. CASE sync[d] = "wait" /\ result[d] \in {NoRow, Failure}
  BY <1>2 DEF Told
<1>3. CASE /\ sync[d] = "wait" /\ result[d] = NoResult
           /\ behind[d] \/ local[d] = NoRow \/ ~has_started(local[d])
  <2>1. behind'[d] \/ local'[d] = NoRow \/ ~has_started(local'[d])
    BY <1>3
  <2> QED
    BY <1>3, <2>1 DEF Told
<1> QED
  BY <1>1, <1>2, <1>3 DEF Told

LEMMA RemovalFrame ==
  ASSUME TypeInv, RemovalInv,
         UNCHANGED <<removed, telling, remover, sync, snapshot, result, behind, degraded>>,
         removed => runtime' # "live",
         removed /\ telling => Head(mailbox') = Head(mailbox),
         \A d \in Clients : revision[d] => revision'[d],
         removed => \A d \in Clients :
           \/ local'[d] = local[d] \/ local'[d] = NoRow
           \/ local[d] # NoRow /\ local'[d] # NoRow
              /\ has_started(local'[d]) = has_started(local[d])
  PROVE  RemovalInv'
<1>1. BehindInv'
  BY BehindFrame DEF RemovalInv
<1>2. ASSUME removed, NEW d \in Clients \ {remover} PROVE Told(d)'
  <2>1. Told(d)
    BY <1>2 DEF RemovalInv
  <2>2. \/ local'[d] = local[d] \/ local'[d] = NoRow
        \/ local[d] # NoRow /\ local'[d] # NoRow /\ has_started(local'[d]) = has_started(local[d])
    BY <1>2
  <2> QED
    BY <2>1, <2>2, ToldFrame
<1>3. removed /\ telling => Head(mailbox').from = remover
  BY DEF RemovalInv
<1> QED
  BY <1>1, <1>2, <1>3 DEF RemovalInv

\* The mailbox: the removal is to be told, and then every other client has a
\* revision to load.
LEMMA CommandRemoval ==
  ASSUME TypeInv, CatalogInv, RemovalInv, ApplyRemove \/ ApplyArchive \/ TellCommand
  PROVE  RemovalInv'
<1>1. CASE ApplyRemove
  <2>1. /\ removed' /\ telling' /\ remover' = Head(mailbox).from /\ mailbox' = mailbox
        /\ runtime' # "live" /\ UNCHANGED <<result, degraded, behind>>
    BY <1>1 DEF ApplyRemove, clientVars, syncVars
  <2>2. BehindInv'
    BY <2>1, BehindFrame DEF RemovalInv
  <2>3. \A d \in Clients : Told(d)'
    BY <2>1 DEF Told
  <2> QED
    BY <2>1, <2>2, <2>3 DEF RemovalInv
<1>2. CASE ApplyArchive
  <2>1. /\ ~telling /\ UNCHANGED <<removed, runtime, remover, revision, sync, snapshot, result,
                                  behind, degraded, local>>
    BY <1>2 DEF ApplyArchive, clientVars, syncVars
  <2>2. CASE removed
    <3>1. telling' = telling
      BY <1>2, <2>2 DEF ApplyArchive, CatalogInv
    <3> QED
      BY <2>1, <3>1, RemovalFrame DEF RemovalInv
  <2>3. CASE ~removed
    <3>1. BehindInv'
      BY <2>1, BehindFrame DEF RemovalInv
    <3> QED
      BY <2>1, <2>3, <3>1, NotRemoved
  <2> QED
    BY <2>2, <2>3
<1>3. CASE TellCommand
  <2>1. /\ telling /\ telling' = FALSE
        /\ revision' = [d \in Clients |-> revision[d] \/ d # Head(mailbox).from]
        /\ UNCHANGED <<removed, runtime, remover, result, behind, degraded>>
    BY <1>3 DEF TellCommand, Broadcast, daemonVars, clientVars, historyVars
  <2>2. BehindInv'
    BY <2>1, BehindFrame DEF RemovalInv
  <2>3. ASSUME removed, NEW d \in Clients \ {remover} PROVE Told(d)'
    <3>1. d # Head(mailbox).from
      BY <2>1, <2>3 DEF RemovalInv
    <3>2. revision'[d]
      BY <2>1, <3>1
    <3> QED
      BY <3>2 DEF Told
  <2> QED
    BY <2>1, <2>2, <2>3 DEF RemovalInv
<1> QED
  BY <1>1, <1>2, <1>3

\* The UI thread drains a load: only one that succeeds takes the task away, and
\* only one that fails, or ends an outage, leaves the client behind.
LEMMA DrainRemoval ==
  ASSUME TypeInv, RemovalInv, NEW c \in Clients, Drain(c)
  PROVE  RemovalInv'
<1>1. /\ result[c] # NoResult
      /\ result' = [result EXCEPT ![c] = NoResult]
      /\ degraded' = [degraded EXCEPT ![c] = result[c] = Failure]
      /\ UNCHANGED <<removed, runtime, telling, mailbox, remover, sync, snapshot, revision>>
  BY DEF Drain, daemonVars, requestVars
<1>2. /\ result \in [Clients -> Rows \cup {NoRow, Failure, NoResult}]
      /\ degraded \in [Clients -> BOOLEAN] /\ behind \in [Clients -> BOOLEAN]
      /\ local \in [Clients -> Rows \cup {NoRow}]
  BY DEF TypeInv, TypeOK
<1>3. \A d \in Clients \ {c} : /\ result'[d] = result[d] /\ degraded'[d] = degraded[d]
                               /\ behind'[d] = behind[d] /\ local'[d] = local[d]
  BY <1>1, <1>2 DEF Drain
<1>4. result'[c] = NoResult /\ (degraded'[c] <=> result[c] = Failure)
  BY <1>1, <1>2
<1>5. \/ result[c] = Failure \/ degraded[c]
      \/ /\ behind'[c] = FALSE /\ result[c] # Failure
         /\ local'[c] = Merged(local[c], result[c])
  BY <1>2 DEF Drain
<1>6. result[c] = Failure \/ degraded[c] => behind'[c] /\ behind[c]
  BY DEF Drain, RemovalInv, BehindInv
<1>7. BehindInv'
  <2>1. NoResult # Failure
    BY ResultsAssumption
  <2>2. ASSUME NEW d \in Clients, result'[d] = Failure \/ degraded'[d] PROVE behind'[d]
    <3>1. CASE d = c
      BY <1>4, <1>6, <2>1, <2>2, <3>1
    <3>2. CASE d # c
      BY <1>3, <2>2, <3>2 DEF RemovalInv, BehindInv
    <3> QED
      BY <3>1, <3>2
  <2> QED
    BY <2>2 DEF BehindInv
<1>8. ASSUME removed, NEW d \in Clients \ {remover} PROVE Told(d)'
  <2>1. Told(d)
    BY <1>8 DEF RemovalInv
  <2>2. CASE d # c \/ telling \/ revision[d] \/ (sync[d] = "reply" /\ snapshot[d] = NoRow)
    BY <1>1, <1>3, <2>1, <2>2 DEF Told
  <2>3. CASE d = c /\ sync[d] = "wait" /\ (result[c] = Failure \/ degraded[c])
    BY <1>1, <1>4, <1>6, <2>3 DEF Told
  <2>4. CASE d = c /\ sync[d] = "wait" /\ result[c] = NoRow /\ local'[c] = Merged(local[c], result[c])
    <3>1. local'[c] = NoRow \/ ~has_started(local'[c])
      BY <2>4 DEF Merged
    <3> QED
      BY <1>1, <1>4, <2>4, <3>1 DEF Told
  <2> QED
    BY <1>1, <1>5, <2>1, <2>2, <2>3, <2>4 DEF Told
<1> QED
  BY <1>1, <1>7, <1>8 DEF RemovalInv

\* The sync thread: a load begun after the removal does not list the task, and
\* one begun before it has a revision behind it.
LEMMA SyncRemoval ==
  ASSUME TypeInv, CatalogInv, RemovalInv, NEW c \in Clients,
         LoadTaskState(c) \/ LoadReply(c) \/ SyncFails(c)
  PROVE  RemovalInv'
<1>1. /\ UNCHANGED <<removed, runtime, telling, mailbox, remover, local, degraded>>
      /\ \A d \in Clients \ {c} :
           /\ result'[d] = result[d] /\ sync'[d] = sync[d] /\ snapshot'[d] = snapshot[d]
           /\ revision'[d] = revision[d] /\ behind'[d] = behind[d]
  BY DEF LoadTaskState, LoadReply, SyncFails, daemonVars, requestVars, clientVars, historyVars,
         TypeInv, TypeOK
<1>2. /\ sync \in [Clients -> SyncPcs] /\ revision \in [Clients -> BOOLEAN]
      /\ snapshot \in [Clients -> Rows \cup {NoRow}]
      /\ result \in [Clients -> Rows \cup {NoRow, Failure, NoResult}]
      /\ behind \in [Clients -> BOOLEAN]
  BY DEF TypeInv, TypeOK
<1>3. snapshot[c] # Failure
  BY <1>2, ResultsAssumption
<1>4. result'[c] = Failure \/ degraded'[c] => behind'[c]
  <2>1. CASE LoadTaskState(c)
    BY <2>1 DEF LoadTaskState, clientVars, historyVars, RemovalInv, BehindInv
  <2>2. CASE LoadReply(c)
    <3>1. result'[c] = snapshot[c] /\ UNCHANGED <<degraded, behind>>
      BY <1>2, <2>2 DEF LoadReply, clientVars, historyVars
    <3> QED
      BY <1>3, <3>1 DEF RemovalInv, BehindInv
  <2>3. CASE SyncFails(c)
    BY <1>2, <2>3 DEF SyncFails
  <2> QED
    BY <2>1, <2>2, <2>3
<1>5. BehindInv'
  BY <1>1, <1>4 DEF RemovalInv, BehindInv
<1>6. ASSUME removed, NEW d \in Clients \ {remover} PROVE Told(d)'
  <2>1. Told(d)
    BY <1>6 DEF RemovalInv
  <2>2. CASE d # c \/ telling
    BY <1>1, <2>1, <2>2 DEF Told
  <2>3. CASE d = c /\ LoadTaskState(c)
    <3>1. row = NoRow
      BY <1>6 DEF CatalogInv
    <3>2. snapshot'[c] = NoRow /\ sync'[c] = "reply"
      BY <1>2, <2>3, <3>1 DEF LoadTaskState, Skeleton
    <3> QED
      BY <2>3, <3>2 DEF Told
  <2>4. CASE d = c /\ LoadReply(c)
    <3>1. /\ sync[c] = "reply" /\ sync'[c] = "wait" /\ result'[c] = snapshot[c]
          /\ revision' = revision
      BY <1>2, <2>4 DEF LoadReply
    <3> QED
      BY <1>1, <2>1, <2>4, <3>1 DEF Told
  <2>5. CASE d = c /\ SyncFails(c)
    <3>1. sync'[c] = "wait" /\ result'[c] = Failure
      BY <1>2, <2>5 DEF SyncFails
    <3> QED
      BY <2>5, <3>1 DEF Told
  <2> QED
    BY <2>2, <2>3, <2>4, <2>5
<1> QED
  BY <1>1, <1>5, <1>6 DEF RemovalInv

LEMMA RemovalStep ==
  ASSUME TypeInv, CatalogInv, RemovalInv, Next
  PROVE  RemovalInv'
<1>1. ASSUME NEW s \in SaveIds, ApplySave(s) PROVE RemovalInv'
  <2>1. UNCHANGED <<removed, telling, remover, sync, snapshot, result, behind, degraded, runtime,
                    mailbox, revision, local>>
    BY <1>1 DEF ApplySave, clientVars, syncVars
  <2> QED
    BY <2>1, RemovalFrame DEF RemovalInv
<1>2. ASSUME NEW s \in SaveIds, TellSaved(s) PROVE RemovalInv'
  <2>1. UNCHANGED <<removed, telling, remover, sync, snapshot, result, behind, degraded, runtime,
                    mailbox, local>>
    BY <1>2 DEF TellSaved, daemonVars, clientVars, historyVars
  <2>2. \A d \in Clients : revision[d] => revision'[d]
    BY <1>2 DEF TellSaved, Broadcast
  <2> QED
    BY <2>1, <2>2, RemovalFrame DEF RemovalInv
<1>3. CASE StartRuntime
  <2>1. ~removed' /\ UNCHANGED <<result, degraded, behind>>
    BY <1>3 DEF StartRuntime, clientVars, syncVars, historyVars, CatalogInv
  <2> QED
    BY <2>1, BehindFrame, NotRemoved DEF RemovalInv
<1>4. CASE CloseRuntime
  <2>1. UNCHANGED <<removed, telling, remover, sync, snapshot, result, behind, degraded, mailbox,
                    revision, local>> /\ runtime' # "live"
    BY <1>4 DEF CloseRuntime, requestVars, clientVars, syncVars, historyVars
  <2> QED
    BY <2>1, RemovalFrame
<1>5. ASSUME NEW c \in Clients, CreateTask(c) \/ Observe(c) \/ HydrateSession(c)
      PROVE  RemovalInv'
  <2>1. ~removed
    BY <1>5 DEF CreateTask, Observe, HydrateSession, CatalogInv, RemovalInv
  <2>2. UNCHANGED <<removed, result, degraded, behind>>
    BY <1>5 DEF CreateTask, Observe, HydrateSession, daemonVars, syncVars, historyVars
  <2> QED
    BY <2>1, <2>2, BehindFrame, NotRemoved DEF RemovalInv
<1>6. ASSUME NEW c \in Clients, Save(c) PROVE RemovalInv'
  <2>1. UNCHANGED <<removed, telling, remover, sync, snapshot, result, behind, degraded, runtime,
                    mailbox, revision, local>>
    BY <1>6 DEF Save, daemonVars, clientVars, syncVars, historyVars
  <2> QED
    BY <2>1, RemovalFrame DEF RemovalInv
<1>7. ASSUME NEW c \in Clients, persist_archived(c) \/ remove_session(c) PROVE RemovalInv'
  <2>1. UNCHANGED <<removed, telling, remover, sync, snapshot, result, behind, degraded, runtime,
                    revision>>
    BY <1>7 DEF persist_archived, remove_session, daemonVars, syncVars, historyVars
  <2>2. telling => Head(mailbox') = Head(mailbox)
    <3>1. \/ mailbox' = mailbox
          \/ \E remove, archive \in BOOLEAN :
               mailbox' = Append(mailbox, [remove |-> remove, archive |-> archive, from |-> c])
      <4>1. CASE persist_archived(c)
        <5>1. PICK remove \in BOOLEAN, archive \in BOOLEAN :
                remove = FALSE /\ archive = ~local[c].archived
          OBVIOUS
        <5>2. Post(c, remove, archive)
          BY <4>1, <5>1 DEF persist_archived
        <5> QED
          BY <5>2 DEF Post
      <4>2. CASE remove_session(c)
        <5>1. PICK remove \in BOOLEAN, archive \in BOOLEAN : remove = TRUE /\ archive = FALSE
          OBVIOUS
        <5>2. Post(c, remove, archive) \/ mailbox' = mailbox
          BY <4>2, <5>1 DEF remove_session
        <5> QED
          BY <5>2 DEF Post
      <4> QED
        BY <1>7, <4>1, <4>2
    <3>2. mailbox \in Seq(Commands) /\ (telling => mailbox # <<>>)
      BY DEF TypeInv, TypeOK
    <3>3. ASSUME NEW remove \in BOOLEAN, NEW archive \in BOOLEAN, telling
          PROVE  Head(Append(mailbox, [remove |-> remove, archive |-> archive, from |-> c]))
                   = Head(mailbox)
      <4>1. [remove |-> remove, archive |-> archive, from |-> c] \in Commands
        BY DEF Commands
      <4> QED
        BY <3>2, <3>3, <4>1
    <3>4. ASSUME telling, mailbox' # mailbox PROVE Head(mailbox') = Head(mailbox)
      <4>1. PICK remove \in BOOLEAN, archive \in BOOLEAN :
              mailbox' = Append(mailbox, [remove |-> remove, archive |-> archive, from |-> c])
        BY <3>1, <3>4
      <4> QED
        BY <3>3, <3>4, <4>1
    <3> QED
      BY <3>4
  <2>3. \A d \in Clients :
          \/ local'[d] = local[d] \/ local'[d] = NoRow
          \/ local[d] # NoRow /\ local'[d] # NoRow
             /\ has_started(local'[d]) = has_started(local[d])
    <3>1. CASE remove_session(c)
      BY <3>1 DEF remove_session, TypeInv, TypeOK
    <3>2. CASE persist_archived(c)
      <4>1. /\ local[c] \in Rows
            /\ local' = [local EXCEPT ![c] = [local[c] EXCEPT !.archived = ~local[c].archived]]
        BY <3>2 DEF persist_archived, TypeInv, TypeOK
      <4>2. PICK r : r = [local[c] EXCEPT !.archived = ~local[c].archived]
        OBVIOUS
      <4>3. r \in Rows /\ r.loaded = local[c].loaded /\ r.history = local[c].history
        BY <4>1, <4>2 DEF Rows
      <4>4. r # NoRow /\ local[c] # NoRow /\ has_started(r) = has_started(local[c])
        BY <4>1, <4>3, RowParts DEF has_started
      <4>5. local'[c] = r /\ \A d \in Clients \ {c} : local'[d] = local[d]
        BY <4>1, <4>2 DEF TypeInv, TypeOK
      <4> QED
        BY <4>4, <4>5
    <3> QED
      BY <1>7, <3>1, <3>2
  <2> QED
    BY <2>1, <2>2, <2>3, RemovalFrame DEF RemovalInv
<1>8. CASE Restart
  <2>1. /\ ~removed' /\ UNCHANGED degraded
        /\ \A d \in Clients : (result'[d] = result[d] /\ behind'[d] = (behind[d] \/ sync[d] # "wait"))
                              \/ behind'[d]
    BY <1>8 DEF Restart
  <2>2. BehindInv'
    BY <2>1 DEF RemovalInv, BehindInv
  <2> QED
    BY <2>1, <2>2, NotRemoved
<1>9. ASSUME NEW s \in SaveIds, SampleRuntimes(s) PROVE RemovalInv'
  <2>1. UNCHANGED <<removed, telling, remover, sync, snapshot, result, behind, degraded, runtime,
                    mailbox, revision, local>>
    BY <1>9 DEF SampleRuntimes, daemonVars, clientVars, syncVars, historyVars
  <2> QED
    BY <2>1, RemovalFrame DEF RemovalInv
<1> QED
  BY <1>1, <1>2, <1>3, <1>4, <1>5, <1>6, <1>7, <1>8, <1>9, CommandRemoval, DrainRemoval, SyncRemoval
  DEF Next

LEMMA InitRemoval == Init => RemovalInv
<1> SUFFICES ASSUME Init PROVE RemovalInv
  OBVIOUS
<1>1. NoResult # Failure
  BY ResultsAssumption
<1> QED
  BY <1>1 DEF Init, RemovalInv, BehindInv

-----------------------------------------------------------------------------
(* Theorems.                                                               *)

IInv == TypeInv /\ CatalogInv /\ SeqInv /\ RemovalInv

LEMMA InitIInv == Init => IInv
BY InitType, InitCatalog, InitSeq, InitRemoval DEF IInv

LEMMA NextIInv == IInv /\ [Next]_vars => IInv'
<1> SUFFICES ASSUME IInv, [Next]_vars PROVE IInv'
  OBVIOUS
<1>1. TypeInv'
  BY TypeStep DEF IInv
<1>2. CASE UNCHANGED vars
  <2>1. /\ UNCHANGED <<row, stored, removed, chosen>>
        /\ UNCHANGED <<row, stored, runtime, best, local, saves, snapshot, result>>
    BY <1>2 DEF vars, daemonVars, requestVars, clientVars, syncVars, historyVars
  <2>2. UNCHANGED <<removed, telling, remover, sync, snapshot, result, behind, degraded, runtime,
                    mailbox, revision, local>>
    BY <1>2 DEF vars, daemonVars, requestVars, clientVars, syncVars, historyVars
  <2>3. RemovalInv'
    BY <2>2, RemovalFrame DEF IInv, RemovalInv
  <2> QED
    BY <1>1, <2>1, <2>3, CatalogFrame, SeqFrame DEF IInv
<1>3. CASE Next
  BY <1>1, <1>3, CatalogStep, SeqStep, RemovalStep DEF IInv
<1> QED
  BY <1>2, <1>3

THEOREM Inductive == Spec => []IInv
BY InitIInv, NextIInv, PTL DEF Spec

\* Every order of saves, commands, loads and restarts keeps the rows of the
\* daemon, its database and its clients, and the requests, well formed.
THEOREM TypeCorrect == Spec => []TypeOK
<1>1. IInv => TypeOK
  BY DEF IInv, TypeInv
<1> QED
  BY <1>1, Inductive, PTL

\* After RemoveSession neither the row nor its database copy comes back.
THEOREM NoResurrection == Spec => []RemovedStaysRemoved
<1>1. IInv => RemovedStaysRemoved
  BY DEF IInv, CatalogInv, RemovedStaysRemoved
<1> QED
  BY <1>1, Inductive, PTL

\* Only SetSessionArchived, or the save that brings a task, decides whether
\* the task is archived.
THEOREM ArchivedByCommand == Spec => []ArchiveIsCommanded
<1>1. IInv => ArchiveIsCommanded
  BY DEF IInv, CatalogInv, ArchiveIsCommanded
<1> QED
  BY <1>1, Inductive, PTL

\* While the runtime lives no save makes the daemon's row older than the
\* newest projection it was given, but for one without a cursor whose worker
\* looked for runtimes before this one was there: from it the count begins anew.
THEOREM EventsAreKept == Spec => []NewestProjectionKept
<1>1. IInv => NewestProjectionKept
  <2> SUFFICES ASSUME IInv, runtime = "live", row # NoRow PROVE row.seq >= best
    BY DEF NewestProjectionKept
  <2>1. best <= row.seq /\ row \in Rows /\ best \in Nat
    BY DEF IInv, SeqInv, LiveSeq, TypeInv, TypeOK
  <2> QED
    BY <2>1, RowParts
<1> QED
  BY <1>1, Inductive, PTL

\* A removed task leaves every other client's list: whatever loads, broadcasts
\* and saves were under way, a client at rest that did not miss a load shows it
\* no more, unless it takes the task for a draft.
THEOREM RemovalReachesOthers == Spec => []OthersDropRemoved
<1>1. IInv => OthersDropRemoved
  <2> SUFFICES ASSUME IInv, NEW c \in Clients, removed, c # remover, Settled(c), ~behind[c],
                      local[c] # NoRow
               PROVE  ~has_started(local[c])
    BY DEF OthersDropRemoved
  <2>1. Told(c)
    BY DEF IInv, RemovalInv
  <2>2. NoResult \notin {NoRow, Failure}
    BY ResultsAssumption
  <2> QED
    BY <2>1, <2>2 DEF Told, Settled
<1> QED
  BY <1>1, Inductive, PTL
=============================================================================

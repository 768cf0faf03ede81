----------------------------- MODULE TaskBoard -----------------------------
(***************************************************************************)
(* The personal board: cards on disk, the snapshot each TUI keeps of them, *)
(* and the `hal board` commands that write the same cards.                 *)
(* Sources: lib/src/tasks/{store,board,status,activity}.rs, ops/task.rs,   *)
(* app/board/lifecycle.rs and bin/src/cli/board.rs.                        *)
(*                                                                         *)
(* A card is reduced to its column, its done_at stamp and its notes; an    *)
(* edit of anything else (text, tags, title, statistics, the binding to a  *)
(* session) is a locked rewrite that changes none of the three.  The lock  *)
(* file lives in the card's directory, so it dies with the card: deleting  *)
(* a card and restoring one take no lock.                                  *)
(***************************************************************************)
EXTENDS Integers, Sequences, FiniteSets, SequencesExt

CONSTANTS
  Cards,      \* task ids
  Tuis,       \* processes that show the board
  Clis,       \* processes of `hal board`
  Notes,      \* the texts a note may have
  CaptionOf,  \* how a note's first line reads: "wait", "pr", "posted", "progress"
  MaxNotes,   \* bound: a card that has this many gets no more
  Absent,     \* no such card
  Nobody      \* nobody holds the lock; no card was refused

Statuses == {"Backlog", "Planning", "Running", "Review", "Done"}

CardStates == [status : Statuses, done : BOOLEAN, notes : Seq(Notes)]

ASSUME BoardAssumption ==
  /\ Tuis \cap Clis = {}
  /\ CaptionOf \in [Notes -> {"wait", "pr", "posted", "progress"}]
  /\ MaxNotes \in Nat
  /\ Absent \notin CardStates
  /\ Nobody \notin Tuis \cup Clis \cup Cards

Procs == Tuis \cup Clis

VARIABLES
  disk,     \* ~/.hal/tasks/<id>/state.json
  lock,     \* who holds the state.lock beside it
  seen,     \* each TUI's PersonalBoard
  undo,     \* each TUI's undo slot
  refused,  \* done_refused_on
  at,       \* where each process is in its operation
  mem,      \* the locals of that operation
  shown     \* history: the cards each TUI refused a Done on, until they are answered

vars == <<disk, lock, seen, undo, refused, at, mem, shown>>

\* An edit is the closure handed to update_task.
NoEdit == [op |-> "touch", to |-> "Backlog", note |-> Absent, slot |-> 0]
Moving(s) == [NoEdit EXCEPT !.op = "move", !.to = s]
Noting(n) == [NoEdit EXCEPT !.op = "note", !.note = n]
Removing(i) == [NoEdit EXCEPT !.op = "unnote", !.slot = i]
Assigning == [NoEdit EXCEPT !.op = "assign"]
Finishing == [NoEdit EXCEPT !.op = "finish"]

Edits ==
  {e \in [op : {"touch", "move", "note", "unnote", "assign", "finish"},
          to : Statuses, note : Notes \cup {Absent}, slot : Nat] :
     e.op = "note" => e.note \in Notes}

\* `closes`: task_finish goes on after its closing note.  `read` is what
\* update_task read under the lock, `left` what a removal has still to delete.
NewMemory(c) ==
  [card |-> c, edit |-> NoEdit, closes |-> FALSE, read |-> Absent,
   batch |-> {}, left |-> {}, torn |-> FALSE]

Memories ==
  [card : Cards \cup {Nobody}, edit : Edits, closes : BOOLEAN,
   read : CardStates \cup {Absent}, batch : SUBSET Cards, left : SUBSET Cards,
   torn : BOOLEAN]

Boards == [Cards -> CardStates \cup {Absent}]

Typed ==
  /\ disk \in Boards
  /\ lock \in [Cards -> Procs \cup {Nobody}]
  /\ seen \in [Tuis -> Boards]
  /\ undo \in [Tuis -> Boards]
  /\ refused \in [Tuis -> Cards \cup {Nobody}]
  /\ at \in [Procs -> {"idle", "edit", "lock", "write", "close", "remove"}]
  /\ mem \in [Procs -> Memories]
  /\ shown \in [Tuis -> SUBSET Cards]

\* A lock is held by a process about to write the card, which it has read.
InStep ==
  /\ \A c \in Cards : lock[c] # Nobody => at[lock[c]] = "write" /\ mem[lock[c]].card = c
  /\ \A p \in Procs :
       /\ at[p] \in {"edit", "lock", "write", "close"} => mem[p].card # Nobody
       /\ at[p] = "write" => mem[p].read # Absent

TypeOK == Typed /\ InStep

Init ==
  /\ disk = [c \in Cards |-> Absent]
  /\ lock = [c \in Cards |-> Nobody]
  /\ seen = [t \in Tuis |-> disk]
  /\ undo = [t \in Tuis |-> disk]
  /\ refused = [t \in Tuis |-> Nobody]
  /\ at = [p \in Procs |-> "idle"]
  /\ mem = [p \in Procs |-> NewMemory(Nobody)]
  /\ shown = [t \in Tuis |-> {}]

-----------------------------------------------------------------------------
(* What the code computes from a card                                      *)

NewCard == [status |-> "Backlog", done |-> FALSE, notes |-> <<>>]

\* validate_status_transition: the edges the board has.
Edges ==
  {<<s, s>> : s \in Statuses}
    \cup ({"Backlog"} \X {"Planning", "Running", "Done"})
    \cup ({"Planning"} \X {"Backlog", "Running", "Review", "Done"})
    \cup ({"Running"} \X {"Backlog", "Planning", "Review", "Done"})
    \cup ({"Review"} \X {"Planning", "Running", "Done"})
    \cup ({"Done"} \X {"Backlog", "Planning", "Running", "Review"})

\* The newest note that says something about the work is a question.
Asks(s) ==
  s # Absent /\ \E i \in 1..Len(s.notes) :
    /\ CaptionOf[s.notes[i]] = "wait"
    /\ \A j \in i+1..Len(s.notes) : CaptionOf[s.notes[j]] = "posted"

NewestNoteSays(s, n) == s.notes # <<>> /\ Last(s.notes) = n

\* A PR note carries the card to Review in the same write.
Noted(s, n) ==
  [s EXCEPT !.notes = Append(@, n),
            !.status = IF CaptionOf[n] = "pr" /\ @ \in {"Planning", "Running"}
                         THEN "Review" ELSE @]

\* Slip: the stamp is set on the way in and never cleared.
MovedStamped(s, to) == [s EXCEPT !.status = to, !.done = @ \/ to = "Done"]

Moved(s, to) == [s EXCEPT !.status = to, !.done = (to = "Done")]

Edited(s, e) ==
  CASE e.op = "move"   -> Moved(s, e.to)
    [] e.op = "assign" -> Moved(s, "Planning")
    [] e.op = "note"   -> Noted(s, e.note)
    [] e.op = "unnote" /\ e.slot \in 1..Len(s.notes) ->
         [s EXCEPT !.notes = RemoveAt(@, e.slot)]
    [] e.op = "finish" /\ s.status # "Done" -> Moved(s, "Done")
    [] OTHER -> s

\* Slip: the store trusts its callers.
LandsAnyway(s, e) == TRUE

\* Writing goes through for a legal edge; a vanished attachment is written
\* all the same and reported afterwards.
Lands(s, e) == <<s.status, Edited(s, e).status>> \in Edges

-----------------------------------------------------------------------------
(* The store: one locked read-modify-write                                 *)

\* A process leaves for the store with an edit of c in hand.
Start(p, c, e, closes) ==
  /\ at' = [at EXCEPT ![p] = "edit"]
  /\ mem' = [mem EXCEPT ![p] = [NewMemory(c) EXCEPT !.edit = e, !.closes = closes]]

\* The others' lock on c is void, or what they have read of it out of date.
Torn(c, others, steps) ==
  [p \in Procs |->
     IF p \in others /\ at[p] \in steps /\ mem[p].card = c
       THEN [mem[p] EXCEPT !.torn = TRUE] ELSE mem[p]]

\* The bound on notes: a card that is full takes no more.
Room(c, e) == e.op = "note" => Len(disk[c].notes) < MaxNotes

\* Slip: reading without waiting for it.
AvailableAtOnce(c) == TRUE

\* lock_exclusive waits for the lock.
Available(c) == lock[c] = Nobody

\* Slip: the lock stays with whoever took it.
UnlockedNever(p, c) == lock

\* The guard goes out of scope on every way out of the update.
Unlocked(p, c) == [lock EXCEPT ![c] = IF @ = p THEN Nobody ELSE @]

\* lock_task_state opens the lock file of a card that exists; the read of one
\* that does not ends the update.
Open(p) ==
  /\ at[p] = "edit"
  /\ \/ /\ disk[mem[p].card] # Absent
        /\ at' = [at EXCEPT ![p] = "lock"]
        /\ UNCHANGED mem
     \/ /\ disk[mem[p].card] = Absent
        /\ at' = [at EXCEPT ![p] = "idle"]
        /\ mem' = [mem EXCEPT ![p] = NewMemory(Nobody)]
  /\ UNCHANGED <<disk, lock, seen, undo, refused, shown>>

\* The lock is granted and the card read.  The lock on a file that was deleted
\* meanwhile keeps nobody out, and the card may be gone.
Lock(p) ==
  LET c == mem[p].card IN
  /\ at[p] = "lock"
  /\ mem[p].torn \/ Available(c)
  /\ \/ /\ disk[c] # Absent
        /\ Room(c, mem[p].edit)
        /\ lock' = IF mem[p].torn THEN lock ELSE [lock EXCEPT ![c] = p]
        /\ at' = [at EXCEPT ![p] = "write"]
        /\ mem' = [mem EXCEPT ![p].read = disk[c]]
     \/ /\ disk[c] = Absent
        /\ at' = [at EXCEPT ![p] = "idle"]
        /\ mem' = [mem EXCEPT ![p] = NewMemory(Nobody)]
        /\ UNCHANGED lock
  /\ UNCHANGED <<disk, seen, undo, refused, shown>>

\* Slip: the TUI applies the edit to its own copy.
AdoptedOwn(p, c, s) ==
  [t \in Tuis |-> IF t = p /\ seen[t][c] # Absent
                    THEN [seen[t] EXCEPT ![c] = Edited(@, mem[p].edit)] ELSE seen[t]]

\* The snapshot takes what a write returned, if it still has the card.
Adopted(p, c, s) ==
  [t \in Tuis |-> IF t = p /\ seen[t][c] # Absent
                    THEN [seen[t] EXCEPT ![c] = s] ELSE seen[t]]

Write(p) ==
  LET c == mem[p].card
      e == mem[p].edit
      s == Edited(mem[p].read, e)
  IN
  /\ at[p] = "write"
  /\ lock' = Unlocked(p, c)
  /\ \/ /\ Lands(mem[p].read, e)
        /\ disk' = [disk EXCEPT ![c] = s]
        /\ seen' = Adopted(p, c, s)
        /\ at' = [at EXCEPT ![p] = IF mem[p].closes THEN "close" ELSE "idle"]
        /\ mem' = [(IF mem[p].torn THEN Torn(c, Procs \ {p}, {"write"}) ELSE mem)
                     EXCEPT ![p] = NewMemory(IF mem[p].closes THEN c ELSE Nobody)]
        /\ shown' = [t \in Tuis |-> IF Asks(s) THEN shown[t] ELSE shown[t] \ {c}]
     \/ /\ ~Lands(mem[p].read, e)
        /\ at' = [at EXCEPT ![p] = "idle"]
        /\ mem' = [mem EXCEPT ![p] = NewMemory(Nobody)]
        /\ UNCHANGED <<disk, seen, shown>>
  /\ UNCHANGED <<undo, refused>>

-----------------------------------------------------------------------------
(* What either kind of process does                                        *)

\* A card id is minted once; here a name nobody remembers is a new one.
Fresh(c) ==
  /\ disk[c] = Absent
  /\ \A t \in Tuis : seen[t][c] = Absent /\ undo[t][c] = Absent
  /\ \A p \in Procs : mem[p].card # c /\ c \notin mem[p].batch

\* A quick capture attaches its context, `hal board add` writes the kind and
\* the title, each in an update of its own after the card's first write.
Add(p, c) ==
  /\ at[p] = "idle"
  /\ Fresh(c)
  /\ disk' = [disk EXCEPT ![c] = NewCard]
  /\ seen' = [t \in Tuis |-> IF t = p THEN [seen[t] EXCEPT ![c] = NewCard] ELSE seen[t]]
  /\ \/ UNCHANGED <<at, mem>>
     \/ Start(p, c, NoEdit, FALSE)
     \/ p \in Tuis /\ \E n \in Notes : Start(p, c, Noting(n), FALSE)
  /\ UNCHANGED <<lock, undo, refused, shown>>

\* task_artifact_add_text up to its locked write; a card a TUI shows may be
\* gone, and a repeat of the newest note is refused.  A TUI notes the cards it
\* shows; `hal board done` closes after its note.
Note(p, c, n, closes) ==
  /\ at[p] = "idle"
  /\ p \in Tuis => seen[p][c] # Absent /\ ~closes
  /\ disk[c] # Absent
  /\ ~NewestNoteSays(disk[c], n)
  /\ Start(p, c, Noting(n), closes)
  /\ UNCHANGED <<disk, lock, seen, undo, refused, shown>>

\* A locked rewrite that leaves column and notes alone: rename, priority,
\* tags and kind on a TUI; title, statistics and bindings on any process.
Touch(p, c) ==
  /\ at[p] = "idle"
  /\ p \in Tuis => seen[p][c] # Absent
  /\ Start(p, c, NoEdit, FALSE)
  /\ UNCHANGED <<disk, lock, seen, undo, refused, shown>>

-----------------------------------------------------------------------------
(* `hal board done`                                                        *)

\* Without a closing note the command goes straight to the check.
Close(p, c) ==
  /\ at[p] = "idle"
  /\ disk[c] # Absent
  /\ at' = [at EXCEPT ![p] = "close"]
  /\ mem' = [mem EXCEPT ![p] = NewMemory(c)]
  /\ UNCHANGED <<disk, lock, seen, undo, refused, shown>>

\* task_finish: a card that asks is refused, any other is moved to Done.
Finish(p) ==
  LET c == mem[p].card IN
  /\ at[p] = "close"
  /\ \/ /\ ~Asks(disk[c])
        /\ Start(p, c, Finishing, FALSE)
     \/ /\ Asks(disk[c])
        /\ at' = [at EXCEPT ![p] = "idle"]
        /\ mem' = [mem EXCEPT ![p] = NewMemory(Nobody)]
  /\ UNCHANGED <<disk, lock, seen, undo, refused, shown>>

-----------------------------------------------------------------------------
(* The TUI's keys, each acting on what its snapshot shows                  *)

\* Entering the Tasks tab.
Reload(t) ==
  /\ at[t] = "idle"
  /\ seen' = [seen EXCEPT ![t] = disk]
  /\ UNCHANGED <<disk, lock, undo, refused, at, mem, shown>>

\* Where H and L take a card by hand; Space on a card being planned proceeds
\* to Running, on a Done card reopens it to Backlog.
ByHand ==
  {<<"Backlog", "Running">>, <<"Planning", "Running">>, <<"Running", "Review">>,
   <<"Planning", "Backlog">>, <<"Running", "Backlog">>, <<"Review", "Running">>,
   <<"Done", "Review">>, <<"Done", "Backlog">>}

Move(t, c) ==
  /\ at[t] = "idle"
  /\ seen[t][c] # Absent
  /\ \E to \in Statuses :
       /\ <<seen[t][c].status, to>> \in ByHand
       /\ Start(t, c, Moving(to), FALSE)
  /\ UNCHANGED <<disk, lock, seen, undo, refused, shown>>

\* assign_task_agent, once the session is spawned.
Assign(t, c) ==
  /\ at[t] = "idle"
  /\ seen[t][c] # Absent
  /\ seen[t][c].status # "Done"
  /\ Start(t, c, Assigning, FALSE)
  /\ UNCHANGED <<disk, lock, seen, undo, refused, shown>>

\* finish_task with unanswered_ask: Done on a card that asks is refused once.
Done(t, c) ==
  /\ at[t] = "idle"
  /\ seen[t][c] # Absent
  /\ seen[t][c].status \notin {"Done", "Planning"}
  /\ \/ /\ refused[t] = c
        /\ refused' = [refused EXCEPT ![t] = Nobody]
        /\ Start(t, c, Moving("Done"), FALSE)
        /\ UNCHANGED shown
     \/ /\ refused[t] # c
        /\ Asks(disk[c])
        /\ refused' = [refused EXCEPT ![t] = c]
        /\ shown' = [shown EXCEPT ![t] = @ \cup {c}]
        /\ UNCHANGED <<at, mem>>
     \/ /\ refused[t] # c
        /\ ~Asks(disk[c])
        /\ Start(t, c, Moving("Done"), FALSE)
        /\ UNCHANGED <<refused, shown>>
  /\ UNCHANGED <<disk, lock, seen, undo>>

\* remove_selected_attachment: the index is the snapshot's.
Detach(t, c) ==
  /\ at[t] = "idle"
  /\ seen[t][c] # Absent
  /\ disk[c] # Absent
  /\ \E i \in 1..Len(seen[t][c].notes) :
       /\ i <= Len(disk[c].notes)
       /\ Start(t, c, Removing(i), FALSE)
  /\ UNCHANGED <<disk, lock, seen, undo, refused, shown>>

\* `x` removes one card, `c` every card the snapshot shows as Done; the
\* snapshot's copies go to the archive first.
Drop(t) ==
  /\ at[t] = "idle"
  /\ \E batch \in {{c} : c \in Cards} \cup {{c \in Cards : seen[t][c] # Absent /\ seen[t][c].status = "Done"}} :
       /\ batch # {}
       /\ \A c \in batch : seen[t][c] # Absent
       /\ at' = [at EXCEPT ![t] = "remove"]
       /\ mem' = [mem EXCEPT ![t] = [NewMemory(Nobody) EXCEPT !.batch = batch, !.left = batch]]
  /\ UNCHANGED <<disk, lock, seen, undo, refused, shown>>

\* delete_task_dir: the card goes, and its lock with it.
Delete(t, c) ==
  /\ at[t] = "remove"
  /\ c \in mem[t].left
  /\ disk' = [disk EXCEPT ![c] = Absent]
  /\ lock' = [lock EXCEPT ![c] = Nobody]
  /\ mem' = [Torn(c, Procs, {"lock", "write"}) EXCEPT ![t].left = @ \ {c}]
  /\ UNCHANGED <<seen, undo, refused, at, shown>>

\* The snapshot forgets the batch and the undo slot keeps it.
Dropped(t) ==
  /\ at[t] = "remove"
  /\ mem[t].left = {}
  /\ undo' = [undo EXCEPT ![t] = [c \in Cards |-> IF c \in mem[t].batch THEN seen[t][c] ELSE Absent]]
  /\ seen' = [seen EXCEPT ![t] = [c \in Cards |-> IF c \in mem[t].batch THEN Absent ELSE @[c]]]
  /\ at' = [at EXCEPT ![t] = "idle"]
  /\ mem' = [mem EXCEPT ![t] = NewMemory(Nobody)]
  /\ UNCHANGED <<disk, lock, refused, shown>>

\* `u` puts back what the slot holds and the snapshot does not show, over
\* whatever is on disk by now.
Restorable(t) == {c \in Cards : undo[t][c] # Absent /\ seen[t][c] = Absent}

Undo(t) ==
  LET back == Restorable(t) IN
  /\ at[t] = "idle"
  /\ \E c \in Cards : undo[t][c] # Absent
  /\ disk' = [c \in Cards |-> IF c \in back THEN undo[t][c] ELSE disk[c]]
  /\ seen' = [seen EXCEPT ![t] = [c \in Cards |-> IF c \in back THEN undo[t][c] ELSE @[c]]]
  /\ undo' = [undo EXCEPT ![t] = [c \in Cards |-> Absent]]
  /\ mem' = [p \in Procs |-> IF at[p] = "write" /\ mem[p].card \in back
                               THEN [mem[p] EXCEPT !.torn = TRUE] ELSE mem[p]]
  /\ UNCHANGED <<lock, refused, at, shown>>

\* A process dies, or a TUI is closed and opened again: the kernel drops its
\* lock, and what it kept in memory is gone.
Restart(p) ==
  /\ at' = [at EXCEPT ![p] = "idle"]
  /\ mem' = [mem EXCEPT ![p] = NewMemory(Nobody)]
  /\ lock' = [c \in Cards |-> IF lock[c] = p THEN Nobody ELSE lock[c]]
  /\ seen' = [t \in Tuis |-> IF t = p THEN disk ELSE seen[t]]
  /\ undo' = [t \in Tuis |-> IF t = p THEN [c \in Cards |-> Absent] ELSE undo[t]]
  /\ refused' = [t \in Tuis |-> IF t = p THEN Nobody ELSE refused[t]]
  /\ shown' = [t \in Tuis |-> IF t = p THEN {} ELSE shown[t]]
  /\ UNCHANGED disk

Tui(t) ==
  \/ Reload(t) \/ Drop(t) \/ Dropped(t) \/ Undo(t)
  \/ \E c \in Cards : Move(t, c) \/ Assign(t, c) \/ Done(t, c) \/ Detach(t, c) \/ Delete(t, c)

Cli(p) ==
  \/ Finish(p)
  \/ \E c \in Cards : Close(p, c) \/ \E n \in Notes : Note(p, c, n, TRUE)

Anyone(p) ==
  \/ Open(p) \/ Lock(p) \/ Write(p) \/ Restart(p)
  \/ \E c \in Cards : Add(p, c) \/ Touch(p, c) \/ \E n \in Notes : Note(p, c, n, FALSE)

Next ==
  \/ \E t \in Tuis : Tui(t)
  \/ \E p \in Clis : Cli(p)
  \/ \E p \in Procs : Anyone(p)

Spec == Init /\ [][Next]_vars

-----------------------------------------------------------------------------
(* Properties                                                              *)

\* A card has a done_at stamp exactly while it is in the Done column, on disk,
\* in every snapshot and in every undo slot, whichever of the five paths into
\* and out of Done it took (board.rs:163-177, ops/task.rs:195-200).
Stamped(s) == s # Absent => (s.done <=> s.status = "Done")

DoneStamped ==
  \A c \in Cards :
    /\ Stamped(disk[c])
    /\ \A t \in Tuis : Stamped(seen[t][c]) /\ Stamped(undo[t][c])
    /\ \A p \in Procs : Stamped(mem[p].read)

\* A process about to write a card holds its lock, and the card is as it was
\* read, unless the card was deleted or restored since it opened the lock file:
\* deleting a card takes that file along, and neither takes the lock
\* (store.rs:179-230, board.rs:266-311).
LockedIsFresh ==
  \A p \in Procs : LET c == mem[p].card IN
    at[p] = "write" /\ ~mem[p].torn => lock[c] = p /\ disk[c] = mem[p].read

\* What a process writes when it rewrites a card whose copy was taken from
\* under it, or undoes a removal.
Overwrites(c) ==
  \/ \E t \in Tuis : undo[t][c] # Absent /\ disk'[c] = undo[t][c]
  \/ \E p \in Procs : at[p] = "write" /\ mem[p].card = c /\ mem[p].torn

\* A card changes column along the board's edges only: the check is made on
\* the state read under the lock, so two processes moving a card at once cannot
\* add up to an edge the table does not have.  Writes over a card that was
\* deleted or restored meanwhile are left out: they are not moves
\* (status.rs:91-93, store.rs:196-216).
LegalMoves ==
  [][\A c \in Cards :
       \/ disk[c] = Absent
       \/ disk'[c] = Absent
       \/ <<disk[c].status, disk'[c].status>> \in Edges
       \/ Overwrites(c)]_vars

\* What a TUI's mutation leaves in its snapshot is what is on disk, not what
\* its stale copy would have become (board.rs:12-15).
ShowsWhatLanded ==
  [][\A t \in Tuis, c \in Cards :
       seen'[t][c] \in {seen[t][c], disk'[c], Absent}]_vars

\* A card may be abandoned on purpose, just not closed by accident with a
\* question unanswered: a TUI closes a card that asks only after it has refused
\* a Done over that very question (app/mod.rs:147-151).
FirstDoneRefused ==
  [][\A t \in Tuis, c \in Cards :
       (at[t] = "idle" /\ at'[t] = "edit" /\ mem'[t].card = c
          /\ mem'[t].edit = Moving("Done") /\ Asks(disk[c]))
         => c \in shown[t]]_vars

\* What `x` and `c` delete is what they archived (archive.rs:13-17).
RemovedAsArchived ==
  [][\A t \in Tuis, c \in Cards :
       (at[t] = "remove" /\ c \in mem[t].left /\ disk[c] # Absent /\ disk'[c] = Absent)
         => disk[c] = seen[t][c]]_vars

-----------------------------------------------------------------------------
(***************************************************************************)
(* The board implements CardStore.  A card is loose while an undo slot has *)
(* it, a removal that has deleted it is under way, or a process goes on    *)
(* with an update that the removal, or the undo of one, overtook.          *)
(***************************************************************************)
OneEdit(s) ==
  {s} \cup {Moved(s, to) : to \in Statuses} \cup {Noted(s, n) : n \in Notes}
      \cup {[s EXCEPT !.notes = RemoveAt(@, i)] : i \in 1..Len(s.notes)}

Changes ==
  {x \in CardStates \X CardStates : x[2] \in OneEdit(x[1]) /\ <<x[1].status, x[2].status>> \in Edges}

\* The process with these locals has deleted c, or goes on as if nobody had.
Keeps(m, c) == c \in m.batch \ m.left \/ (m.card = c /\ m.torn)

Loose ==
  {c \in Cards : \/ \E t \in Tuis : undo[t][c] # Absent
                 \/ \E p \in Procs : Keeps(mem[p], c)}

Store == INSTANCE CardStore WITH cards <- disk, loose <- Loose

\* However many TUIs, commands, snapshots and restarts, a card that was not
\* removed is only ever changed by one whole edit of what is on disk, along an
\* edge of the board: no update is lost and none undoes another
\* (store.rs:179-230, board.rs:266-311).
ImplementsCardStore == Store!Spec

=============================================================================

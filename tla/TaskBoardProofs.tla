-------------------------- MODULE TaskBoardProofs --------------------------
(***************************************************************************)
(* What holds of TaskBoard for any number of cards, TUIs and commands: its *)
(* types, that a rewrite under a live lock is never out of date, that the  *)
(* done_at stamp follows the column, that cards move along the edges of    *)
(* the board only, that a TUI shows what landed, and that the board        *)
(* implements the store of CardStore.                                      *)
(***************************************************************************)
EXTENDS TaskBoard, TLAPS

Copies == CardStates \cup {Absent}
Points == {"idle", "edit", "lock", "write", "close", "remove"}

-----------------------------------------------------------------------------
(* The operators the actions are built from                                *)

\* Moving a card keeps its shape and sets the stamp the column asks for.
LEMMA MovedCard ==
  ASSUME NEW s \in CardStates, NEW to \in Statuses
  PROVE  Moved(s, to) \in CardStates /\ Stamped(Moved(s, to))
<1>1. Moved(s, to) \in CardStates
  BY DEF Moved, CardStates
<1>2. Moved(s, to).status = to
  BY DEF Moved, CardStates
<1>3. Moved(s, to).done = (to = "Done")
  BY DEF Moved, CardStates
<1> QED
  BY <1>1, <1>2, <1>3 DEF Stamped

\* A note keeps the shape, the stamp, and whether the card is Done.
LEMMA NotedCard ==
  ASSUME NEW s \in CardStates, NEW n \in Notes
  PROVE  /\ Noted(s, n) \in CardStates
         /\ Noted(s, n).done = s.done
         /\ Noted(s, n).status = "Done" <=> s.status = "Done"
<1>1. Append(s.notes, n) \in Seq(Notes)
  BY DEF CardStates
<1>2. (IF CaptionOf[n] = "pr" /\ s.status \in {"Planning", "Running"}
         THEN "Review" ELSE s.status) \in Statuses
  BY DEF CardStates, Statuses
<1> QED
  BY <1>1, <1>2 DEF Noted, CardStates

LEMMA UnnotedCard ==
  ASSUME NEW s \in CardStates, NEW i \in 1..Len(s.notes)
  PROVE  LET t == [s EXCEPT !.notes = RemoveAt(@, i)] IN
         t \in CardStates /\ t.done = s.done /\ t.status = s.status
<1>1. s.notes \in Seq(Notes)
  BY DEF CardStates
<1>2. RemoveAt(s.notes, i) \in Seq(Notes)
  <2>1. SubSeq(s.notes, 1, i - 1) \in Seq(Notes) /\ SubSeq(s.notes, i + 1, Len(s.notes)) \in Seq(Notes)
    BY <1>1
  <2> QED
    BY <2>1 DEF RemoveAt
<1> QED
  BY <1>2 DEF CardStates

\* An edit turns a card into a card, and a stamped one into a stamped one.
LEMMA EditedCard ==
  ASSUME NEW s \in CardStates, NEW e \in Edits
  PROVE  /\ Edited(s, e) \in CardStates
         /\ Stamped(s) => Stamped(Edited(s, e))
<1>1. e.to \in Statuses /\ (e.op = "note" => e.note \in Notes) /\ "Planning" \in Statuses /\ "Done" \in Statuses
  BY DEF Edits, Statuses
<1>2. CASE e.op = "move"
  <2>1. Edited(s, e) = Moved(s, e.to)
    BY <1>2 DEF Edited
  <2> QED
    BY <1>1, <2>1, MovedCard
<1>3. CASE e.op = "assign"
  <2>1. Edited(s, e) = Moved(s, "Planning")
    BY <1>3 DEF Edited
  <2> QED
    BY <1>1, <2>1, MovedCard
<1>4. CASE e.op = "note"
  <2>1. Edited(s, e) = Noted(s, e.note)
    BY <1>4 DEF Edited
  <2>2. e.note \in Notes
    BY <1>1, <1>4
  <2>3. Noted(s, e.note) \in CardStates /\ Noted(s, e.note) # Absent
    BY <2>2, NotedCard, BoardAssumption
  <2>4. Noted(s, e.note).done = s.done /\ (Noted(s, e.note).status = "Done" <=> s.status = "Done")
    BY <2>2, NotedCard
  <2> QED
    BY <2>1, <2>3, <2>4, BoardAssumption DEF Stamped
<1>5. CASE e.op = "unnote"
  <2>1. CASE e.slot \in 1..Len(s.notes)
    <3>1. Edited(s, e) = [s EXCEPT !.notes = RemoveAt(@, e.slot)]
      BY <1>5, <2>1 DEF Edited
    <3> QED
      BY <2>1, <3>1, UnnotedCard, BoardAssumption DEF Stamped
  <2>2. CASE e.slot \notin 1..Len(s.notes)
    <3>1. Edited(s, e) = s
      BY <1>5, <2>2 DEF Edited
    <3> QED
      BY <3>1
  <2> QED
    BY <2>1, <2>2
<1>6. CASE e.op = "finish"
  <2>1. CASE s.status # "Done"
    <3>1. Edited(s, e) = Moved(s, "Done")
      BY <1>6, <2>1 DEF Edited
    <3> QED
      BY <1>1, <3>1, MovedCard
  <2>2. CASE s.status = "Done"
    <3>1. Edited(s, e) = s
      BY <1>6, <2>2 DEF Edited
    <3> QED
      BY <3>1
  <2> QED
    BY <2>1, <2>2
<1>7. CASE e.op = "touch"
  <2>1. Edited(s, e) = s
    BY <1>7 DEF Edited
  <2> QED
    BY <2>1
<1> QED
  BY <1>2, <1>3, <1>4, <1>5, <1>6, <1>7 DEF Edits

\* Every edit a process sets out with is one.
LEMMA EditsMade ==
  /\ NoEdit \in Edits /\ Assigning \in Edits /\ Finishing \in Edits
  /\ \A to \in Statuses : Moving(to) \in Edits
  /\ \A n \in Notes : Noting(n) \in Edits
  /\ \A i \in Nat : Removing(i) \in Edits
BY DEF Edits, NoEdit, Assigning, Finishing, Moving, Noting, Removing, Statuses

LEMMA NewMemories ==
  ASSUME NEW c \in Cards \cup {Nobody}
  PROVE  /\ NewMemory(c) \in Memories
         /\ NewMemory(c).card = c /\ NewMemory(c).read = Absent /\ NewMemory(c).torn = FALSE
BY EditsMade DEF NewMemory, Memories

LEMMA MemoryUpdates ==
  ASSUME NEW m \in Memories
  PROVE  /\ \A e \in Edits, b \in BOOLEAN :
              LET n == [m EXCEPT !.edit = e, !.closes = b] IN
              n \in Memories /\ n.card = m.card /\ n.read = m.read /\ n.torn = m.torn
         /\ \A s \in CardStates :
              LET n == [m EXCEPT !.read = s] IN
              n \in Memories /\ n.card = m.card /\ n.read = s /\ n.torn = m.torn
         /\ LET n == [m EXCEPT !.torn = TRUE] IN
              n \in Memories /\ n.card = m.card /\ n.read = m.read /\ n.torn
         /\ \A x \in SUBSET Cards :
              LET n == [m EXCEPT !.left = x] IN
              n \in Memories /\ n.card = m.card /\ n.read = m.read /\ n.torn = m.torn
         /\ \A x \in SUBSET Cards :
              LET n == [m EXCEPT !.batch = x, !.left = x] IN
              n \in Memories /\ n.card = m.card /\ n.read = m.read /\ n.torn = m.torn
BY DEF Memories

-----------------------------------------------------------------------------
(* Types                                                                   *)

LEMMA TypeInit == Init => TypeOK
<1> SUFFICES ASSUME Init PROVE TypeOK
  OBVIOUS
<1>1. NewMemory(Nobody) \in Memories
  BY NewMemories
<1>2. Typed
  BY <1>1 DEF Init, Typed, Boards
<1>3. InStep
  BY DEF Init, InStep
<1> QED
  BY <1>2, <1>3 DEF TypeOK

\* A step of one process that neither takes nor needs a lock.
LEMMA OneStep ==
  ASSUME TypeOK, NEW p \in Procs, NEW x \in Points, NEW m \in Memories,
         at' = [at EXCEPT ![p] = x], mem' = [mem EXCEPT ![p] = m], lock' = lock,
         at[p] # "write", x # "write",
         x \in {"edit", "lock", "close"} => m.card # Nobody
  PROVE  /\ at' \in [Procs -> Points] /\ mem' \in [Procs -> Memories]
         /\ InStep'
<1>1. at \in [Procs -> Points] /\ mem \in [Procs -> Memories] /\ lock \in [Cards -> Procs \cup {Nobody}]
  BY DEF TypeOK, Typed, Points
<1>2. at' \in [Procs -> Points] /\ mem' \in [Procs -> Memories]
  BY <1>1
<1>3. at'[p] = x /\ mem'[p] = m /\ \A q \in Procs \ {p} : at'[q] = at[q] /\ mem'[q] = mem[q]
  BY <1>1
<1>4. ASSUME NEW c \in Cards, lock'[c] # Nobody
      PROVE  at'[lock'[c]] = "write" /\ mem'[lock'[c]].card = c
  <2>1. lock[c] \in Procs /\ at[lock[c]] = "write" /\ mem[lock[c]].card = c
    BY <1>1, <1>4 DEF TypeOK, InStep
  <2> QED
    BY <1>3, <2>1
<1>5. ASSUME NEW q \in Procs
      PROVE  /\ at'[q] \in {"edit", "lock", "write", "close"} => mem'[q].card # Nobody
             /\ at'[q] = "write" => mem'[q].read # Absent
  BY <1>3 DEF TypeOK, InStep
<1> QED
  BY <1>2, <1>4, <1>5 DEF InStep

\* A process leaves for the store.
LEMMA StartStep ==
  ASSUME TypeOK, NEW p \in Procs, NEW c \in Cards, NEW e \in Edits, NEW b \in BOOLEAN,
         at[p] # "write", Start(p, c, e, b), lock' = lock
  PROVE  /\ at' \in [Procs -> Points] /\ mem' \in [Procs -> Memories]
         /\ InStep'
<1> DEFINE m == [NewMemory(c) EXCEPT !.edit = e, !.closes = b]
<1>0. NewMemory(c) \in Memories /\ NewMemory(c).card = c /\ c # Nobody
  BY NewMemories, BoardAssumption
<1>1. m \in Memories /\ m.card = c
  <2>1. PICK n \in Memories : n = NewMemory(c)
    BY <1>0
  <2>2. [n EXCEPT !.edit = e, !.closes = b] \in Memories
    BY DEF Memories
  <2>3. [n EXCEPT !.edit = e, !.closes = b].card = n.card
    BY DEF Memories
  <2> QED
    BY <1>0, <2>1, <2>2, <2>3
<1>2. at' = [at EXCEPT ![p] = "edit"] /\ mem' = [mem EXCEPT ![p] = m]
  BY DEF Start
<1> HIDE DEF m
<1> QED
  BY <1>0, <1>1, <1>2, OneStep DEF Points

\* An operation ends.
LEMMA IdleStep ==
  ASSUME TypeOK, NEW p \in Procs, at[p] # "write", lock' = lock,
         at' = [at EXCEPT ![p] = "idle"], mem' = [mem EXCEPT ![p] = NewMemory(Nobody)]
  PROVE  /\ at' \in [Procs -> Points] /\ mem' \in [Procs -> Memories]
         /\ InStep'
<1>1. NewMemory(Nobody) \in Memories
  BY NewMemories
<1> QED
  BY <1>1, OneStep DEF Points

LEMMA TornMemories ==
  ASSUME Typed, NEW c \in Cards, NEW others, NEW steps
  PROVE  /\ Torn(c, others, steps) \in [Procs -> Memories]
         /\ \A q \in Procs :
              /\ Torn(c, others, steps)[q].card = mem[q].card
              /\ Torn(c, others, steps)[q].read = mem[q].read
              /\ ~Torn(c, others, steps)[q].torn =>
                   ~mem[q].torn /\ ~(q \in others /\ at[q] \in steps /\ mem[q].card = c)
<1> SUFFICES ASSUME NEW q \in Procs
             PROVE  LET m == IF q \in others /\ at[q] \in steps /\ mem[q].card = c
                               THEN [mem[q] EXCEPT !.torn = TRUE] ELSE mem[q] IN
                    /\ m \in Memories
                    /\ m.card = mem[q].card /\ m.read = mem[q].read
                    /\ ~m.torn => ~mem[q].torn /\ ~(q \in others /\ at[q] \in steps /\ mem[q].card = c)
  BY DEF Torn
<1>1. mem[q] \in Memories
  BY DEF Typed
<1> QED
  BY <1>1, MemoryUpdates

\* What a process holds when it writes.
LEMMA WriterHas ==
  ASSUME TypeOK, NEW p \in Procs, at[p] = "write"
  PROVE  /\ mem[p].card \in Cards /\ mem[p].edit \in Edits
         /\ mem[p].read \in CardStates
         /\ Edited(mem[p].read, mem[p].edit) \in CardStates
<1>1. mem[p] \in Memories /\ mem[p].card # Nobody /\ mem[p].read # Absent
  BY DEF TypeOK, Typed, InStep
<1>2. mem[p].card \in Cards /\ mem[p].edit \in Edits /\ mem[p].read \in CardStates
  BY <1>1 DEF Memories
<1> QED
  BY <1>2, EditedCard

LEMMA OpenType ==
  ASSUME TypeOK, NEW p \in Procs, Open(p)
  PROVE  TypeOK'
<1>1. CASE disk[mem[p].card] # Absent /\ at' = [at EXCEPT ![p] = "lock"] /\ UNCHANGED mem
  <2>1. mem[p] \in Memories /\ mem[p].card # Nobody /\ mem' = [mem EXCEPT ![p] = mem[p]]
    BY <1>1 DEF TypeOK, Typed, InStep, Open
  <2>2. /\ at' \in [Procs -> Points] /\ mem' \in [Procs -> Memories]
        /\ InStep'
    BY <1>1, <2>1, OneStep DEF Open, Points
  <2> QED
    BY <2>2 DEF Open, TypeOK, Typed, Points
<1>2. CASE at' = [at EXCEPT ![p] = "idle"] /\ mem' = [mem EXCEPT ![p] = NewMemory(Nobody)]
  <2>1. /\ at' \in [Procs -> Points] /\ mem' \in [Procs -> Memories]
        /\ InStep'
    BY <1>2, IdleStep DEF Open
  <2> QED
    BY <2>1 DEF Open, TypeOK, Typed, Points
<1> QED
  BY <1>1, <1>2 DEF Open

LEMMA LockType ==
  ASSUME TypeOK, NEW p \in Procs, Lock(p)
  PROVE  TypeOK'
<1> DEFINE c == mem[p].card
<1>1. c \in Cards /\ mem[p] \in Memories
  BY DEF Lock, TypeOK, Typed, InStep, Memories
<1>2. CASE disk[c] # Absent
  <2> DEFINE m == [mem[p] EXCEPT !.read = disk[c]]
  <2>1. disk[c] \in CardStates /\ disk[c] # Absent
    BY <1>1, <1>2 DEF TypeOK, Typed, Boards
  <2>2. m \in Memories /\ m.card = c /\ m.read # Absent
    BY <1>1, <2>1, MemoryUpdates
  <2>3. /\ at' = [at EXCEPT ![p] = "write"] /\ mem' = [mem EXCEPT ![p] = m]
        /\ lock' = IF mem[p].torn THEN lock ELSE [lock EXCEPT ![c] = p]
    BY <1>2 DEF Lock
  <2> HIDE DEF m, c
  <2>4. Typed'
    BY <1>1, <2>2, <2>3 DEF Lock, TypeOK, Typed
  <2>5. at'[p] = "write" /\ mem'[p] = m /\ \A q \in Procs \ {p} : at'[q] = at[q] /\ mem'[q] = mem[q]
    BY <2>3 DEF TypeOK, Typed
  <2>6. at[p] # "write"
    BY DEF Lock
  <2>7. ASSUME NEW d \in Cards, lock'[d] # Nobody
        PROVE  at'[lock'[d]] = "write" /\ mem'[lock'[d]].card = d
    <3>1. lock'[d] = lock[d] \/ (d = c /\ lock'[d] = p)
      BY <1>1, <2>3 DEF TypeOK, Typed
    <3>2. lock[d] \in Procs \cup {Nobody}
      BY DEF TypeOK, Typed
    <3> QED
      BY <2>2, <2>5, <2>6, <2>7, <3>1, <3>2 DEF TypeOK, InStep
  <2>8. ASSUME NEW q \in Procs
        PROVE  /\ at'[q] \in {"edit", "lock", "write", "close"} => mem'[q].card # Nobody
               /\ at'[q] = "write" => mem'[q].read # Absent
    BY <1>1, <2>2, <2>5, BoardAssumption DEF TypeOK, InStep
  <2> QED
    BY <2>4, <2>7, <2>8 DEF TypeOK, InStep
<1>3. CASE disk[c] = Absent
  <2>1. /\ at' \in [Procs -> Points] /\ mem' \in [Procs -> Memories]
        /\ InStep'
    BY <1>3, IdleStep DEF Lock
  <2> QED
    BY <1>3, <2>1 DEF Lock, TypeOK, Typed, Points
<1> QED
  BY <1>2, <1>3

\* A process that has done with its lock: whatever it turns to next, the other
\* locks stand.
LEMMA Unlocking ==
  ASSUME TypeOK, NEW p \in Procs, at[p] = "write",
         NEW x \in {"idle", "close"}, NEW m \in Memories, x = "close" => m.card # Nobody,
         NEW ms \in [Procs -> Memories],
         \A q \in Procs : ms[q].card = mem[q].card /\ ms[q].read = mem[q].read,
         at' = [at EXCEPT ![p] = x], mem' = [ms EXCEPT ![p] = m],
         lock' = Unlocked(p, mem[p].card)
  PROVE  /\ at' \in [Procs -> Points] /\ mem' \in [Procs -> Memories]
         /\ lock' \in [Cards -> Procs \cup {Nobody}]
         /\ InStep'
<1>1. at \in [Procs -> Points] /\ mem \in [Procs -> Memories] /\ lock \in [Cards -> Procs \cup {Nobody}]
  BY DEF TypeOK, Typed, Points
<1>2. at' \in [Procs -> Points] /\ mem' \in [Procs -> Memories]
  BY <1>1 DEF Points
<1>3. lock' \in [Cards -> Procs \cup {Nobody}]
  BY <1>1 DEF Unlocked
<1>4. at'[p] = x /\ mem'[p] = m /\ \A q \in Procs \ {p} : at'[q] = at[q] /\ mem'[q] = ms[q]
  BY <1>1
<1>5. ASSUME NEW c \in Cards, lock'[c] # Nobody
      PROVE  at'[lock'[c]] = "write" /\ mem'[lock'[c]].card = c
  <2>1. lock'[c] = lock[c] /\ ~(c = mem[p].card /\ lock[c] = p)
    BY <1>1, <1>5 DEF Unlocked
  <2>2. lock[c] \in Procs /\ at[lock[c]] = "write" /\ mem[lock[c]].card = c
    BY <1>1, <1>5, <2>1 DEF TypeOK, InStep
  <2>3. lock[c] # p
    BY <2>1, <2>2
  <2> QED
    BY <1>4, <2>1, <2>2, <2>3
<1>6. ASSUME NEW q \in Procs
      PROVE  /\ at'[q] \in {"edit", "lock", "write", "close"} => mem'[q].card # Nobody
             /\ at'[q] = "write" => mem'[q].read # Absent
  <2>1. CASE q = p
    BY <1>4, <2>1
  <2>2. CASE q # p
    BY <1>4, <2>2 DEF TypeOK, InStep
  <2> QED
    BY <2>1, <2>2
<1> QED
  BY <1>2, <1>3, <1>5, <1>6 DEF InStep

LEMMA AdoptedBoards ==
  ASSUME Typed, NEW p \in Procs, NEW c \in Cards, NEW s \in CardStates
  PROVE  /\ Adopted(p, c, s) \in [Tuis -> Boards]
         /\ \A t \in Tuis, d \in Cards :
              Adopted(p, c, s)[t][d] = seen[t][d] \/ (d = c /\ Adopted(p, c, s)[t][d] = s)
<1>1. seen \in [Tuis -> Boards]
  BY DEF Typed
<1>2. ASSUME NEW t \in Tuis
      PROVE  [seen[t] EXCEPT ![c] = s] \in Boards
  BY <1>1 DEF Boards
<1>3. Adopted(p, c, s) \in [Tuis -> Boards]
  BY <1>1, <1>2 DEF Adopted
<1>4. ASSUME NEW t \in Tuis, NEW d \in Cards
      PROVE  Adopted(p, c, s)[t][d] = seen[t][d] \/ (d = c /\ Adopted(p, c, s)[t][d] = s)
  <2>1. seen[t] \in Boards
    BY <1>1
  <2>2. Adopted(p, c, s)[t] \in {seen[t], [seen[t] EXCEPT ![c] = s]}
    BY DEF Adopted
  <2> QED
    BY <2>1, <2>2 DEF Boards
<1> QED
  BY <1>3, <1>4

LEMMA WriteType ==
  ASSUME TypeOK, NEW p \in Procs, Write(p)
  PROVE  TypeOK'
<1> DEFINE c == mem[p].card
           e == mem[p].edit
           s == Edited(mem[p].read, e)
           x == IF mem[p].closes THEN "close" ELSE "idle"
           m == NewMemory(IF mem[p].closes THEN c ELSE Nobody)
           ms == IF mem[p].torn THEN Torn(c, Procs \ {p}, {"write"}) ELSE mem
<1>1. at[p] = "write" /\ lock' = Unlocked(p, c) /\ UNCHANGED <<undo, refused>>
  BY DEF Write
<1>2. c \in Cards /\ e \in Edits /\ mem[p].read \in CardStates /\ s \in CardStates
  BY <1>1, WriterHas
<1>3. CASE /\ disk' = [disk EXCEPT ![c] = s]
           /\ seen' = Adopted(p, c, s)
           /\ at' = [at EXCEPT ![p] = x]
           /\ mem' = [ms EXCEPT ![p] = m]
           /\ shown' = [t \in Tuis |-> IF Asks(s) THEN shown[t] ELSE shown[t] \ {c}]
  <2>1. x \in {"idle", "close"} /\ m \in Memories /\ (x = "close" => m.card # Nobody)
    BY <1>2, NewMemories, BoardAssumption
  <2>2. ms \in [Procs -> Memories] /\ \A q \in Procs : ms[q].card = mem[q].card /\ ms[q].read = mem[q].read
    <3>1. CASE mem[p].torn
      BY <1>2, <3>1, TornMemories DEF TypeOK
    <3>2. CASE ~mem[p].torn
      BY <3>2 DEF TypeOK, Typed
    <3> QED
      BY <3>1, <3>2
  <2>3. disk' \in Boards
    BY <1>2, <1>3 DEF TypeOK, Typed, Boards
  <2>4. seen' \in [Tuis -> Boards]
    BY <1>2, <1>3, AdoptedBoards DEF TypeOK
  <2>5. shown' \in [Tuis -> SUBSET Cards]
    BY <1>3 DEF TypeOK, Typed
  <2> HIDE DEF x, m, ms
  <2>6. /\ at' \in [Procs -> Points] /\ mem' \in [Procs -> Memories]
        /\ lock' \in [Cards -> Procs \cup {Nobody}]
        /\ InStep'
    BY <1>1, <1>3, <2>1, <2>2, Unlocking
  <2> QED
    BY <1>1, <2>3, <2>4, <2>5, <2>6 DEF TypeOK, Typed, Points
<1>4. CASE /\ at' = [at EXCEPT ![p] = "idle"]
           /\ mem' = [mem EXCEPT ![p] = NewMemory(Nobody)]
           /\ UNCHANGED <<disk, seen, shown>>
  <2>1. NewMemory(Nobody) \in Memories /\ mem \in [Procs -> Memories]
    BY NewMemories DEF TypeOK, Typed
  <2>2. /\ at' \in [Procs -> Points] /\ mem' \in [Procs -> Memories]
        /\ lock' \in [Cards -> Procs \cup {Nobody}]
        /\ InStep'
    BY <1>1, <1>4, <2>1, Unlocking
  <2> QED
    BY <1>1, <1>4, <2>2 DEF TypeOK, Typed, Points
<1> QED
  BY <1>3, <1>4 DEF Write

LEMMA AddType ==
  ASSUME TypeOK, NEW p \in Procs, NEW c \in Cards, Add(p, c)
  PROVE  TypeOK'
<1>1. NewCard \in CardStates
  BY DEF NewCard, CardStates, Statuses
<1>2. disk' \in Boards
  BY <1>1 DEF Add, TypeOK, Typed, Boards
<1>3. seen' \in [Tuis -> Boards]
  <2>1. ASSUME NEW t \in Tuis
        PROVE  [seen[t] EXCEPT ![c] = NewCard] \in Boards
    BY <1>1 DEF TypeOK, Typed, Boards
  <2> QED
    BY <2>1 DEF Add, TypeOK, Typed
<1>4. /\ at' \in [Procs -> Points] /\ mem' \in [Procs -> Memories]
      /\ InStep'
  <2>1. CASE UNCHANGED <<at, mem>>
    BY <2>1 DEF Add, TypeOK, Typed, InStep, Points
  <2>2. CASE Start(p, c, NoEdit, FALSE)
    BY <2>2, EditsMade, StartStep DEF Add
  <2>3. ASSUME NEW n \in Notes, Start(p, c, Noting(n), FALSE)
        PROVE  /\ at' \in [Procs -> Points] /\ mem' \in [Procs -> Memories]
               /\ InStep'
    BY <2>3, EditsMade, StartStep DEF Add
  <2> QED
    BY <2>1, <2>2, <2>3 DEF Add
<1> QED
  BY <1>2, <1>3, <1>4 DEF Add, TypeOK, Typed, Points

\* The steps that only set out for the store.
LEMMA StartType ==
  ASSUME TypeOK, NEW p \in Procs, NEW c \in Cards, NEW e \in Edits, NEW b \in BOOLEAN,
         at[p] # "write", Start(p, c, e, b), UNCHANGED <<disk, lock, seen, undo>>,
         refused' \in [Tuis -> Cards \cup {Nobody}], shown' \in [Tuis -> SUBSET Cards]
  PROVE  TypeOK'
<1>1. /\ at' \in [Procs -> Points] /\ mem' \in [Procs -> Memories]
      /\ InStep'
  BY StartStep
<1> QED
  BY <1>1 DEF TypeOK, Typed, Points

LEMMA EitherType ==
  ASSUME TypeOK, NEW p \in Procs, NEW c \in Cards,
         Touch(p, c) \/ \E n \in Notes, closes \in BOOLEAN : Note(p, c, n, closes)
  PROVE  TypeOK'
<1>1. CASE Touch(p, c)
  BY <1>1, EditsMade, StartType DEF Touch, TypeOK, Typed
<1>2. ASSUME NEW n \in Notes, NEW closes \in BOOLEAN, Note(p, c, n, closes)
      PROVE  TypeOK'
  BY <1>2, EditsMade, StartType DEF Note, TypeOK, Typed
<1> QED
  BY <1>1, <1>2

LEMMA CloseType ==
  ASSUME TypeOK, NEW p \in Procs, NEW c \in Cards, Close(p, c)
  PROVE  TypeOK'
<1>1. NewMemory(c) \in Memories /\ NewMemory(c).card = c /\ c # Nobody
  BY NewMemories, BoardAssumption
<1>2. /\ at' \in [Procs -> Points] /\ mem' \in [Procs -> Memories]
      /\ InStep'
  BY <1>1, OneStep DEF Close, Points
<1> QED
  BY <1>2 DEF Close, TypeOK, Typed, Points

LEMMA FinishType ==
  ASSUME TypeOK, NEW p \in Procs, Finish(p)
  PROVE  TypeOK'
<1>1. mem[p].card \in Cards /\ at[p] # "write"
  BY DEF Finish, TypeOK, Typed, InStep, Memories
<1>2. CASE Start(p, mem[p].card, Finishing, FALSE)
  BY <1>1, <1>2, EditsMade, StartType DEF Finish, TypeOK, Typed
<1>3. CASE at' = [at EXCEPT ![p] = "idle"] /\ mem' = [mem EXCEPT ![p] = NewMemory(Nobody)]
  <2>1. /\ at' \in [Procs -> Points] /\ mem' \in [Procs -> Memories]
        /\ InStep'
    BY <1>1, <1>3, IdleStep DEF Finish
  <2> QED
    BY <2>1 DEF Finish, TypeOK, Typed, Points
<1> QED
  BY <1>2, <1>3 DEF Finish

\* The keys that set out for the store with an edit.
LEMMA KeyType ==
  ASSUME TypeOK, NEW t \in Tuis, NEW c \in Cards,
         Move(t, c) \/ Assign(t, c) \/ Done(t, c) \/ Detach(t, c)
  PROVE  TypeOK'
<1>0. t \in Procs /\ "Done" \in Statuses
  BY DEF Procs, Statuses
<1>1. CASE Move(t, c)
  BY <1>0, <1>1, EditsMade, StartType DEF Move, TypeOK, Typed
<1>2. CASE Assign(t, c)
  BY <1>0, <1>2, EditsMade, StartType DEF Assign, TypeOK, Typed
<1>3. CASE Done(t, c)
  <2>1. refused' \in [Tuis -> Cards \cup {Nobody}] /\ shown' \in [Tuis -> SUBSET Cards]
    <3>1. refused' \in {refused, [refused EXCEPT ![t] = Nobody], [refused EXCEPT ![t] = c]}
      BY <1>3 DEF Done
    <3>2. shown' \in {shown, [shown EXCEPT ![t] = @ \cup {c}]}
      BY <1>3 DEF Done
    <3>3. refused \in [Tuis -> Cards \cup {Nobody}] /\ shown \in [Tuis -> SUBSET Cards]
      BY DEF TypeOK, Typed
    <3>4. shown[t] \cup {c} \in SUBSET Cards
      BY <3>3
    <3> QED
      BY <3>1, <3>2, <3>3, <3>4
  <2>2. CASE Start(t, c, Moving("Done"), FALSE)
    <3>1. at[t] # "write" /\ UNCHANGED <<disk, lock, seen, undo>>
      BY <1>3 DEF Done
    <3>2. Moving("Done") \in Edits
      BY <1>0, EditsMade
    <3> QED
      BY <1>0, <2>1, <2>2, <3>1, <3>2, StartType
  <2>3. CASE UNCHANGED <<at, mem>>
    BY <1>3, <2>1, <2>3 DEF Done, TypeOK, Typed, InStep
  <2> QED
    BY <1>3, <2>2, <2>3 DEF Done
<1>4. CASE Detach(t, c)
  <2>1. PICK i \in 1..Len(seen[t][c].notes) : Start(t, c, Removing(i), FALSE)
    BY <1>4 DEF Detach
  <2>2. i \in Nat
    <3>1. seen[t][c] \in CardStates
      BY <1>4 DEF Detach, TypeOK, Typed, Boards
    <3>2. Len(seen[t][c].notes) \in Nat
      BY <3>1 DEF CardStates
    <3> QED
      BY <3>2
  <2> QED
    BY <1>0, <1>4, <2>1, <2>2, EditsMade, StartType DEF Detach, TypeOK, Typed
<1> QED
  BY <1>1, <1>2, <1>3, <1>4

LEMMA ReloadType ==
  ASSUME TypeOK, NEW t \in Tuis, Reload(t)
  PROVE  TypeOK'
BY DEF Reload, TypeOK, Typed, InStep

LEMMA DropType ==
  ASSUME TypeOK, NEW t \in Tuis, Drop(t)
  PROVE  TypeOK'
<1>0. t \in Procs
  BY DEF Procs
<1>1. PICK batch \in SUBSET Cards :
        /\ at' = [at EXCEPT ![t] = "remove"]
        /\ mem' = [mem EXCEPT ![t] = [NewMemory(Nobody) EXCEPT !.batch = batch, !.left = batch]]
  BY DEF Drop
<1>2. [NewMemory(Nobody) EXCEPT !.batch = batch, !.left = batch] \in Memories
  BY NewMemories, MemoryUpdates
<1>3. at[t] # "write" /\ lock' = lock
  BY DEF Drop
<1>4. /\ at' \in [Procs -> Points] /\ mem' \in [Procs -> Memories]
      /\ InStep'
  BY <1>0, <1>1, <1>2, <1>3, OneStep DEF Points
<1> QED
  BY <1>4 DEF Drop, TypeOK, Typed, Points

\* A deletion breaks the lock of the card and leaves the rest standing.
LEMMA DeleteType ==
  ASSUME TypeOK, NEW t \in Tuis, NEW c \in Cards, Delete(t, c)
  PROVE  TypeOK'
<1> DEFINE ms == Torn(c, Procs, {"lock", "write"})
           m == [ms[t] EXCEPT !.left = @ \ {c}]
<1>0. t \in Procs
  BY DEF Procs
<1>1. ms \in [Procs -> Memories] /\ \A q \in Procs : ms[q].card = mem[q].card /\ ms[q].read = mem[q].read
  BY TornMemories DEF TypeOK
<1>2. mem' = [ms EXCEPT ![t] = m] /\ at' = at /\ lock' = [lock EXCEPT ![c] = Nobody]
      /\ disk' = [disk EXCEPT ![c] = Absent]
  BY DEF Delete
<1>3. m \in Memories /\ m.card = mem[t].card /\ m.read = mem[t].read /\ m.torn = ms[t].torn
  <2>1. ms[t] \in Memories
    BY <1>0, <1>1
  <2>2. ms[t].left \ {c} \in SUBSET Cards
    BY <2>1 DEF Memories
  <2>3. PICK n \in Memories : n = ms[t]
    BY <2>1
  <2>4. [n EXCEPT !.left = ms[t].left \ {c}] \in Memories
    BY <2>2 DEF Memories
  <2>5. m = [n EXCEPT !.left = ms[t].left \ {c}]
    BY <2>3
  <2>6. m.card = n.card /\ m.read = n.read /\ m.torn = n.torn
    BY <2>5 DEF Memories
  <2> QED
    BY <1>0, <1>1, <2>3, <2>4, <2>5, <2>6
<1> HIDE DEF ms, m
<1>4. mem' \in [Procs -> Memories] /\ \A q \in Procs : mem'[q].card = mem[q].card /\ mem'[q].read = mem[q].read
  BY <1>0, <1>1, <1>2, <1>3
<1>5. Typed'
  BY <1>2, <1>4 DEF Delete, TypeOK, Typed, Boards
<1>6. ASSUME NEW d \in Cards, lock'[d] # Nobody
      PROVE  at'[lock'[d]] = "write" /\ mem'[lock'[d]].card = d
  <2>1. lock'[d] = lock[d] /\ lock[d] \in Procs
    BY <1>2, <1>6 DEF TypeOK, Typed
  <2> QED
    BY <1>2, <1>4, <1>6, <2>1 DEF TypeOK, InStep
<1> QED
  BY <1>2, <1>4, <1>5, <1>6 DEF TypeOK, InStep

LEMMA DroppedType ==
  ASSUME TypeOK, NEW t \in Tuis, Dropped(t)
  PROVE  TypeOK'
<1>0. t \in Procs
  BY DEF Procs
<1>1. undo' \in [Tuis -> Boards] /\ seen' \in [Tuis -> Boards]
  BY DEF Dropped, TypeOK, Typed, Boards
<1>2. /\ at' \in [Procs -> Points] /\ mem' \in [Procs -> Memories]
      /\ InStep'
  BY <1>0, IdleStep DEF Dropped
<1> QED
  BY <1>1, <1>2 DEF Dropped, TypeOK, Typed, Points

\* What an undo leaves in memory: the writers over a restored card are torn.
LEMMA UndoMemories ==
  ASSUME Typed, NEW t \in Tuis, Undo(t)
  PROVE  /\ mem' \in [Procs -> Memories]
         /\ \A q \in Procs :
              /\ mem'[q].card = mem[q].card
              /\ mem'[q].read = mem[q].read
              /\ ~mem'[q].torn =>
                   ~mem[q].torn /\ ~(at[q] = "write" /\ mem[q].card \in Restorable(t))
<1> SUFFICES ASSUME NEW q \in Procs
             PROVE  LET m == IF at[q] = "write" /\ mem[q].card \in Restorable(t)
                               THEN [mem[q] EXCEPT !.torn = TRUE] ELSE mem[q] IN
                    /\ m \in Memories
                    /\ m.card = mem[q].card /\ m.read = mem[q].read
                    /\ ~m.torn => ~mem[q].torn /\ ~(at[q] = "write" /\ mem[q].card \in Restorable(t))
  BY DEF Undo
<1>1. mem[q] \in Memories
  BY DEF Typed
<1> QED
  BY <1>1, MemoryUpdates

LEMMA UndoType ==
  ASSUME TypeOK, NEW t \in Tuis, Undo(t)
  PROVE  TypeOK'
<1>1. \A c \in Restorable(t) : c \in Cards /\ undo[t][c] \in Copies
  BY DEF Restorable, TypeOK, Typed, Boards, Copies
<1>2. disk' \in Boards /\ seen' \in [Tuis -> Boards] /\ undo' \in [Tuis -> Boards]
  BY <1>1 DEF Undo, TypeOK, Typed, Boards, Copies
<1>3. mem' \in [Procs -> Memories] /\ \A q \in Procs : mem'[q].card = mem[q].card /\ mem'[q].read = mem[q].read
  BY UndoMemories DEF TypeOK
<1>4. UNCHANGED <<lock, refused, at, shown>>
  BY DEF Undo
<1>5. Typed'
  BY <1>2, <1>3, <1>4 DEF TypeOK, Typed
<1>6. ASSUME NEW d \in Cards, lock'[d] # Nobody
      PROVE  at'[lock'[d]] = "write" /\ mem'[lock'[d]].card = d
  <2>1. lock[d] \in Procs
    BY <1>4, <1>6 DEF TypeOK, Typed
  <2> QED
    BY <1>3, <1>4, <1>6, <2>1 DEF TypeOK, InStep
<1> QED
  BY <1>3, <1>4, <1>5, <1>6 DEF TypeOK, InStep

LEMMA RestartType ==
  ASSUME TypeOK, NEW p \in Procs, Restart(p)
  PROVE  TypeOK'
<1>1. NewMemory(Nobody) \in Memories
  BY NewMemories
<1>2. Typed'
  BY <1>1 DEF Restart, TypeOK, Typed, Boards
<1>3. at'[p] = "idle" /\ \A q \in Procs \ {p} : at'[q] = at[q] /\ mem'[q] = mem[q]
  BY DEF Restart, TypeOK, Typed
<1>4. ASSUME NEW c \in Cards, lock'[c] # Nobody
      PROVE  at'[lock'[c]] = "write" /\ mem'[lock'[c]].card = c
  <2>1. lock'[c] = lock[c] /\ lock[c] # p /\ lock[c] \in Procs
    BY <1>4 DEF Restart, TypeOK, Typed
  <2> QED
    BY <1>3, <1>4, <2>1 DEF TypeOK, InStep
<1>5. ASSUME NEW q \in Procs
      PROVE  /\ at'[q] \in {"edit", "lock", "write", "close"} => mem'[q].card # Nobody
             /\ at'[q] = "write" => mem'[q].read # Absent
  BY <1>3 DEF TypeOK, InStep
<1> QED
  BY <1>2, <1>4, <1>5 DEF TypeOK, InStep

\* Every step, named by the process that takes it.
LEMMA Steps ==
  ASSUME Next
  PROVE  \/ \E p \in Procs : Open(p) \/ Lock(p) \/ Write(p) \/ Restart(p)
         \/ \E p \in Procs, c \in Cards : Add(p, c) \/ Touch(p, c)
         \/ \E p \in Procs, c \in Cards, n \in Notes, b \in BOOLEAN : Note(p, c, n, b)
         \/ \E p \in Clis : Finish(p) \/ \E c \in Cards : Close(p, c)
         \/ \E t \in Tuis : Reload(t) \/ Drop(t) \/ Dropped(t) \/ Undo(t)
         \/ \E t \in Tuis, c \in Cards : Move(t, c) \/ Assign(t, c) \/ Done(t, c) \/ Detach(t, c)
         \/ \E t \in Tuis, c \in Cards : Delete(t, c)
<1>1. ASSUME NEW p \in Clis, Cli(p)
      PROVE  \/ Finish(p) \/ \E c \in Cards : Close(p, c)
             \/ \E c \in Cards, n \in Notes, b \in BOOLEAN : Note(p, c, n, b)
  BY <1>1 DEF Cli
<1>2. ASSUME NEW p \in Procs, Anyone(p)
      PROVE  \/ Open(p) \/ Lock(p) \/ Write(p) \/ Restart(p)
             \/ \E c \in Cards : Add(p, c) \/ Touch(p, c)
             \/ \E c \in Cards, n \in Notes, b \in BOOLEAN : Note(p, c, n, b)
  BY <1>2 DEF Anyone
<1>3. ASSUME NEW t \in Tuis, Tui(t)
      PROVE  \/ Reload(t) \/ Drop(t) \/ Dropped(t) \/ Undo(t)
             \/ \E c \in Cards : Move(t, c) \/ Assign(t, c) \/ Done(t, c) \/ Detach(t, c)
             \/ \E c \in Cards : Delete(t, c)
  BY <1>3 DEF Tui
<1>4. \A p \in Clis : p \in Procs
  BY DEF Procs
<1>5. \/ \E t \in Tuis : Tui(t)
      \/ \E p \in Clis : Cli(p)
      \/ \E p \in Procs : Anyone(p)
  BY DEF Next
<1>6. CASE \E t \in Tuis : Tui(t)
  BY <1>3, <1>6
<1>7. CASE \E p \in Clis : Cli(p)
  BY <1>1, <1>4, <1>7
<1>8. CASE \E p \in Procs : Anyone(p)
  BY <1>2, <1>8
<1> QED
  BY <1>5, <1>6, <1>7, <1>8

LEMMA TypeNext == TypeOK /\ [Next]_vars => TypeOK'
<1> SUFFICES ASSUME TypeOK, [Next]_vars PROVE TypeOK'
  OBVIOUS
<1>1. CASE UNCHANGED vars
  BY <1>1 DEF vars, TypeOK, Typed, InStep
<1>2. CASE Next
  <2>1. \A p \in Clis : p \in Procs
    BY DEF Procs
  <2> QED
    BY <1>2, <2>1, Steps, OpenType, LockType, WriteType, RestartType, AddType, EitherType, FinishType, CloseType, ReloadType, DropType, DroppedType, UndoType, KeyType, DeleteType
<1> QED
  BY <1>1, <1>2

\* TypeOK of TaskBoard: every variable keeps its type, a lock is held by the
\* process about to write the card, and a writer has read the card it writes
\* (store.rs:179-230).
THEOREM TypeCorrect == Spec => []TypeOK
BY TypeInit, TypeNext, PTL DEF Spec

-----------------------------------------------------------------------------
(* A rewrite under a live lock is of the card as it is                     *)

\* The others go on as they were, and this one is not about to write.
LEMMA QuietStep ==
  ASSUME LockedIsFresh, NEW p \in Procs, at'[p] # "write",
         \A q \in Procs \ {p} : at'[q] = at[q] /\ mem'[q] = mem[q],
         UNCHANGED <<disk, lock>>
  PROVE  LockedIsFresh'
BY DEF LockedIsFresh

LEMMA SetOut ==
  ASSUME TypeOK, NEW p \in Procs, NEW c \in Cards, NEW e, NEW b, Start(p, c, e, b)
  PROVE  at'[p] = "edit" /\ \A q \in Procs \ {p} : at'[q] = at[q] /\ mem'[q] = mem[q]
BY DEF Start, TypeOK, Typed

LEMMA OpenFresh ==
  ASSUME TypeOK, LockedIsFresh, NEW p \in Procs, Open(p)
  PROVE  LockedIsFresh'
<1>1. at'[p] # "write" /\ \A q \in Procs \ {p} : at'[q] = at[q] /\ mem'[q] = mem[q]
  BY DEF Open, TypeOK, Typed
<1> QED
  BY <1>1, QuietStep DEF Open

\* The lock is granted when nobody holds it, so nobody else is about to write
\* the card under it.
LEMMA LockFresh ==
  ASSUME TypeOK, LockedIsFresh, NEW p \in Procs, Lock(p)
  PROVE  LockedIsFresh'
<1> DEFINE c == mem[p].card
<1>1. c \in Cards /\ mem[p] \in Memories /\ at[p] = "lock"
  BY DEF Lock, TypeOK, Typed, InStep, Memories
<1>2. CASE disk[c] # Absent
  <2> DEFINE m == [mem[p] EXCEPT !.read = disk[c]]
  <2>1. disk[c] \in CardStates
    BY <1>1, <1>2 DEF TypeOK, Typed, Boards
  <2>2. m.card = c /\ m.read = disk[c] /\ m.torn = mem[p].torn
    BY <1>1, <2>1, MemoryUpdates
  <2>3. /\ at' = [at EXCEPT ![p] = "write"] /\ mem' = [mem EXCEPT ![p] = m]
        /\ lock' = (IF mem[p].torn THEN lock ELSE [lock EXCEPT ![c] = p])
        /\ mem[p].torn \/ lock[c] = Nobody
        /\ disk' = disk
    BY <1>2 DEF Lock, Available
  <2> HIDE DEF m, c
  <2>4. mem'[p] = m /\ \A q \in Procs \ {p} : at'[q] = at[q] /\ mem'[q] = mem[q]
    BY <2>3 DEF TypeOK, Typed
  <2>5. ASSUME at'[p] = "write", ~mem'[p].torn
        PROVE  lock'[mem'[p].card] = p /\ disk'[mem'[p].card] = mem'[p].read
    BY <1>1, <2>2, <2>3, <2>4, <2>5 DEF TypeOK, Typed
  <2>6. ASSUME NEW q \in Procs \ {p}, at'[q] = "write", ~mem'[q].torn
        PROVE  lock'[mem'[q].card] = q /\ disk'[mem'[q].card] = mem'[q].read
    <3>1. at[q] = "write" /\ mem'[q] = mem[q] /\ ~mem[q].torn
      BY <2>4, <2>6
    <3>2. lock[mem[q].card] = q /\ disk[mem[q].card] = mem[q].read /\ q # Nobody
      BY <3>1, BoardAssumption DEF LockedIsFresh, Procs
    <3>3. lock'[mem[q].card] = lock[mem[q].card]
      BY <1>1, <2>3, <3>2 DEF TypeOK, Typed
    <3> QED
      BY <2>3, <3>1, <3>2, <3>3
  <2> QED
    BY <2>5, <2>6 DEF LockedIsFresh
<1>3. CASE disk[c] = Absent
  <2>1. at'[p] # "write" /\ \A q \in Procs \ {p} : at'[q] = at[q] /\ mem'[q] = mem[q]
    BY <1>3 DEF Lock, TypeOK, Typed
  <2> QED
    BY <1>3, <2>1, QuietStep DEF Lock
<1> QED
  BY <1>2, <1>3

\* Under a live lock the writer is alone on its card; a write over a card that
\* was taken away tears the others.
LEMMA WriteFresh ==
  ASSUME TypeOK, LockedIsFresh, NEW p \in Procs, Write(p)
  PROVE  LockedIsFresh'
<1> DEFINE c == mem[p].card
<1>1. at[p] = "write" /\ c \in Cards
  BY WriterHas DEF Write
<1>2. /\ lock' = Unlocked(p, c)
      /\ \A d \in Cards \ {c} : disk'[d] = disk[d]
  BY <1>1 DEF Write, TypeOK, Typed, Boards
<1>3. at'[p] # "write" /\ \A q \in Procs \ {p} : at'[q] = at[q]
  BY DEF Write, TypeOK, Typed
<1>4. ASSUME NEW q \in Procs \ {p}, at[q] = "write", ~mem'[q].torn
      PROVE  /\ ~mem[q].torn /\ mem'[q].card = mem[q].card /\ mem'[q].read = mem[q].read
             /\ mem[q].card # c \/ disk' = disk
  <2>1. CASE disk' = disk /\ mem' = [mem EXCEPT ![p] = NewMemory(Nobody)]
    BY <1>4, <2>1 DEF TypeOK, Typed
  <2>2. CASE \E m : mem' = [(IF mem[p].torn THEN Torn(c, Procs \ {p}, {"write"}) ELSE mem) EXCEPT ![p] = m]
    <3>1. CASE mem[p].torn
      <4>1. Torn(c, Procs \ {p}, {"write"}) \in [Procs -> Memories]
        BY <1>1, TornMemories DEF TypeOK
      <4>2. mem'[q] = Torn(c, Procs \ {p}, {"write"})[q]
        BY <2>2, <3>1, <4>1
      <4> HIDE DEF c
      <4>3. c \in Cards
        BY <1>1
      <4>4. /\ Torn(c, Procs \ {p}, {"write"})[q].card = mem[q].card
            /\ Torn(c, Procs \ {p}, {"write"})[q].read = mem[q].read
            /\ ~mem[q].torn /\ mem[q].card # c
        BY <1>4, <4>2, <4>3, TornMemories DEF TypeOK
      <4> QED
        BY <4>2, <4>4
    <3>2. CASE ~mem[p].torn
      <4>1. mem'[q] = mem[q]
        BY <2>2, <3>2 DEF TypeOK, Typed
      <4>2. lock[c] = p /\ lock[mem[q].card] = q
        BY <1>1, <1>4, <3>2, <4>1 DEF LockedIsFresh
      <4> QED
        BY <1>4, <4>1, <4>2
    <3> QED
      BY <3>1, <3>2
  <2> QED
    BY <2>1, <2>2 DEF Write
<1>5. ASSUME NEW q \in Procs \ {p}, at'[q] = "write", ~mem'[q].torn
      PROVE  lock'[mem'[q].card] = q /\ disk'[mem'[q].card] = mem'[q].read
  <2>1. at[q] = "write" /\ ~mem[q].torn /\ mem'[q].card = mem[q].card /\ mem'[q].read = mem[q].read
    BY <1>3, <1>4, <1>5
  <2>2. lock[mem[q].card] = q /\ disk[mem[q].card] = mem[q].read /\ mem[q].card \in Cards
    BY <2>1, WriterHas DEF LockedIsFresh
  <2>3. lock'[mem[q].card] = q
    BY <1>2, <2>2 DEF Unlocked, TypeOK, Typed
  <2>4. disk'[mem[q].card] = disk[mem[q].card]
    BY <1>2, <1>4, <1>5, <2>1, <2>2
  <2> QED
    BY <2>1, <2>2, <2>3, <2>4
<1> QED
  BY <1>3, <1>5 DEF LockedIsFresh

\* A new card is nobody's.
LEMMA AddFresh ==
  ASSUME TypeOK, LockedIsFresh, NEW p \in Procs, NEW c \in Cards, Add(p, c)
  PROVE  LockedIsFresh'
<1>1. at'[p] # "write" /\ \A q \in Procs \ {p} : at'[q] = at[q] /\ mem'[q] = mem[q]
  <2>1. CASE UNCHANGED <<at, mem>>
    BY <2>1 DEF Add
  <2>2. ASSUME NEW e, Start(p, c, e, FALSE)
        PROVE  at'[p] # "write" /\ \A q \in Procs \ {p} : at'[q] = at[q] /\ mem'[q] = mem[q]
    BY <2>2, SetOut
  <2> QED
    BY <2>1, <2>2 DEF Add
<1>2. ASSUME NEW q \in Procs \ {p}
      PROVE  disk'[mem[q].card] = disk[mem[q].card]
  <2>1. mem[q].card # c
    BY DEF Add, Fresh
  <2> QED
    BY <2>1 DEF Add, TypeOK, Typed, Boards
<1> QED
  BY <1>1, <1>2 DEF Add, LockedIsFresh

LEMMA DeleteFresh ==
  ASSUME TypeOK, LockedIsFresh, NEW t \in Tuis, NEW c \in Cards, Delete(t, c)
  PROVE  LockedIsFresh'
<1> DEFINE ms == Torn(c, Procs, {"lock", "write"})
<1>0. t \in Procs
  BY DEF Procs
<1>1. ms \in [Procs -> Memories]
  BY TornMemories DEF TypeOK
<1>2. ASSUME NEW q \in Procs, at[q] = "write", ~ms[q].torn
      PROVE  /\ ~mem[q].torn /\ mem[q].card # c
             /\ ms[q].card = mem[q].card /\ ms[q].read = mem[q].read
  BY <1>2, TornMemories DEF TypeOK
<1>3. at' = at /\ at[t] # "write" /\ \A q \in Procs \ {t} : mem'[q] = ms[q]
  BY <1>1 DEF Delete
<1>4. \A d \in Cards \ {c} : disk'[d] = disk[d] /\ lock'[d] = lock[d]
  BY DEF Delete, TypeOK, Typed, Boards
<1> HIDE DEF ms
<1>5. ASSUME NEW q \in Procs, at'[q] = "write", ~mem'[q].torn
      PROVE  lock'[mem'[q].card] = q /\ disk'[mem'[q].card] = mem'[q].read
  <2>1. q # t /\ at[q] = "write" /\ mem'[q] = ms[q] /\ ~ms[q].torn
    BY <1>3, <1>5
  <2>2. mem'[q].card = mem[q].card /\ mem'[q].read = mem[q].read /\ ~mem[q].torn /\ mem[q].card # c
    BY <1>2, <2>1
  <2>3. mem[q].card \in Cards
    BY <2>1, WriterHas
  <2>4. lock[mem[q].card] = q /\ disk[mem[q].card] = mem[q].read
    BY <2>1, <2>2 DEF LockedIsFresh
  <2> QED
    BY <1>4, <2>2, <2>3, <2>4
<1> QED
  BY <1>5 DEF LockedIsFresh

LEMMA UndoFresh ==
  ASSUME TypeOK, LockedIsFresh, NEW t \in Tuis, Undo(t)
  PROVE  LockedIsFresh'
<1>1. ASSUME NEW q \in Procs, at'[q] = "write", ~mem'[q].torn
      PROVE  lock'[mem'[q].card] = q /\ disk'[mem'[q].card] = mem'[q].read
  <2>1. at[q] = "write" /\ at' = at /\ lock' = lock
    BY <1>1 DEF Undo
  <2>2. /\ mem'[q].card = mem[q].card /\ mem'[q].read = mem[q].read
        /\ ~mem[q].torn /\ mem[q].card \notin Restorable(t)
    BY <1>1, <2>1, UndoMemories DEF TypeOK
  <2>3. mem[q].card \in Cards
    BY <2>1, WriterHas
  <2>4. disk'[mem[q].card] = disk[mem[q].card]
    BY <2>2, <2>3 DEF Undo
  <2> QED
    BY <2>1, <2>2, <2>4 DEF LockedIsFresh
<1> QED
  BY <1>1 DEF LockedIsFresh

LEMMA RestartFresh ==
  ASSUME TypeOK, LockedIsFresh, NEW p \in Procs, Restart(p)
  PROVE  LockedIsFresh'
<1>1. at'[p] = "idle" /\ \A q \in Procs \ {p} : at'[q] = at[q] /\ mem'[q] = mem[q]
  BY DEF Restart, TypeOK, Typed
<1>2. ASSUME NEW q \in Procs \ {p}, at[q] = "write", ~mem[q].torn
      PROVE  lock'[mem[q].card] = q /\ disk'[mem[q].card] = mem[q].read
  <2>1. mem[q].card \in Cards /\ lock[mem[q].card] = q /\ disk[mem[q].card] = mem[q].read
    BY <1>2, WriterHas DEF LockedIsFresh
  <2> QED
    BY <2>1 DEF Restart
<1> QED
  BY <1>1, <1>2 DEF LockedIsFresh

\* The steps that only move their own process, short of a write.
LEMMA OwnSteps ==
  ASSUME TypeOK, LockedIsFresh
  PROVE  /\ \A p \in Procs, c \in Cards : Touch(p, c) => LockedIsFresh'
         /\ \A p \in Procs, c \in Cards, n \in Notes, b \in BOOLEAN :
              Note(p, c, n, b) => LockedIsFresh'
         /\ \A p \in Procs : Finish(p) \/ (\E c \in Cards : Close(p, c)) => LockedIsFresh'
         /\ \A t \in Tuis : Reload(t) \/ Drop(t) \/ Dropped(t) => LockedIsFresh'
         /\ \A t \in Tuis, c \in Cards :
              Move(t, c) \/ Assign(t, c) \/ Done(t, c) \/ Detach(t, c) => LockedIsFresh'
<1>0. \A t \in Tuis : t \in Procs
  BY DEF Procs
<1>1. ASSUME NEW p \in Procs, NEW c \in Cards, Touch(p, c)
      PROVE  LockedIsFresh'
  BY <1>1, SetOut, QuietStep DEF Touch
<1>2. ASSUME NEW p \in Procs, NEW c \in Cards, NEW n \in Notes, NEW b \in BOOLEAN, Note(p, c, n, b)
      PROVE  LockedIsFresh'
  BY <1>2, SetOut, QuietStep DEF Note
<1>3. ASSUME NEW p \in Procs, Finish(p)
      PROVE  LockedIsFresh'
  <2>1. at'[p] # "write" /\ \A q \in Procs \ {p} : at'[q] = at[q] /\ mem'[q] = mem[q]
    BY <1>3 DEF Finish, Start, TypeOK, Typed
  <2> QED
    BY <1>3, <2>1, QuietStep DEF Finish
<1>4. ASSUME NEW p \in Procs, NEW c \in Cards, Close(p, c)
      PROVE  LockedIsFresh'
  <2>1. at'[p] # "write" /\ \A q \in Procs \ {p} : at'[q] = at[q] /\ mem'[q] = mem[q]
    BY <1>4 DEF Close, TypeOK, Typed
  <2> QED
    BY <1>4, <2>1, QuietStep DEF Close
<1>5. ASSUME NEW t \in Tuis, Reload(t) \/ Drop(t) \/ Dropped(t)
      PROVE  LockedIsFresh'
  <2>1. at'[t] # "write" /\ \A q \in Procs \ {t} : at'[q] = at[q] /\ mem'[q] = mem[q]
    BY <1>0, <1>5 DEF Reload, Drop, Dropped, TypeOK, Typed
  <2>2. UNCHANGED <<disk, lock>>
    BY <1>5 DEF Reload, Drop, Dropped
  <2> QED
    BY <1>0, <2>1, <2>2, QuietStep
<1>6. ASSUME NEW t \in Tuis, NEW c \in Cards, Move(t, c) \/ Assign(t, c) \/ Done(t, c) \/ Detach(t, c)
      PROVE  LockedIsFresh'
  <2>1. /\ UNCHANGED <<disk, lock>>
        /\ \/ \E e : Start(t, c, e, FALSE)
           \/ UNCHANGED <<at, mem>> /\ at[t] = "idle"
    BY <1>6 DEF Move, Assign, Done, Detach
  <2>2. at'[t] # "write" /\ \A q \in Procs \ {t} : at'[q] = at[q] /\ mem'[q] = mem[q]
    BY <1>0, <2>1, SetOut
  <2> QED
    BY <1>0, <2>1, <2>2, QuietStep
<1> QED
  BY <1>1, <1>2, <1>3, <1>4, <1>5, <1>6

LEMMA FreshNext == TypeOK /\ LockedIsFresh /\ [Next]_vars => LockedIsFresh'
<1> SUFFICES ASSUME TypeOK, LockedIsFresh, [Next]_vars PROVE LockedIsFresh'
  OBVIOUS
<1>1. CASE UNCHANGED vars
  BY <1>1 DEF vars, LockedIsFresh
<1>2. CASE Next
  <2>1. \A p \in Clis : p \in Procs
    BY DEF Procs
  <2> QED
    BY <1>2, <2>1, Steps, OpenFresh, LockFresh, WriteFresh, RestartFresh, AddFresh, OwnSteps, UndoFresh, DeleteFresh
<1> QED
  BY <1>1, <1>2

LEMMA FreshInit == Init => LockedIsFresh
BY DEF Init, LockedIsFresh

\* LockedIsFresh of TaskBoard: update_task's read-modify-write is never out of
\* date while its lock is good, for any number of TUIs and commands
\* (store.rs:179-230).
THEOREM LockedUpdatesFresh == Spec => []LockedIsFresh
<1>1. TypeOK /\ LockedIsFresh /\ [Next]_vars => (TypeOK /\ LockedIsFresh)'
  BY TypeNext, FreshNext
<1>2. Init => TypeOK /\ LockedIsFresh
  BY TypeInit, FreshInit
<1> QED
  BY <1>1, <1>2, PTL DEF Spec

-----------------------------------------------------------------------------
(* The stamp follows the column                                            *)

LEMMA StampedInit == Init => DoneStamped
<1> SUFFICES ASSUME Init PROVE DoneStamped
  OBVIOUS
<1>1. \A p \in Procs : mem[p].read = Absent
  BY NewMemories DEF Init
<1> QED
  BY <1>1 DEF Init, DoneStamped, Stamped

\* What a step must respect: what is new in a variable is stamped.
LEMMA StampsKept ==
  ASSUME DoneStamped,
         \A c \in Cards : disk'[c] = disk[c] \/ Stamped(disk'[c]),
         \A t \in Tuis, c \in Cards : seen'[t][c] = seen[t][c] \/ Stamped(seen'[t][c]),
         \A t \in Tuis, c \in Cards : undo'[t][c] = undo[t][c] \/ Stamped(undo'[t][c]),
         \A p \in Procs : mem'[p].read = mem[p].read \/ Stamped(mem'[p].read)
  PROVE  DoneStamped'
BY DEF DoneStamped, Stamped

\* Setting out, or coming back, leaves nothing read.
LEMMA ReadsKept ==
  ASSUME TypeOK, NEW p \in Procs,
         \/ \E c \in Cards \cup {Nobody} : mem' = [mem EXCEPT ![p] = NewMemory(c)]
         \/ \E c \in Cards, e \in Edits, b \in BOOLEAN : Start(p, c, e, b)
         \/ UNCHANGED mem
  PROVE  \A q \in Procs : mem'[q].read = mem[q].read \/ Stamped(mem'[q].read)
<1>1. mem \in [Procs -> Memories]
  BY DEF TypeOK, Typed
<1>2. CASE \E c \in Cards \cup {Nobody} : mem' = [mem EXCEPT ![p] = NewMemory(c)]
  <2>1. PICK c \in Cards \cup {Nobody} : mem' = [mem EXCEPT ![p] = NewMemory(c)]
    BY <1>2
  <2>2. NewMemory(c).read = Absent
    BY NewMemories
  <2>3. mem'[p].read = Absent /\ \A q \in Procs \ {p} : mem'[q] = mem[q]
    BY <1>1, <2>1, <2>2
  <2> QED
    BY <2>3 DEF Stamped
<1>3. CASE \E c \in Cards, e \in Edits, b \in BOOLEAN : Start(p, c, e, b)
  <2>1. PICK c \in Cards, e \in Edits, b \in BOOLEAN : Start(p, c, e, b)
    BY <1>3
  <2>2. NewMemory(c) \in Memories /\ NewMemory(c).read = Absent
    BY NewMemories
  <2>3. PICK n \in Memories : n = NewMemory(c)
    BY <2>2
  <2>4. [n EXCEPT !.edit = e, !.closes = b].read = n.read
    BY DEF Memories
  <2>5. mem'[p].read = Absent /\ \A q \in Procs \ {p} : mem'[q] = mem[q]
    BY <1>1, <2>1, <2>2, <2>3, <2>4 DEF Start
  <2> QED
    BY <2>5 DEF Stamped
<1> QED
  BY <1>2, <1>3

\* The steps that only set out or come back.
LEMMA QuietStamps ==
  ASSUME TypeOK, DoneStamped
  PROVE  /\ \A p \in Procs : Open(p) => DoneStamped'
         /\ \A p \in Procs, c \in Cards : Touch(p, c) => DoneStamped'
         /\ \A p \in Procs, c \in Cards, n \in Notes, b \in BOOLEAN :
              Note(p, c, n, b) => DoneStamped'
         /\ \A p \in Procs : Finish(p) \/ (\E c \in Cards : Close(p, c)) => DoneStamped'
         /\ \A t \in Tuis, c \in Cards :
              Move(t, c) \/ Assign(t, c) \/ Done(t, c) \/ Detach(t, c) => DoneStamped'
<1>0. (\A t \in Tuis : t \in Procs) /\ "Done" \in Statuses
  BY DEF Procs, Statuses
<1>1. ASSUME NEW p \in Procs, UNCHANGED <<disk, seen, undo>>,
             \/ \E c \in Cards \cup {Nobody} : mem' = [mem EXCEPT ![p] = NewMemory(c)]
             \/ \E c \in Cards, e \in Edits, b \in BOOLEAN : Start(p, c, e, b)
             \/ UNCHANGED mem
      PROVE  DoneStamped'
  BY <1>1, ReadsKept, StampsKept
<1>2. ASSUME NEW p \in Procs, Open(p)
      PROVE  DoneStamped'
  BY <1>1, <1>2 DEF Open
<1>3. ASSUME NEW p \in Procs, NEW c \in Cards, Touch(p, c)
      PROVE  DoneStamped'
  BY <1>1, <1>3, EditsMade DEF Touch
<1>4. ASSUME NEW p \in Procs, NEW c \in Cards, NEW n \in Notes, NEW b \in BOOLEAN, Note(p, c, n, b)
      PROVE  DoneStamped'
  <2>1. Noting(n) \in Edits /\ Start(p, c, Noting(n), b) /\ UNCHANGED <<disk, seen, undo>>
    BY <1>4, EditsMade DEF Note
  <2> QED
    BY <1>1, <2>1
<1>5. ASSUME NEW p \in Procs, Finish(p)
      PROVE  DoneStamped'
  <2>1. mem[p].card \in Cards
    BY <1>5 DEF Finish, TypeOK, Typed, InStep, Memories
  <2>2. \/ Start(p, mem[p].card, Finishing, FALSE)
        \/ mem' = [mem EXCEPT ![p] = NewMemory(Nobody)]
    BY <1>5 DEF Finish
  <2>3. UNCHANGED <<disk, seen, undo>>
    BY <1>5 DEF Finish
  <2> QED
    BY <1>1, <2>1, <2>2, <2>3, EditsMade
<1>6. ASSUME NEW p \in Procs, NEW c \in Cards, Close(p, c)
      PROVE  DoneStamped'
  BY <1>1, <1>6 DEF Close
<1>7. ASSUME NEW t \in Tuis, NEW c \in Cards, Move(t, c) \/ Assign(t, c) \/ Done(t, c) \/ Detach(t, c)
      PROVE  DoneStamped'
  <2>1. \/ \E to \in Statuses : Start(t, c, Moving(to), FALSE)
        \/ Start(t, c, Assigning, FALSE)
        \/ \E i \in 1..Len(seen[t][c].notes) : Start(t, c, Removing(i), FALSE)
        \/ UNCHANGED mem
    BY <1>0, <1>7 DEF Move, Assign, Done, Detach
  <2>2. Detach(t, c) => \A i \in 1..Len(seen[t][c].notes) : i \in Nat
    <3> SUFFICES ASSUME Detach(t, c) PROVE \A i \in 1..Len(seen[t][c].notes) : i \in Nat
      OBVIOUS
    <3>1. seen[t][c] \in CardStates
      BY DEF Detach, TypeOK, Typed, Boards
    <3>2. Len(seen[t][c].notes) \in Nat
      BY <3>1 DEF CardStates
    <3> QED
      BY <3>2
  <2>3. UNCHANGED <<disk, seen, undo>>
    BY <1>7 DEF Move, Assign, Done, Detach
  <2>4. \/ \E e \in Edits : Start(t, c, e, FALSE)
        \/ UNCHANGED mem
    <3>1. CASE Detach(t, c)
      <4>1. PICK i \in 1..Len(seen[t][c].notes) : Start(t, c, Removing(i), FALSE)
        BY <3>1 DEF Detach
      <4>2. Removing(i) \in Edits
        BY <2>2, <3>1, EditsMade
      <4> QED
        BY <4>1, <4>2
    <3>2. CASE Move(t, c) \/ Assign(t, c) \/ Done(t, c)
      <4>1. \/ \E to \in Statuses : Start(t, c, Moving(to), FALSE)
            \/ Start(t, c, Assigning, FALSE)
            \/ UNCHANGED mem
        BY <1>0, <3>2 DEF Move, Assign, Done
      <4> QED
        BY <4>1, EditsMade
    <3> QED
      BY <1>7, <3>1, <3>2
  <2> QED
    BY <1>0, <1>1, <2>3, <2>4
<1> QED
  BY <1>2, <1>3, <1>4, <1>5, <1>6, <1>7

LEMMA LockStamps ==
  ASSUME TypeOK, DoneStamped, NEW p \in Procs, Lock(p)
  PROVE  DoneStamped'
<1>1. mem[p] \in Memories /\ mem[p].card \in Cards /\ UNCHANGED <<disk, seen, undo>>
  BY DEF Lock, TypeOK, Typed, InStep, Memories
<1>2. CASE mem' = [mem EXCEPT ![p] = NewMemory(Nobody)]
  BY <1>1, <1>2, ReadsKept, StampsKept
<1>3. CASE disk[mem[p].card] # Absent /\ mem' = [mem EXCEPT ![p].read = disk[mem[p].card]]
  <2>1. disk[mem[p].card] \in CardStates
    BY <1>1, <1>3 DEF TypeOK, Typed, Boards
  <2>2. mem'[p].read = disk[mem[p].card] /\ \A q \in Procs \ {p} : mem'[q] = mem[q]
    <3>1. mem' = [mem EXCEPT ![p] = [mem[p] EXCEPT !.read = disk[mem[p].card]]]
      BY <1>3
    <3>2. [mem[p] EXCEPT !.read = disk[mem[p].card]].read = disk[mem[p].card]
      BY <1>1, <2>1, MemoryUpdates
    <3> QED
      BY <3>1, <3>2 DEF TypeOK, Typed
  <2>3. Stamped(mem'[p].read)
    BY <1>1, <2>2 DEF DoneStamped, Stamped
  <2> QED
    BY <1>1, <2>2, <2>3, StampsKept
<1> QED
  BY <1>2, <1>3 DEF Lock

LEMMA WriteStamps ==
  ASSUME TypeOK, DoneStamped, NEW p \in Procs, Write(p)
  PROVE  DoneStamped'
<1> DEFINE c == mem[p].card
           s == Edited(mem[p].read, mem[p].edit)
           m == NewMemory(IF mem[p].closes THEN c ELSE Nobody)
           ms == IF mem[p].torn THEN Torn(c, Procs \ {p}, {"write"}) ELSE mem
<1>1. at[p] = "write" /\ c \in Cards /\ s \in CardStates /\ undo' = undo
  BY WriterHas DEF Write
<1>2. Stamped(s)
  <2>1. mem[p].read \in CardStates /\ mem[p].edit \in Edits
    BY <1>1, WriterHas
  <2>2. Stamped(mem[p].read)
    BY <1>1 DEF DoneStamped
  <2> QED
    BY <2>1, <2>2, EditedCard
<1>3. CASE /\ disk' = [disk EXCEPT ![c] = s]
           /\ seen' = Adopted(p, c, s)
           /\ mem' = [ms EXCEPT ![p] = m]
  <2>1. ms \in [Procs -> Memories] /\ \A q \in Procs : ms[q].read = mem[q].read
    <3>1. CASE mem[p].torn
      BY <1>1, <3>1, TornMemories DEF TypeOK
    <3>2. CASE ~mem[p].torn
      BY <3>2 DEF TypeOK, Typed
    <3> QED
      BY <3>1, <3>2
  <2>2. m.read = Absent
    BY <1>1, NewMemories
  <2>3. \A q \in Procs : mem'[q].read = mem[q].read \/ mem'[q].read = Absent
    <3> HIDE DEF m, ms
    <3> QED
      BY <1>3, <2>1, <2>2
  <2>4. \A d \in Cards : disk'[d] = disk[d] \/ disk'[d] = s
    <3> HIDE DEF s
    <3> QED
      BY <1>3 DEF TypeOK, Typed, Boards
  <2>5. \A t \in Tuis, d \in Cards : seen'[t][d] = seen[t][d] \/ seen'[t][d] = s
    <3> HIDE DEF s, c
    <3> QED
      BY <1>1, <1>3, AdoptedBoards DEF TypeOK
  <2>6. Stamped(Absent)
    BY DEF Stamped
  <2> HIDE DEF s
  <2> QED
    BY <1>1, <1>2, <2>3, <2>4, <2>5, <2>6, StampsKept
<1>4. CASE mem' = [mem EXCEPT ![p] = NewMemory(Nobody)] /\ UNCHANGED <<disk, seen>>
  BY <1>1, <1>4, ReadsKept, StampsKept
<1> QED
  BY <1>3, <1>4 DEF Write

LEMMA AddStamps ==
  ASSUME TypeOK, DoneStamped, NEW p \in Procs, NEW c \in Cards, Add(p, c)
  PROVE  DoneStamped'
<1>1. Stamped(NewCard)
  BY DEF Stamped, NewCard
<1>2. \A q \in Procs : mem'[q].read = mem[q].read \/ Stamped(mem'[q].read)
  <2>1. CASE UNCHANGED <<at, mem>>
    BY <2>1
  <2>2. CASE Start(p, c, NoEdit, FALSE)
    BY <2>2, EditsMade, ReadsKept
  <2>3. CASE \E n \in Notes : Start(p, c, Noting(n), FALSE)
    BY <2>3, EditsMade, ReadsKept
  <2> QED
    BY <2>1, <2>2, <2>3 DEF Add
<1>3. \A d \in Cards : disk'[d] = disk[d] \/ disk'[d] = NewCard
  BY DEF Add, TypeOK, Typed, Boards
<1>4. \A t \in Tuis, d \in Cards : seen'[t][d] = seen[t][d] \/ seen'[t][d] = NewCard
  BY DEF Add, TypeOK, Typed, Boards
<1> QED
  BY <1>1, <1>2, <1>3, <1>4, StampsKept DEF Add

\* The steps that take a card away, put it back, or look again: what they leave
\* in one place was in another.
LEMMA SharedStamps ==
  ASSUME TypeOK, DoneStamped
  PROVE  /\ \A t \in Tuis : Reload(t) \/ Drop(t) \/ Dropped(t) \/ Undo(t) => DoneStamped'
         /\ \A t \in Tuis, c \in Cards : Delete(t, c) => DoneStamped'
         /\ \A p \in Procs : Restart(p) => DoneStamped'
<1>0. (\A t \in Tuis : t \in Procs) /\ Stamped(Absent)
  BY DEF Procs, Stamped
<1>1. ASSUME NEW t \in Tuis, Reload(t)
      PROVE  DoneStamped'
  BY <1>1 DEF Reload, DoneStamped, Stamped, TypeOK, Typed
<1>2. ASSUME NEW t \in Tuis, Drop(t)
      PROVE  DoneStamped'
  <2>1. PICK batch \in SUBSET Cards :
          mem' = [mem EXCEPT ![t] = [NewMemory(Nobody) EXCEPT !.batch = batch, !.left = batch]]
    BY <1>2 DEF Drop
  <2>2. [NewMemory(Nobody) EXCEPT !.batch = batch, !.left = batch].read = Absent
    <3>1. PICK n \in Memories : n = NewMemory(Nobody) /\ n.read = Absent
      BY NewMemories
    <3>2. [n EXCEPT !.batch = batch, !.left = batch].read = n.read
      BY DEF Memories
    <3> QED
      BY <3>1, <3>2
  <2>3. \A q \in Procs : mem'[q].read = mem[q].read \/ mem'[q].read = Absent
    BY <1>0, <2>1, <2>2 DEF TypeOK, Typed
  <2> QED
    BY <1>0, <1>2, <2>3, StampsKept DEF Drop
<1>3. ASSUME NEW t \in Tuis, Dropped(t)
      PROVE  DoneStamped'
  <2>1. \A q \in Procs : mem'[q].read = mem[q].read \/ Stamped(mem'[q].read)
    BY <1>0, <1>3, ReadsKept DEF Dropped
  <2>2. \A u \in Tuis, c \in Cards :
          /\ seen'[u][c] \in {seen[u][c], Absent}
          /\ undo'[u][c] \in {undo[u][c], seen[t][c], Absent}
    BY <1>3 DEF Dropped, TypeOK, Typed, Boards
  <2>3. \A c \in Cards : Stamped(seen[t][c])
    BY DEF DoneStamped
  <2>4. \A u \in Tuis, c \in Cards : undo'[u][c] = undo[u][c] \/ Stamped(undo'[u][c])
    BY <1>0, <2>2, <2>3
  <2>5. \A u \in Tuis, c \in Cards : seen'[u][c] = seen[u][c] \/ Stamped(seen'[u][c])
    BY <1>0, <2>2
  <2> QED
    BY <1>3, <2>1, <2>4, <2>5, StampsKept DEF Dropped
<1>4. ASSUME NEW t \in Tuis, Undo(t)
      PROVE  DoneStamped'
  <2>1. \A q \in Procs : mem'[q].read = mem[q].read
    BY <1>4, UndoMemories DEF TypeOK
  <2>2. \A c \in Cards : disk'[c] \in {disk[c], undo[t][c]}
    BY <1>4 DEF Undo
  <2>3. \A u \in Tuis, c \in Cards :
          seen'[u][c] \in {seen[u][c], undo[t][c]} /\ undo'[u][c] \in {undo[u][c], Absent}
    BY <1>4 DEF Undo, TypeOK, Typed, Boards
  <2>4. \A c \in Cards : Stamped(undo[t][c])
    BY DEF DoneStamped
  <2>5. \A c \in Cards : disk'[c] = disk[c] \/ Stamped(disk'[c])
    BY <2>2, <2>4
  <2>6. \A u \in Tuis, c \in Cards :
          /\ seen'[u][c] = seen[u][c] \/ Stamped(seen'[u][c])
          /\ undo'[u][c] = undo[u][c] \/ Stamped(undo'[u][c])
    BY <1>0, <2>3, <2>4
  <2> QED
    BY <2>1, <2>5, <2>6, StampsKept
<1>5. ASSUME NEW t \in Tuis, NEW c \in Cards, Delete(t, c)
      PROVE  DoneStamped'
  <2> DEFINE ms == Torn(c, Procs, {"lock", "write"})
  <2>1. ms \in [Procs -> Memories] /\ \A q \in Procs : ms[q].read = mem[q].read
    BY TornMemories DEF TypeOK
  <2>2. mem' = [ms EXCEPT ![t] = [ms[t] EXCEPT !.left = @ \ {c}]]
    BY <1>5 DEF Delete
  <2> HIDE DEF ms
  <2>3. PICK n \in Memories : n = ms[t]
    BY <1>0, <2>1
  <2>4. [n EXCEPT !.left = @ \ {c}].read = n.read
    BY DEF Memories
  <2>5. \A q \in Procs : mem'[q].read = mem[q].read
    BY <1>0, <2>1, <2>2, <2>3, <2>4
  <2>6. \A d \in Cards : disk'[d] \in {disk[d], Absent}
    BY <1>5 DEF Delete, TypeOK, Typed, Boards
  <2> QED
    BY <1>0, <1>5, <2>5, <2>6, StampsKept DEF Delete
<1>6. ASSUME NEW p \in Procs, Restart(p)
      PROVE  DoneStamped'
  <2>1. \A q \in Procs : mem'[q].read = mem[q].read \/ Stamped(mem'[q].read)
    BY <1>6, ReadsKept DEF Restart
  <2>2. \A u \in Tuis, c \in Cards :
          /\ seen'[u][c] \in {seen[u][c], disk[c]}
          /\ undo'[u][c] \in {undo[u][c], Absent}
    BY <1>6 DEF Restart, TypeOK, Typed, Boards
  <2>3. \A c \in Cards : Stamped(disk[c])
    BY DEF DoneStamped
  <2>4. \A u \in Tuis, c \in Cards :
          /\ seen'[u][c] = seen[u][c] \/ Stamped(seen'[u][c])
          /\ undo'[u][c] = undo[u][c] \/ Stamped(undo'[u][c])
    BY <1>0, <2>2, <2>3
  <2> QED
    BY <1>6, <2>1, <2>4, StampsKept DEF Restart
<1> QED
  BY <1>1, <1>2, <1>3, <1>4, <1>5, <1>6

LEMMA StampedNext == TypeOK /\ DoneStamped /\ [Next]_vars => DoneStamped'
<1> SUFFICES ASSUME TypeOK, DoneStamped, [Next]_vars PROVE DoneStamped'
  OBVIOUS
<1>1. CASE UNCHANGED vars
  BY <1>1, StampsKept DEF vars
<1>2. CASE Next
  <2>1. \A p \in Clis : p \in Procs
    BY DEF Procs
  <2> QED
    BY <1>2, <2>1, Steps, QuietStamps, LockStamps, WriteStamps, AddStamps, SharedStamps
<1> QED
  BY <1>1, <1>2

\* DoneStamped of TaskBoard: a card bears a done_at stamp exactly while it is
\* Done, on disk and in every copy of it (board.rs:163-177, ops/task.rs:195-200).
THEOREM StampFollowsColumn == Spec => []DoneStamped
<1>1. TypeOK /\ DoneStamped /\ [Next]_vars => (TypeOK /\ DoneStamped)'
  BY TypeNext, StampedNext
<1>2. Init => TypeOK /\ DoneStamped
  BY TypeInit, StampedInit
<1> QED
  BY <1>1, <1>2, PTL DEF Spec

-----------------------------------------------------------------------------
(* The board's edges                                                       *)

LEMMA NoMove == \A s \in Statuses : <<s, s>> \in Edges
BY DEF Edges

\* One step moves every card along an edge, or takes it away, or overwrites it.
LEMMA StepsLegal ==
  ASSUME TypeOK, LockedIsFresh, [Next]_vars, NEW c \in Cards
  PROVE  \/ disk[c] = Absent
         \/ disk'[c] = Absent
         \/ <<disk[c].status, disk'[c].status>> \in Edges
         \/ Overwrites(c)
<1> SUFFICES ASSUME disk[c] # Absent, disk'[c] # Absent
             PROVE  <<disk[c].status, disk'[c].status>> \in Edges \/ Overwrites(c)
  OBVIOUS
<1>1. disk[c].status \in Statuses
  BY DEF TypeOK, Typed, Boards, CardStates
<1>2. CASE disk'[c] = disk[c]
  BY <1>1, <1>2, NoMove
<1>3. CASE Next /\ disk'[c] # disk[c]
  <2>1. ASSUME NEW p \in Procs, Write(p)
        PROVE  <<disk[c].status, disk'[c].status>> \in Edges \/ Overwrites(c)
    <3> DEFINE s == Edited(mem[p].read, mem[p].edit)
    <3>1. at[p] = "write" /\ Lands(mem[p].read, mem[p].edit) /\ disk' = [disk EXCEPT ![mem[p].card] = s]
      BY <1>3, <2>1 DEF Write
    <3>2. mem[p].card = c /\ disk'[c] = s
      <4> HIDE DEF s
      <4> QED
        BY <1>3, <3>1 DEF TypeOK, Typed, Boards
    <3>3. CASE mem[p].torn
      BY <3>1, <3>2, <3>3 DEF Overwrites
    <3>4. CASE ~mem[p].torn
      <4>1. disk[c] = mem[p].read
        BY <3>1, <3>2, <3>4 DEF LockedIsFresh
      <4> QED
        BY <3>1, <3>2, <4>1 DEF Lands
    <3> QED
      BY <3>3, <3>4
  <2>2. ASSUME NEW p \in Procs, NEW d \in Cards, Add(p, d)
        PROVE  FALSE
    BY <1>3, <2>2 DEF Add, Fresh, TypeOK, Typed, Boards
  <2>3. ASSUME NEW t \in Tuis, NEW d \in Cards, Delete(t, d)
        PROVE  FALSE
    BY <1>3, <2>3 DEF Delete, TypeOK, Typed, Boards
  <2>4. ASSUME NEW t \in Tuis, Undo(t)
        PROVE  Overwrites(c)
    BY <1>3, <2>4 DEF Undo, Restorable, Overwrites
  <2>5. ASSUME \/ \E p \in Procs : Open(p) \/ Lock(p) \/ Restart(p)
               \/ \E p \in Procs, d \in Cards : Touch(p, d)
               \/ \E p \in Procs, d \in Cards, n \in Notes, b \in BOOLEAN : Note(p, d, n, b)
               \/ \E p \in Clis : Finish(p) \/ \E d \in Cards : Close(p, d)
               \/ \E t \in Tuis : Reload(t) \/ Drop(t) \/ Dropped(t)
               \/ \E t \in Tuis, d \in Cards : Move(t, d) \/ Assign(t, d) \/ Done(t, d) \/ Detach(t, d)
        PROVE  FALSE
    BY <1>3, <2>5 DEF Open, Lock, Restart, Touch, Note, Finish, Close, Reload, Drop, Dropped, Move, Assign, Done, Detach
  <2> QED
    BY <1>3, <2>1, <2>2, <2>3, <2>4, <2>5, Steps
<1> QED
  BY <1>2, <1>3 DEF vars

\* LegalMoves of TaskBoard: no interleaving of TUIs and commands adds up to a
\* move the board's table does not have, because the check is made on the state
\* read under the lock (status.rs:91-93, store.rs:196-216).
THEOREM LegalEdges == Spec => LegalMoves
<1>1. TypeOK /\ LockedIsFresh /\ [Next]_vars
        => [\A c \in Cards :
              \/ disk[c] = Absent
              \/ disk'[c] = Absent
              \/ <<disk[c].status, disk'[c].status>> \in Edges
              \/ Overwrites(c)]_vars
  BY StepsLegal
<1> QED
  BY <1>1, TypeCorrect, LockedUpdatesFresh, PTL DEF Spec, LegalMoves

-----------------------------------------------------------------------------
(* The snapshot                                                            *)

LEMMA StepsShow ==
  ASSUME TypeOK, Next, NEW t \in Tuis, NEW c \in Cards
  PROVE  seen'[t][c] \in {seen[t][c], disk'[c], Absent}
<1>1. ASSUME NEW p \in Procs, Write(p)
      PROVE  seen'[t][c] \in {seen[t][c], disk'[c], Absent}
  <2> DEFINE s == Edited(mem[p].read, mem[p].edit)
  <2>1. mem[p].card \in Cards /\ s \in CardStates
    BY <1>1, WriterHas DEF Write
  <2>2. CASE seen' = Adopted(p, mem[p].card, s) /\ disk' = [disk EXCEPT ![mem[p].card] = s]
    <3> HIDE DEF s
    <3>1. seen'[t][c] = seen[t][c] \/ (c = mem[p].card /\ seen'[t][c] = s)
      BY <2>1, <2>2, AdoptedBoards DEF TypeOK
    <3>2. disk'[mem[p].card] = s
      BY <2>1, <2>2 DEF TypeOK, Typed, Boards
    <3> QED
      BY <3>1, <3>2
  <2>3. CASE UNCHANGED seen
    BY <2>3
  <2> QED
    BY <1>1, <2>2, <2>3 DEF Write
<1>2. ASSUME NEW p \in Procs, NEW d \in Cards, Add(p, d)
      PROVE  seen'[t][c] \in {seen[t][c], disk'[c], Absent}
  BY <1>2 DEF Add, TypeOK, Typed, Boards
<1>3. ASSUME NEW u \in Tuis, Reload(u) \/ Drop(u) \/ Dropped(u) \/ Undo(u)
      PROVE  seen'[t][c] \in {seen[t][c], disk'[c], Absent}
  <2>1. seen \in [Tuis -> Boards]
    BY DEF TypeOK, Typed
  <2>2. CASE Reload(u) \/ Drop(u)
    BY <2>1, <2>2 DEF Reload, Drop
  <2>3. CASE Dropped(u)
    BY <2>1, <2>3 DEF Dropped
  <2>4. CASE Undo(u)
    <3>1. CASE t = u
      <4>1. seen'[t][c] = IF c \in Restorable(t) THEN undo[t][c] ELSE seen[t][c]
        BY <2>1, <2>4, <3>1 DEF Undo
      <4>2. disk'[c] = IF c \in Restorable(t) THEN undo[t][c] ELSE disk[c]
        BY <2>4, <3>1 DEF Undo
      <4> QED
        BY <4>1, <4>2
    <3>2. CASE t # u
      BY <2>1, <2>4, <3>2 DEF Undo
    <3> QED
      BY <3>1, <3>2
  <2> QED
    BY <1>3, <2>2, <2>3, <2>4
<1>4. ASSUME NEW p \in Procs, Restart(p)
      PROVE  seen'[t][c] \in {seen[t][c], disk'[c], Absent}
  BY <1>4 DEF Restart
<1>5. ASSUME \/ \E p \in Procs : Open(p) \/ Lock(p)
             \/ \E p \in Procs, d \in Cards : Touch(p, d)
             \/ \E p \in Procs, d \in Cards, n \in Notes, b \in BOOLEAN : Note(p, d, n, b)
             \/ \E p \in Clis : Finish(p) \/ \E d \in Cards : Close(p, d)
             \/ \E u \in Tuis, d \in Cards : Move(u, d) \/ Assign(u, d) \/ Done(u, d) \/ Detach(u, d)
             \/ \E u \in Tuis, d \in Cards : Delete(u, d)
      PROVE  seen'[t][c] = seen[t][c]
  BY <1>5 DEF Open, Lock, Touch, Note, Finish, Close, Move, Assign, Done, Detach, Delete
<1> QED
  BY <1>1, <1>2, <1>3, <1>4, <1>5, Steps

\* ShowsWhatLanded of TaskBoard: a step of a TUI leaves in its snapshot what is
\* on disk, however stale the copy it acted on (board.rs:12-15, 313-321).
THEOREM SnapshotFollowsDisk == Spec => ShowsWhatLanded
<1>1. TypeOK /\ [Next]_vars
        => [\A t \in Tuis, c \in Cards :
              seen'[t][c] \in {seen[t][c], disk'[c], Absent}]_vars
  BY StepsShow
<1> QED
  BY <1>1, TypeCorrect, PTL DEF Spec, ShowsWhatLanded

-----------------------------------------------------------------------------
(* The board implements CardStore                                          *)

\* Whatever an edit makes of a card is one of the changes of the store.
LEMMA EditIsOne ==
  ASSUME NEW s \in CardStates, NEW e \in Edits, Lands(s, e)
  PROVE  <<s, Edited(s, e)>> \in Changes
<1>1. Edited(s, e) \in CardStates
  BY EditedCard
<1>2. Edited(s, e) \in OneEdit(s)
  <2>1. "Planning" \in Statuses /\ "Done" \in Statuses /\ e.to \in Statuses
    BY DEF Statuses, Edits
  <2>2. e.op = "note" => e.note \in Notes
    BY DEF Edits
  <2> QED
    BY <2>1, <2>2 DEF Edited, OneEdit
<1> QED
  BY <1>1, <1>2 DEF Lands, Changes

\* Who sets out anew has no copy of a card that was removed.
LEMMA NewKeepsNone ==
  ASSUME NEW d, NEW c
  PROVE  /\ ~Keeps(NewMemory(d), c)
         /\ \A e, b : ~Keeps([NewMemory(d) EXCEPT !.edit = e, !.closes = b], c)
         /\ \A x : ~Keeps([NewMemory(d) EXCEPT !.batch = x, !.left = x], c)
BY DEF NewMemory, Keeps

\* A step of one process that gets it no copy makes no card loose.
LEMMA OwnForgets ==
  ASSUME NEW p \in Procs, undo' = undo,
         \A q \in Procs \ {p} : mem'[q] = mem[q],
         \A c \in Cards : Keeps(mem'[p], c) => Keeps(mem[p], c)
  PROVE  Loose' \subseteq Loose
BY DEF Loose

\* A step that leaves the disk alone.
LEMMA StoreQuiet ==
  ASSUME TypeOK, disk' = disk, Loose' \subseteq Loose
  PROVE  Store!Next
BY DEF TypeOK, Typed, Boards, Store!Next, Store!PutBack, Store!Forgotten

\* A process that leaves for the store, or gives up.
LEMMA SetsOutClean ==
  ASSUME TypeOK, NEW p \in Procs, undo' = undo,
         \/ \E c \in Cards : \E e, b : Start(p, c, e, b)
         \/ \E c : mem' = [mem EXCEPT ![p] = NewMemory(c)]
         \/ \E x : mem' = [mem EXCEPT ![p] = [NewMemory(Nobody) EXCEPT !.batch = x, !.left = x]]
         \/ mem' = mem
  PROVE  Loose' \subseteq Loose
<1>1. mem \in [Procs -> Memories]
  BY DEF TypeOK, Typed
<1>2. ASSUME NEW m, mem' = [mem EXCEPT ![p] = m], \A c \in Cards : ~Keeps(m, c)
      PROVE  Loose' \subseteq Loose
  BY <1>1, <1>2, OwnForgets
<1>3. ASSUME NEW c \in Cards, NEW e, NEW b, Start(p, c, e, b)
      PROVE  Loose' \subseteq Loose
  BY <1>2, <1>3, NewKeepsNone DEF Start
<1>4. CASE mem' = mem
  BY <1>4, OwnForgets
<1>5. ASSUME NEW c, mem' = [mem EXCEPT ![p] = NewMemory(c)]
      PROVE  Loose' \subseteq Loose
  BY <1>2, <1>5, NewKeepsNone
<1>6. ASSUME NEW x, mem' = [mem EXCEPT ![p] = [NewMemory(Nobody) EXCEPT !.batch = x, !.left = x]]
      PROVE  Loose' \subseteq Loose
  BY <1>2, <1>6, NewKeepsNone
<1> QED
  BY <1>3, <1>4, <1>5, <1>6

\* The steps short of a write, a removal and its undoing.
LEMMA StoreStutters ==
  ASSUME TypeOK
  PROVE  /\ \A p \in Procs : Open(p) \/ Lock(p) \/ Finish(p) => Store!Next
         /\ \A p \in Procs, c \in Cards : Touch(p, c) \/ Close(p, c) => Store!Next
         /\ \A p \in Procs, c \in Cards, n \in Notes, b \in BOOLEAN : Note(p, c, n, b) => Store!Next
         /\ \A t \in Tuis : Reload(t) \/ Drop(t) => Store!Next
         /\ \A t \in Tuis, c \in Cards :
              Move(t, c) \/ Assign(t, c) \/ Done(t, c) \/ Detach(t, c) => Store!Next
<1>0. \A t \in Tuis : t \in Procs
  BY DEF Procs
<1>1. ASSUME NEW p \in Procs, Open(p) PROVE Store!Next
  BY <1>1, SetsOutClean, StoreQuiet DEF Open
<1>2. ASSUME NEW p \in Procs, Lock(p) PROVE Store!Next
  <2>1. CASE mem' = [mem EXCEPT ![p] = NewMemory(Nobody)]
    BY <1>2, <2>1, SetsOutClean, StoreQuiet DEF Lock
  <2>2. CASE mem' = [mem EXCEPT ![p].read = disk[mem[p].card]]
    <3>1. mem[p] \in Memories /\ mem'[p] = [mem[p] EXCEPT !.read = disk[mem[p].card]]
          /\ \A q \in Procs \ {p} : mem'[q] = mem[q]
      BY <2>2 DEF TypeOK, Typed
    <3>2. \A c \in Cards : Keeps(mem'[p], c) => Keeps(mem[p], c)
      BY <3>1 DEF Keeps, Memories
    <3>3. disk' = disk /\ undo' = undo
      BY <1>2 DEF Lock
    <3> QED
      BY <3>1, <3>2, <3>3, OwnForgets, StoreQuiet
  <2> QED
    BY <1>2, <2>1, <2>2 DEF Lock
<1>3. ASSUME NEW p \in Procs, Finish(p) PROVE Store!Next
  <2>1. disk' = disk /\ undo' = undo
    BY <1>3 DEF Finish
  <2>2. mem[p].card \in Cards
    BY <1>3 DEF Finish, TypeOK, Typed, InStep, Memories
  <2>3. \/ Start(p, mem[p].card, Finishing, FALSE)
        \/ mem' = [mem EXCEPT ![p] = NewMemory(Nobody)]
    BY <1>3 DEF Finish
  <2> QED
    BY <2>1, <2>2, <2>3, SetsOutClean, StoreQuiet
<1>4. ASSUME NEW p \in Procs, NEW c \in Cards, Touch(p, c) \/ Close(p, c) PROVE Store!Next
  BY <1>4, SetsOutClean, StoreQuiet DEF Touch, Close
<1>5. ASSUME NEW p \in Procs, NEW c \in Cards, NEW n \in Notes, NEW b \in BOOLEAN, Note(p, c, n, b)
      PROVE  Store!Next
  BY <1>5, SetsOutClean, StoreQuiet DEF Note
<1>6. ASSUME NEW t \in Tuis, Reload(t) \/ Drop(t) PROVE Store!Next
  BY <1>0, <1>6, SetsOutClean, StoreQuiet DEF Reload, Drop
<1>7. ASSUME NEW t \in Tuis, NEW c \in Cards, Move(t, c) \/ Assign(t, c) \/ Done(t, c) \/ Detach(t, c)
      PROVE  Store!Next
  <2>1. disk' = disk /\ undo' = undo /\ (mem' = mem \/ \E e, b : Start(t, c, e, b))
    BY <1>7 DEF Move, Assign, Done, Detach
  <2> QED
    BY <1>0, <2>1, SetsOutClean, StoreQuiet
<1> QED
  BY <1>1, <1>2, <1>3, <1>4, <1>5, <1>6, <1>7

\* A locked write is one edit of the card as it is; a torn one is over a card
\* that is loose.
LEMMA StoreWrites ==
  ASSUME TypeOK, LockedIsFresh, NEW p \in Procs, Write(p)
  PROVE  Store!Next
<1> DEFINE c == mem[p].card
           e == mem[p].edit
           s == Edited(mem[p].read, e)
<1>1. /\ at[p] = "write" /\ undo' = undo
      /\ c \in Cards /\ e \in Edits /\ mem[p].read \in CardStates /\ s \in CardStates
  BY WriterHas DEF Write
<1>2. CASE ~Lands(mem[p].read, e)
  <2>1. disk' = disk /\ mem' = [mem EXCEPT ![p] = NewMemory(Nobody)]
    BY <1>2 DEF Write
  <2> QED
    BY <1>1, <2>1, SetsOutClean, StoreQuiet
<1>3. CASE Lands(mem[p].read, e)
  <2>1. /\ disk' = [disk EXCEPT ![c] = s]
        /\ \E d : mem' = [(IF mem[p].torn THEN Torn(c, Procs \ {p}, {"write"}) ELSE mem)
                            EXCEPT ![p] = NewMemory(d)]
    BY <1>3 DEF Write
  <2>2. disk \in Boards /\ disk'[c] = s /\ \A d \in Cards \ {c} : disk'[d] = disk[d]
    BY <1>1, <2>1 DEF TypeOK, Typed, Boards
  <2>3. PICK n : mem' = [(IF mem[p].torn THEN Torn(c, Procs \ {p}, {"write"}) ELSE mem)
                            EXCEPT ![p] = NewMemory(n)]
    BY <2>1
  <2>4. CASE ~mem[p].torn
    <3>1. mem' = [mem EXCEPT ![p] = NewMemory(n)]
      BY <2>3, <2>4
    <3>2. Loose' \subseteq Loose
      BY <1>1, <3>1, SetsOutClean
    <3>3. disk[c] = mem[p].read
      BY <1>1, <2>4 DEF LockedIsFresh
    <3>4. <<disk[c], s>> \in Changes
      BY <1>1, <1>3, <3>3, EditIsOne
    <3>5. disk[c] # Absent
      BY <1>1, <3>3, BoardAssumption
    <3> HIDE DEF c, s
    <3> QED
      BY <1>1, <2>1, <2>2, <3>2, <3>4, <3>5 DEF Store!Next, Store!Change, Store!Forgotten
  <2>5. CASE mem[p].torn
    <3>1. c \in Loose
      BY <1>1, <2>5 DEF Loose, Keeps
    <3> DEFINE ms == Torn(c, Procs \ {p}, {"write"})
    <3>2. ms \in [Procs -> Memories]
      BY <1>1, TornMemories DEF TypeOK
    <3>3. mem'[p] = NewMemory(n) /\ \A q \in Procs \ {p} : mem'[q] = ms[q]
      BY <2>3, <2>5, <3>2
    <3>4. \A q \in Procs, d \in Cards : Keeps(ms[q], d) => Keeps(mem[q], d) \/ d = c
      <4> SUFFICES ASSUME NEW q \in Procs, NEW d \in Cards, Keeps(ms[q], d), d # c
                   PROVE  Keeps(mem[q], d)
        OBVIOUS
      <4>1. ms[q] = mem[q] \/ (mem[q].card = c /\ ms[q] = [mem[q] EXCEPT !.torn = TRUE])
        BY DEF Torn
      <4>2. mem[q] \in Memories
        BY DEF TypeOK, Typed
      <4> HIDE DEF ms, c
      <4> QED
        BY <4>1, <4>2 DEF Keeps, Memories
    <3> HIDE DEF c, ms, s
    <3>5. \A q \in Procs, d \in Cards : Keeps(mem'[q], d) => d \in Loose
      <4> SUFFICES ASSUME NEW q \in Procs, NEW d \in Cards, Keeps(mem'[q], d)
                   PROVE  d \in Loose
        OBVIOUS
      <4>1. ~Keeps(mem'[p], d)
        BY <3>3, NewKeepsNone
      <4>2. Keeps(ms[q], d)
        BY <3>3, <4>1
      <4>3. Keeps(mem[q], d) \/ d = c
        BY <3>4, <4>2
      <4> QED
        BY <3>1, <4>3 DEF Loose
    <3>6. Loose' \subseteq Loose
      BY <1>1, <3>5 DEF Loose
    <3>7. DOMAIN disk' = Cards /\ s # Absent
      BY <1>1, <2>1, <2>2, BoardAssumption DEF Boards
    <3> QED
      BY <2>2, <3>1, <3>6, <3>7 DEF Store!Next, Store!PutBack, Store!Forgotten
  <2> QED
    BY <2>4, <2>5
<1> QED
  BY <1>2, <1>3

\* A card is created once.
LEMMA StoreAdds ==
  ASSUME TypeOK, NEW p \in Procs, NEW c \in Cards, Add(p, c)
  PROVE  Store!Next
<1>1. disk' = [disk EXCEPT ![c] = NewCard] /\ disk[c] = Absent /\ undo' = undo
  BY DEF Add, Fresh
<1>2. c \notin Loose
  BY DEF Add, Fresh, Loose, Keeps
<1>3. Loose' \subseteq Loose
  <2>1. mem' = mem \/ \E e, b : Start(p, c, e, b)
    BY DEF Add
  <2> QED
    BY <1>1, <2>1, SetsOutClean
<1> QED
  BY <1>1, <1>2, <1>3 DEF Store!Next, Store!Create, Store!Forgotten

\* A removal makes its card loose, and no other.
LEMMA StoreRemoves ==
  ASSUME TypeOK, NEW t \in Tuis, NEW c \in Cards, Delete(t, c)
  PROVE  Store!Next
<1> DEFINE ms == Torn(c, Procs, {"lock", "write"})
<1>0. t \in Procs
  BY DEF Procs
<1>1. ms \in [Procs -> Memories] /\ mem \in [Procs -> Memories]
  BY TornMemories DEF TypeOK, Typed
<1>2. mem' = [ms EXCEPT ![t].left = @ \ {c}] /\ undo' = undo
  BY DEF Delete
<1>3. \A q \in Procs, d \in Cards \ {c} : Keeps(ms[q], d) => Keeps(mem[q], d)
  <2> SUFFICES ASSUME NEW q \in Procs, NEW d \in Cards \ {c}, Keeps(ms[q], d)
               PROVE  Keeps(mem[q], d)
    OBVIOUS
  <2>1. ms[q] = mem[q] \/ (mem[q].card = c /\ ms[q] = [mem[q] EXCEPT !.torn = TRUE])
    BY DEF Torn
  <2> HIDE DEF ms
  <2> QED
    BY <1>1, <2>1 DEF Keeps, Memories
<1> HIDE DEF ms
<1>4. \A q \in Procs, d \in Cards \ {c} : Keeps(mem'[q], d) => Keeps(ms[q], d)
  <2>1. \A q \in Procs \ {t} : mem'[q] = ms[q]
    BY <1>1, <1>2
  <2>2. mem'[t] = [ms[t] EXCEPT !.left = ms[t].left \ {c}]
    BY <1>0, <1>1, <1>2
  <2>3. \A d \in Cards \ {c} : Keeps(mem'[t], d) => Keeps(ms[t], d)
    BY <1>0, <1>1, <2>2 DEF Keeps, Memories
  <2> QED
    BY <2>1, <2>3
<1>5. Loose' \subseteq Loose \cup {c}
  BY <1>2, <1>3, <1>4 DEF Loose
<1> QED
  BY <1>5 DEF Delete, Store!Next, Store!Remove

\* The undo slot takes over what its removal has deleted.
LEMMA StoreDropped ==
  ASSUME TypeOK, NEW t \in Tuis, Dropped(t)
  PROVE  Store!Next
<1>0. t \in Procs
  BY DEF Procs
<1>1. mem \in [Procs -> Memories] /\ undo \in [Tuis -> Boards]
  BY DEF TypeOK, Typed
<1>2. mem[t].left = {} /\ disk' = disk /\ mem' = [mem EXCEPT ![t] = NewMemory(Nobody)]
  BY DEF Dropped
<1>3. \A u \in Tuis, c \in Cards : undo'[u][c] # Absent => undo[u][c] # Absent \/ c \in mem[t].batch
  BY <1>1 DEF Dropped
<1>4. \A q \in Procs, c \in Cards : Keeps(mem'[q], c) => Keeps(mem[q], c)
  BY <1>1, <1>2, NewKeepsNone
<1>5. \A c \in Cards : c \in mem[t].batch => c \in Loose
  BY <1>0, <1>2 DEF Loose, Keeps
<1>6. Loose' \subseteq Loose
  BY <1>3, <1>4, <1>5 DEF Loose
<1> QED
  BY <1>2, <1>6, StoreQuiet

\* What `u` puts back, its slot has.
LEMMA StoreUndoes ==
  ASSUME TypeOK, NEW t \in Tuis, Undo(t)
  PROVE  Store!Next
<1> DEFINE back == Restorable(t)
<1>1. mem \in [Procs -> Memories] /\ undo \in [Tuis -> Boards] /\ disk \in Boards
  BY DEF TypeOK, Typed
<1>2. /\ disk' = [c \in Cards |-> IF c \in back THEN undo[t][c] ELSE disk[c]]
      /\ undo' = [undo EXCEPT ![t] = [c \in Cards |-> Absent]]
      /\ mem' = [p \in Procs |-> IF at[p] = "write" /\ mem[p].card \in back
                                   THEN [mem[p] EXCEPT !.torn = TRUE] ELSE mem[p]]
  BY DEF Undo
<1>3. \A c \in back : undo[t][c] # Absent /\ c \in Loose /\ c \in Cards
  BY DEF Restorable, Loose
<1> HIDE DEF back
<1>4. \A u \in Tuis, c \in Cards : undo'[u][c] # Absent => undo[u][c] # Absent
  BY <1>1, <1>2
<1>5. ASSUME NEW q \in Procs, NEW c \in Cards, Keeps(mem'[q], c)
      PROVE  Keeps(mem[q], c) \/ c \in back
  <2>1. mem'[q] = mem[q] \/ (mem[q].card \in back /\ mem'[q] = [mem[q] EXCEPT !.torn = TRUE])
    BY <1>2
  <2> QED
    BY <1>1, <1>5, <2>1 DEF Keeps, Memories
<1>6. Loose' \subseteq Loose
  BY <1>3, <1>4, <1>5 DEF Loose
<1>7. DOMAIN disk' = Cards /\ \A c \in Cards : disk'[c] # disk[c] => c \in Loose /\ disk'[c] # Absent
  BY <1>1, <1>2, <1>3
<1> QED
  BY <1>6, <1>7 DEF Store!Next, Store!PutBack, Store!Forgotten

\* A process that starts anew has forgotten its copies.
LEMMA StoreRestarts ==
  ASSUME TypeOK, NEW p \in Procs, Restart(p)
  PROVE  Store!Next
<1>1. mem \in [Procs -> Memories] /\ undo \in [Tuis -> Boards]
  BY DEF TypeOK, Typed
<1>2. \A u \in Tuis, c \in Cards : undo'[u][c] # Absent => undo[u][c] # Absent
  BY <1>1 DEF Restart
<1>3. \A q \in Procs, c \in Cards : Keeps(mem'[q], c) => Keeps(mem[q], c)
  BY <1>1, NewKeepsNone DEF Restart
<1>4. Loose' \subseteq Loose
  BY <1>2, <1>3 DEF Loose
<1> QED
  BY <1>4, StoreQuiet DEF Restart

\* Nothing was removed before the first step.
LEMMA StoreInit ==
  ASSUME Init
  PROVE  Store!Init
<1>1. \A p \in Procs : \A c : ~Keeps(mem[p], c)
  <2>1. \A p \in Procs : mem[p] = NewMemory(Nobody)
    BY DEF Init
  <2> QED
    BY <2>1, NewKeepsNone
<1>2. \A t \in Tuis, c \in Cards : undo[t][c] = Absent
  BY DEF Init
<1>3. Loose = {}
  BY <1>1, <1>2 DEF Loose
<1> QED
  BY <1>3 DEF Init, Store!Init

LEMMA StoreStep ==
  ASSUME TypeOK, LockedIsFresh, [Next]_vars
  PROVE  [Store!Next]_(Store!vars)
<1>1. CASE UNCHANGED vars
  BY <1>1 DEF vars, Loose, Store!vars
<1>2. CASE Next
  <2>1. \A p \in Clis : p \in Procs
    BY DEF Procs
  <2> QED
    BY <1>2, <2>1, Steps, StoreStutters, StoreWrites, StoreAdds, StoreRemoves, StoreDropped, StoreUndoes, StoreRestarts
<1> QED
  BY <1>1, <1>2

\* ImplementsCardStore of TaskBoard: to a card that nobody has removed, however
\* many TUIs and commands write it, one whole edit is made at a time, of what it
\* then is; none is lost (store.rs:179-230, board.rs:266-311).
THEOREM BoardIsACardStore == Spec => ImplementsCardStore
<1>1. Init => Store!Init
  BY StoreInit
<1>2. TypeOK /\ LockedIsFresh /\ [Next]_vars => [Store!Next]_(Store!vars)
  BY StoreStep
<1> QED
  BY <1>1, <1>2, TypeCorrect, LockedUpdatesFresh, PTL DEF Spec, ImplementsCardStore, Store!Spec

=============================================================================

------------------------- MODULE SessionNamesProofs -------------------------
(***************************************************************************)
(* What holds of SessionNames for every number of spawns and names: its    *)
(* types, that no name the user gave is lost, that every card shows the    *)
(* last one, and that the cursor stays where the user put it.              *)
(***************************************************************************)
EXTENDS SessionNames, TLAPS

Known == {"up", "inactive"}

\* A spawn has no row, name or watch before it is made.
Unmade ==
  \A x \in Spawns : life[x] = "unborn" =>
    /\ rows[x].is = "absent" /\ x \notin watches
    /\ typed[x] = None /\ pending[x] = None
    /\ cursor.of # x /\ naming.of # x

\* Nobody forgets that a session had a conversation: not the rows, not what the
\* scanner read or sent last.
Forward ==
  \A x \in Spawns :
    /\ rows[x].is = latest[x].is
    /\ rows[x].is # "absent" => life[x] # "unborn"
    /\ rows[x].is \in Known => life[x] \in Known /\ (scan.stage = "rows" => scan.rows[x] \in Known)
    /\ scan.stage = "rows" /\ scan.rows[x] # "unborn" => life[x] # "unborn"
    /\ scan.stage = "rows" /\ scan.rows[x] \in Known => life[x] \in Known

\* A card is watched or in a tmux session, and a watch ends with the first row.
Watched ==
  /\ watches \cap Hosted(rows) = {}
  /\ cursor.as = "spawn" => cursor.of \in watches
  /\ cursor.as = "session" => rows[cursor.of].is = "up"
  /\ cursor.as = "process" => rows[cursor.of].is = "process"
  /\ naming.as = "session" =>
       rows[naming.of].is \in Known /\ pending[naming.of] = None /\ naming.of \notin watches
  /\ naming.as # "process"

\* Where the last name is: it waits for the session, or is in the file.
NameKept ==
  \A x \in Spawns :
    /\ typed[x] # None => typed[x] = IF pending[x] # None THEN pending[x] ELSE file[x]
    /\ pending[x] # None => rows[x].is # "up"
    /\ typed[x] # None /\ (x \in watches \/ rows[x].is \notin Known) => pending[x] # None

\* What has been written and not been read back is stamped on every scan; the
\* rest, every scan under way has read.
ReadBack ==
  \A x \in Spawns :
    /\ unscanned[x] # None => rows[x].is \in Known
    /\ typed[x] # None /\ pending[x] = None /\ unscanned[x] # None => unscanned[x] = typed[x]
    /\ typed[x] # None /\ pending[x] = None /\ unscanned[x] = None =>
         /\ latest[x].is \in Known => latest[x].title = typed[x]
         /\ scan.stage # "idle" => scan.titles[x] = typed[x]
    /\ rows[x].is = "up" /\ typed[x] # None => rows[x].title = typed[x]

NamesInv == TypeOK /\ Unmade /\ Forward /\ Watched /\ NameKept /\ ReadBack

\* What is known of the constants.
LEMMA Bounds == None \notin Spawns /\ None \notin Names /\ None # AutoTitle
BY SessionNamesAssumption

-----------------------------------------------------------------------------
(* Cards and the cursor.                                                   *)

\* What the cards on the screen are.
LEMMA CardKinds ==
  ASSUME NEW w \in SUBSET Spawns, NEW r \in RowsType, NEW card \in CardsOf(w, r)
  PROVE  /\ card \in Cards
         /\ card.as = "spawn" => card.of \in w \ Hosted(r)
         /\ card.as = "session" => r[card.of].is = "up"
         /\ card.as = "process" => r[card.of].is = "process"
         /\ card.of \in w \/ r[card.of].is \in InTmux
<1>1. CASE card \in {[of |-> x, as |-> "spawn"] : x \in w \ Hosted(r)}
  BY <1>1 DEF Cards
<1>2. CASE card \in {CardOf(x, r) : x \in Hosted(r)}
  <2>1. PICK x \in Hosted(r) : card = CardOf(x, r)
    BY <1>2
  <2>2. x \in Spawns /\ r[x].is \in InTmux
    BY DEF Hosted
  <2>3. CASE r[x].is = "process"
    BY <2>1, <2>2, <2>3 DEF CardOf, Cards
  <2>4. CASE r[x].is # "process"
    BY <2>1, <2>2, <2>4 DEF CardOf, Cards, InTmux
  <2> QED
    BY <2>3, <2>4
<1> QED
  BY <1>1, <1>2 DEF CardsOf

\* The cursor is put on a card, if there is one.
LEMMA RebuildKinds ==
  ASSUME NEW w, NEW r, Rebuild(w, r)
  PROVE  cursor' \in CardsOf(w, r) \cup {NoCard}
BY DEF Rebuild, Reanchored

LEMMA NoCardKind == NoCard.as = "none" /\ NoCard.of = None
BY DEF NoCard

\* It moves to another spawn only if the one it was on has no card.
LEMMA RebuildStays ==
  ASSUME NEW w, NEW r, Rebuild(w, r)
  PROVE  cursor'.of = cursor.of \/ \A card \in CardsOf(w, r) : card.of # cursor.of
BY DEF Rebuild, Reanchored

\* Whatever moved it, nothing but a key takes the cursor off what has a card.
THEOREM CursorIsTheUsers == Spec => CursorStays
<1> DEFINE Stays ==
             cursor' # cursor /\ cursor'.of # cursor.of =>
               \/ naming = NoCard /\ (\E x \in Spawns : life[x] = "unborn" /\ life'[x] = "boots")
               \/ UNCHANGED <<rows, watches>>
               \/ \A card \in CardsOf(watches', rows') : card.of # cursor.of
<1>1. ASSUME NEW r, UpdateSessions(r) PROVE Stays
  BY <1>1, RebuildStays DEF UpdateSessions
<1>2. ASSUME PollSpawnWatches PROVE Stays
  BY <1>2, RebuildStays DEF PollSpawnWatches
<1>3. ASSUME NEW x \in Spawns, WatchSpawn(x), life \in [Spawns -> Lives] PROVE Stays
  BY <1>3 DEF WatchSpawn, Becomes
<1>4. ASSUME life \in [Spawns -> Lives], [Next]_vars PROVE Stays
  <2>1. ASSUME FullScan \/ LivenessPass PROVE Stays
    BY <1>1, <2>1 DEF FullScan, LivenessPass
  <2>2. ASSUME \/ MoveCursor \/ \E n \in Names : SubmitRename(n) PROVE Stays
    BY <2>2, RebuildStays DEF MoveCursor, SubmitRename
  <2>3. ASSUME \/ \E x \in Spawns : Live(x) \/ TitlerEnds(x) \/ AssignTaskAgent(x)
               \/ ScanTitles \/ ScanRows \/ EnterRename \/ CancelRename \/ UNCHANGED vars
        PROVE  Stays
    BY <2>3 DEF Live, TitlerEnds, AssignTaskAgent, ScanTitles, ScanRows, EnterRename, CancelRename,
                vars, hub
  <2> QED
    BY <1>2, <1>3, <1>4, <2>1, <2>2, <2>3 DEF Next
<1>5. Init => life \in [Spawns -> Lives]
  BY DEF Init, Lives
<1>6. life \in [Spawns -> Lives] /\ [Next]_vars => (life \in [Spawns -> Lives])'
  BY DEF Next, Live, Becomes, TitlerEnds, WatchSpawn, AssignTaskAgent, ScanTitles, ScanRows,
         FullScan, LivenessPass, PollSpawnWatches, MoveCursor, EnterRename, CancelRename,
         SubmitRename, vars, Lives
<1> QED
  BY <1>4, <1>5, <1>6, PTL DEF Spec, CursorStays

-----------------------------------------------------------------------------
(* The rows of a scan.                                                     *)

\* What update_sessions is given: rows no older than those it has, of what has
\* been made, that carry every name which nothing is kept to stamp over.
Arrives(r) ==
  \A x \in Spawns :
    /\ r[x].is # "absent" => life[x] # "unborn"
    /\ r[x].is \in Known => life[x] \in Known
    /\ rows[x].is \in Known => r[x].is \in Known
    /\ typed[x] # None /\ pending[x] = None /\ unscanned[x] = None /\ r[x].is \in Known =>
         r[x].title = typed[x]

LEMMA UpdateKeeps ==
  ASSUME NamesInv, NEW r \in RowsType, UpdateSessions(r), Arrives(r), latest' = r,
         UNCHANGED life, scan'.stage = "idle",
         scan' \in [stage : {"idle", "titles", "rows"}, titles : [Spawns -> Titles],
                    rows : [Spawns -> Lives]]
  PROVE  NamesInv'
<1> USE DEF NamesInv
<1>1. PICK lost \in SUBSET (watches \ Hosted(r)), new \in SUBSET Nameless(r) :
        LET kept == watches \ (Hosted(r) \cup lost)
            got  == Adopting(r)
            seen == Adopted(Stamped(r))
        IN /\ titling' = titling \cup new
           /\ watches' = kept
           /\ file' = Persisted(r, got)
           /\ unscanned' = [x \in Spawns |-> IF x \in got THEN pending[x] ELSE Kept(r, x)]
           /\ pending' = Forgotten(pending, lost \cup got)
           /\ typed' = Forgotten(typed, lost)
           /\ CloseRename(lost)
           /\ rows' = seen /\ Rebuild(kept, seen)
  BY DEF UpdateSessions
<1>2. /\ life \in [Spawns -> Lives] /\ file \in [Spawns -> Titles] /\ titling \subseteq Spawns
      /\ watches \subseteq Spawns
      /\ pending \in [Spawns -> Names \cup {None}] /\ unscanned \in [Spawns -> Names \cup {None}]
      /\ cursor \in Cards \cup {NoCard} /\ naming \in Cards \cup {NoCard}
      /\ typed \in [Spawns -> Names \cup {None}]
  BY DEF TypeOK
<1>3. \A x \in Spawns : /\ r[x].is \in {"absent", "process", "up", "inactive"}
                        /\ r[x].title \in Titles
                        /\ x \in Hosted(r) <=> r[x].is \in {"process", "up"}
  BY DEF RowsType, Hosted, InTmux
<1>4. \A x \in Spawns :
        /\ Kept(r, x) \in {unscanned[x], None}
        /\ unscanned[x] # None /\ Kept(r, x) = None =>
             r[x].is \notin Known \/ r[x].title = unscanned[x]
  BY DEF Kept, Known
<1> DEFINE got == Adopting(r)
<1>5. \A x \in Spawns : x \in got <=> pending[x] # None /\ r[x].is = "up"
  BY <1>3 DEF Adopting
<1>6. Stamped(r) \in RowsType /\ \A x \in Spawns :
        /\ Stamped(r)[x].is = r[x].is
        /\ Stamped(r)[x].title = IF Kept(r, x) # None THEN Kept(r, x) ELSE r[x].title
  BY <1>2, <1>4 DEF Stamped, RowsType, Titles
<1>7. Hosted(Stamped(r)) = Hosted(r)
  BY <1>6 DEF Hosted
<1>8. rows' \in RowsType /\ \A x \in Spawns :
        /\ rows'[x].is = r[x].is
        /\ rows'[x].title = IF x \in Hosted(r) /\ pending[x] # None THEN pending[x]
                            ELSE IF Kept(r, x) # None THEN Kept(r, x) ELSE r[x].title
  BY <1>1, <1>2, <1>6, <1>7 DEF Adopted, RowsType, Titles
<1>9. Hosted(rows') = Hosted(r)
  BY <1>8 DEF Hosted
<1>10. /\ watches' = watches \ (Hosted(r) \cup lost)
       /\ \A x \in Spawns :
            /\ pending'[x] = IF x \in lost \/ x \in got THEN None ELSE pending[x]
            /\ typed'[x] = IF x \in lost THEN None ELSE typed[x]
            /\ unscanned'[x] = IF x \in got THEN pending[x] ELSE Kept(r, x)
            /\ file'[x] = IF x \in got THEN pending[x] ELSE file[x]
       /\ pending' \in [Spawns -> Names \cup {None}] /\ typed' \in [Spawns -> Names \cup {None}]
       /\ unscanned' \in [Spawns -> Names \cup {None}] /\ file' \in [Spawns -> Titles]
  <2>1. pending' = [x \in Spawns |-> IF x \in lost \cup got THEN None ELSE pending[x]]
        /\ typed' = [x \in Spawns |-> IF x \in lost THEN None ELSE typed[x]]
    BY <1>1 DEF Forgotten
  <2>2. unscanned' = [x \in Spawns |-> IF x \in got THEN pending[x] ELSE Kept(r, x)]
    BY <1>1
  <2>3. file' = [x \in Spawns |-> IF x \in got THEN pending[x] ELSE file[x]]
    BY <1>1, <1>5 DEF Persisted
  <2>4. \A x \in Spawns :
          /\ pending'[x] = IF x \in lost \/ x \in got THEN None ELSE pending[x]
          /\ typed'[x] = IF x \in lost THEN None ELSE typed[x]
          /\ unscanned'[x] = IF x \in got THEN pending[x] ELSE Kept(r, x)
          /\ file'[x] = IF x \in got THEN pending[x] ELSE file[x]
    BY <2>1, <2>2, <2>3
  <2>5. pending' \in [Spawns -> Names \cup {None}] /\ typed' \in [Spawns -> Names \cup {None}]
    BY <1>2, <2>1
  <2>6. unscanned' \in [Spawns -> Names \cup {None}]
    BY <1>1, <1>2, <1>4, <2>2
  <2>7. file' \in [Spawns -> Titles]
    BY <1>1, <1>2, <2>3 DEF Titles
  <2> QED
    BY <1>1, <2>4, <2>5, <2>6, <2>7
<1>11. /\ cursor' \in CardsOf(watches', rows') \cup {NoCard}
       /\ watches' \in SUBSET Spawns
  BY <1>1, <1>2, RebuildKinds
<1>12. /\ cursor' \in Cards \cup {NoCard}
       /\ cursor'.as = "spawn" => cursor'.of \in watches'
       /\ cursor'.as = "session" => rows'[cursor'.of].is = "up"
       /\ cursor'.as = "process" => rows'[cursor'.of].is = "process"
       /\ cursor' # NoCard => cursor'.of \in watches' \/ rows'[cursor'.of].is \in InTmux
  BY <1>8, <1>11, CardKinds, NoCardKind
<1>13. naming' \in {naming, NoCard}
  BY <1>1 DEF CloseRename
<1>14. TypeOK'
  <2>1. titling' \subseteq Spawns
    BY <1>1, <1>2 DEF Nameless
  <2> QED
    BY <1>2, <1>8, <1>10, <1>11, <1>12, <1>13, <2>1 DEF TypeOK
<1>15. scan'.stage = "idle"
  OBVIOUS
<1>16. Unmade'
  <2> SUFFICES ASSUME NEW x \in Spawns, life[x] = "unborn"
               PROVE  /\ rows'[x].is = "absent" /\ x \notin watches'
                      /\ typed'[x] = None /\ pending'[x] = None
                      /\ cursor'.of # x /\ naming'.of # x
    BY DEF Unmade
  <2>1. /\ x \notin watches /\ typed[x] = None /\ pending[x] = None /\ naming.of # x
        /\ r[x].is = "absent"
    BY <1>3 DEF Unmade, Arrives
  <2>2. rows'[x].is = "absent" /\ x \notin watches' /\ typed'[x] = None /\ pending'[x] = None
    BY <1>8, <1>10, <2>1
  <2>3. cursor'.of # x
    BY <1>12, <2>2, NoCardKind, Bounds DEF InTmux
  <2>4. naming'.of # x
    BY <1>13, <2>1, NoCardKind, Bounds
  <2> QED
    BY <2>2, <2>3, <2>4
<1>17. Forward'
  BY <1>8, <1>15 DEF Forward, Arrives
<1>18. Watched'
  <2>1. watches' \cap Hosted(rows') = {}
    BY <1>9, <1>10
  <2>2. naming'.as = "session" =>
          rows'[naming'.of].is \in Known /\ pending'[naming'.of] = None /\ naming'.of \notin watches'
    <3>1. ASSUME naming'.as = "session"
          PROVE  rows'[naming'.of].is \in Known /\ pending'[naming'.of] = None /\ naming'.of \notin watches'
      <4>1. naming' = naming /\ naming \in Cards
        BY <1>2, <1>13, <3>1, NoCardKind
      <4>2. naming.of \in Spawns
        BY <4>1 DEF Cards
      <4>3. rows[naming.of].is \in Known /\ pending[naming.of] = None /\ naming.of \notin watches
        BY <3>1, <4>1 DEF Watched
      <4> QED
        BY <1>8, <1>10, <4>1, <4>2, <4>3 DEF Arrives
    <3> QED
      BY <3>1
  <2>3. naming'.as # "process"
    BY <1>13, NoCardKind DEF Watched
  <2> QED
    BY <1>12, <2>1, <2>2, <2>3 DEF Watched
<1>19. NameKept'
  <2> SUFFICES ASSUME NEW x \in Spawns
               PROVE  /\ typed'[x] # None =>
                           typed'[x] = IF pending'[x] # None THEN pending'[x] ELSE file'[x]
                      /\ pending'[x] # None => rows'[x].is # "up"
                      /\ typed'[x] # None /\ (x \in watches' \/ rows'[x].is \notin Known) =>
                           pending'[x] # None
    BY DEF NameKept
  <2>1. /\ typed[x] # None => typed[x] = IF pending[x] # None THEN pending[x] ELSE file[x]
        /\ typed[x] # None /\ (x \in watches \/ rows[x].is \notin Known) => pending[x] # None
        /\ rows[x].is \in Known => r[x].is \in Known
    BY DEF NameKept, Arrives
  <2>2. x \in got => r[x].is \in Known /\ x \notin watches'
    BY <1>3, <1>5, <1>10 DEF Known
  <2> QED
    BY <1>5, <1>8, <1>10, <2>1, <2>2
<1>20. ReadBack'
  <2> SUFFICES ASSUME NEW x \in Spawns
               PROVE  /\ unscanned'[x] # None => rows'[x].is \in Known
                      /\ typed'[x] # None /\ pending'[x] = None /\ unscanned'[x] # None =>
                           unscanned'[x] = typed'[x]
                      /\ typed'[x] # None /\ pending'[x] = None /\ unscanned'[x] = None
                           /\ r[x].is \in Known => r[x].title = typed'[x]
                      /\ rows'[x].is = "up" /\ typed'[x] # None => rows'[x].title = typed'[x]
    BY <1>15 DEF ReadBack
  <2>1. /\ unscanned[x] # None => rows[x].is \in Known
        /\ typed[x] # None /\ pending[x] = None /\ unscanned[x] # None => unscanned[x] = typed[x]
        /\ typed[x] # None /\ pending[x] = None /\ unscanned[x] = None /\ r[x].is \in Known =>
             r[x].title = typed[x]
        /\ typed[x] # None /\ pending[x] # None => typed[x] = pending[x]
        /\ rows[x].is \in Known => r[x].is \in Known
    BY DEF ReadBack, NameKept, Arrives
  <2>2. r[x].is = "up" => r[x].is \in Known /\ x \in Hosted(r)
    BY <1>3 DEF Known
  <2>3. unscanned'[x] # None => rows'[x].is \in Known
    BY <1>4, <1>5, <1>8, <1>10, <2>1, <2>2
  <2>4. typed'[x] # None /\ pending'[x] = None /\ unscanned'[x] # None => unscanned'[x] = typed'[x]
    BY <1>4, <1>5, <1>10, <2>1
  <2>5. typed'[x] # None /\ pending'[x] = None /\ unscanned'[x] = None /\ r[x].is \in Known =>
          r[x].title = typed'[x]
    BY <1>4, <1>5, <1>10, <2>1
  <2>6. rows'[x].is = "up" /\ typed'[x] # None => rows'[x].title = typed'[x]
    BY <1>4, <1>8, <1>10, <2>1, <2>2
  <2> QED
    BY <2>3, <2>4, <2>5, <2>6
<1> QED
  BY <1>14, <1>16, <1>17, <1>18, <1>19, <1>20

\* A full scan's rows are that good.
LEMMA ScannedArrives ==
  ASSUME NamesInv, scan.stage = "rows" PROVE Scanned \in RowsType /\ Arrives(Scanned)
<1> USE DEF NamesInv
<1>1. scan.rows \in [Spawns -> Lives] /\ scan.titles \in [Spawns -> Titles]
  BY DEF TypeOK
<1>2. ASSUME NEW x \in Spawns
      PROVE  /\ Scanned[x].is \in {"absent", "process", "up", "inactive"} /\ Scanned[x].title \in Titles
             /\ Scanned[x].is # "absent" => scan.rows[x] = Scanned[x].is
             /\ scan.rows[x] \in Known => Scanned[x].is = scan.rows[x] /\ Scanned[x].title = scan.titles[x]
  <2>1. CASE scan.rows[x] = "process"
    BY <1>1, <2>1 DEF Scanned, Titles, Known
  <2>2. CASE scan.rows[x] \in {"up", "inactive"}
    BY <1>1, <2>2 DEF Scanned, Titles, Known
  <2>3. CASE scan.rows[x] \notin {"process", "up", "inactive"}
    BY <1>1, <2>3 DEF Scanned, Titles, Known
  <2> QED
    BY <2>1, <2>2, <2>3
<1>3. Scanned \in RowsType
  <2>1. Scanned = [x \in Spawns |-> [is |-> Scanned[x].is, title |-> Scanned[x].title]]
    BY DEF Scanned
  <2> QED
    BY <1>2, <2>1 DEF RowsType, InTmux
<1>4. ASSUME NEW x \in Spawns
      PROVE  /\ Scanned[x].is # "absent" => life[x] # "unborn"
             /\ Scanned[x].is \in Known => life[x] \in Known
             /\ rows[x].is \in Known => Scanned[x].is \in Known
             /\ typed[x] # None /\ pending[x] = None /\ unscanned[x] = None
                  /\ Scanned[x].is \in Known => Scanned[x].title = typed[x]
  <2>1. /\ scan.rows[x] # "unborn" => life[x] # "unborn"
        /\ scan.rows[x] \in Known => life[x] \in Known
        /\ rows[x].is \in Known => scan.rows[x] \in Known
    BY DEF Forward
  <2>2. typed[x] # None /\ pending[x] = None /\ unscanned[x] = None => scan.titles[x] = typed[x]
    BY DEF ReadBack
  <2>3. Scanned[x].is \in Known => scan.rows[x] \in Known
    BY <1>2 DEF Known
  <2> QED
    BY <1>2, <2>1, <2>2, <2>3
<1> QED
  BY <1>3, <1>4 DEF Arrives

\* So are the last rows without those whose process died.
LEMMA RefreshedArrives ==
  ASSUME NamesInv PROVE Refreshed \in RowsType /\ Arrives(Refreshed)
<1> USE DEF NamesInv
<1>1. latest \in RowsType /\ rows \in RowsType
  BY DEF TypeOK
<1>2. \A x \in Spawns :
        /\ latest[x].is \in {"absent", "process", "up", "inactive"} /\ latest[x].title \in Titles
        /\ rows[x].is = latest[x].is
  BY <1>1 DEF RowsType, InTmux, Forward
<1>3. ASSUME NEW x \in Spawns
      PROVE  /\ Refreshed[x] \in [is : {"absent", "process", "up", "inactive"}, title : Titles]
             /\ Refreshed[x].title = latest[x].title
             /\ Refreshed[x].is # "absent" => latest[x].is # "absent"
             /\ Refreshed[x].is \in Known <=> latest[x].is \in Known
  <2>1. CASE latest[x].is \in InTmux /\ life[x] \notin InTmux
    <3>1. Refreshed[x] = [latest[x] EXCEPT !.is = IF latest[x].is = "up" THEN "inactive" ELSE "absent"]
      BY <2>1 DEF Refreshed
    <3> QED
      BY <1>1, <1>2, <2>1, <3>1 DEF RowsType, Known, InTmux
  <2>2. CASE ~(latest[x].is \in InTmux /\ life[x] \notin InTmux)
    <3>1. Refreshed[x] = latest[x]
      BY <2>2 DEF Refreshed
    <3> QED
      BY <1>1, <1>2, <3>1 DEF RowsType, InTmux
  <2> QED
    BY <2>1, <2>2
<1>4. Refreshed \in RowsType
  <2>1. Refreshed = [x \in Spawns |-> Refreshed[x]]
    BY DEF Refreshed
  <2> QED
    BY <1>3, <2>1 DEF RowsType, InTmux
<1>5. Arrives(Refreshed)
  BY <1>2, <1>3 DEF Arrives, Forward, ReadBack
<1> QED
  BY <1>4, <1>5

LEMMA NamesInit == Init => NamesInv
<1> SUFFICES ASSUME Init PROVE NamesInv
  OBVIOUS
<1>1. /\ \A x \in Spawns : NoNames[x] = None /\ NoRows[x].is = "absent"
      /\ NoNames \in [Spawns -> Titles] /\ NoNames \in [Spawns -> Names \cup {None}]
      /\ NoRows \in RowsType
  BY DEF NoNames, NoRows, RowsType, Titles
<1>2. NoScan.stage = "idle" /\ NoScan \in [stage : {"idle", "titles", "rows"},
        titles : [Spawns -> Titles], rows : [Spawns -> Lives]]
  BY <1>1 DEF NoScan, Lives
<1> USE <1>1, <1>2, NoCardKind, Bounds DEF Init
<1>3. TypeOK
  BY DEF TypeOK, Lives
<1>4. Unmade /\ Forward
  BY DEF Unmade, Forward, Known
<1>5. Watched /\ NameKept /\ ReadBack
  BY DEF Watched, NameKept, ReadBack, Hosted, Known, InTmux
<1> QED
  BY <1>3, <1>4, <1>5 DEF NamesInv

LEMMA NamesStep == NamesInv /\ [Next]_vars => NamesInv'
<1> SUFFICES ASSUME NamesInv, [Next]_vars PROVE NamesInv'
  OBVIOUS
<1> USE DEF NamesInv
<1>1. /\ life \in [Spawns -> Lives] /\ file \in [Spawns -> Titles] /\ titling \subseteq Spawns
      /\ scan \in [stage : {"idle", "titles", "rows"}, titles : [Spawns -> Titles],
                   rows : [Spawns -> Lives]]
      /\ latest \in RowsType /\ rows \in RowsType /\ watches \subseteq Spawns
      /\ pending \in [Spawns -> Names \cup {None}] /\ unscanned \in [Spawns -> Names \cup {None}]
      /\ cursor \in Cards \cup {NoCard} /\ naming \in Cards \cup {NoCard}
      /\ typed \in [Spawns -> Names \cup {None}]
  BY DEF TypeOK
<1>2. \A x \in Spawns : rows[x].is \in {"absent", "process", "up", "inactive"}
  BY <1>1 DEF RowsType, InTmux
<1>3. ASSUME UNCHANGED vars PROVE NamesInv'
  BY <1>3 DEF vars, TypeOK, Unmade, Forward, Watched, NameKept, ReadBack, Hosted
<1>4. ASSUME FullScan PROVE NamesInv'
  <2>1. NoScan.stage = "idle" /\ NoScan \in [stage : {"idle", "titles", "rows"},
          titles : [Spawns -> Titles], rows : [Spawns -> Lives]]
    <3>1. NoNames \in [Spawns -> Titles] /\ [x \in Spawns |-> "unborn"] \in [Spawns -> Lives]
      BY DEF NoNames, Titles, Lives
    <3> QED
      BY <3>1 DEF NoScan
  <2>2. Scanned \in RowsType /\ Arrives(Scanned)
    BY <1>4, ScannedArrives DEF FullScan
  <2> QED
    BY <1>4, <2>1, <2>2, UpdateKeeps DEF FullScan
<1>5. ASSUME LivenessPass PROVE NamesInv'
  <2>1. scan' = scan /\ scan.stage = "idle"
    BY <1>5 DEF LivenessPass
  <2> QED
    BY <1>1, <1>5, <2>1, RefreshedArrives, UpdateKeeps DEF LivenessPass
<1>6. ASSUME NEW x \in Spawns, Live(x) PROVE NamesInv'
  <2>1. /\ UNCHANGED <<file, titling, scanner, hub>> /\ life' \in [Spawns -> Lives]
        /\ \A y \in Spawns : /\ life'[y] = "unborn" => life[y] = "unborn"
                             /\ life[y] # "unborn" => life'[y] # "unborn"
                             /\ life[y] \in Known => life'[y] \in Known
    BY <1>1, <1>6 DEF Live, Becomes, Lives, Known
  <2>2. TypeOK' /\ Unmade' /\ Forward'
    BY <1>1, <2>1 DEF TypeOK, Unmade, Forward, scanner, hub
  <2>3. Watched' /\ NameKept' /\ ReadBack'
    BY <2>1 DEF Watched, NameKept, ReadBack, Hosted, scanner, hub
  <2> QED
    BY <2>2, <2>3
<1>7. ASSUME NEW x \in Spawns, TitlerEnds(x) PROVE NamesInv'
  <2>1. /\ titling' \subseteq Spawns /\ file' \in [Spawns -> Titles]
        /\ typed' \in [Spawns -> Names \cup {None}]
        /\ \A y \in Spawns : \/ typed'[y] = None
                             \/ typed'[y] = typed[y] /\ file'[y] = file[y]
        /\ UNCHANGED <<life, scanner, rows, watches, pending, unscanned, cursor, naming>>
    BY <1>1, <1>7 DEF TitlerEnds, Titles
  <2>2. TypeOK' /\ Unmade' /\ Forward' /\ Watched'
    BY <1>1, <2>1 DEF TypeOK, Unmade, Forward, Watched, Hosted, scanner
  <2>3. NameKept' /\ ReadBack'
    BY <2>1 DEF NameKept, ReadBack, scanner
  <2> QED
    BY <2>2, <2>3
<1>8. ASSUME ScanTitles PROVE NamesInv'
  <2>1. /\ scan' \in [stage : {"idle", "titles", "rows"}, titles : [Spawns -> Titles],
                      rows : [Spawns -> Lives]]
        /\ scan'.stage = "titles" /\ scan'.titles = file
        /\ UNCHANGED <<life, file, titling, latest, hub>>
    BY <1>1, <1>8 DEF ScanTitles
  <2>2. TypeOK' /\ Unmade' /\ Forward' /\ Watched'
    BY <1>1, <2>1 DEF TypeOK, Unmade, Forward, Watched, Hosted, hub
  <2>3. NameKept' /\ ReadBack'
    BY <2>1 DEF NameKept, ReadBack, hub
  <2> QED
    BY <2>2, <2>3
<1>9. ASSUME ScanRows PROVE NamesInv'
  <2>1. /\ scan' \in [stage : {"idle", "titles", "rows"}, titles : [Spawns -> Titles],
                      rows : [Spawns -> Lives]]
        /\ scan'.stage = "rows" /\ scan'.rows = life /\ scan'.titles = scan.titles
        /\ scan.stage = "titles"
        /\ UNCHANGED <<life, file, titling, latest, hub>>
    BY <1>1, <1>9 DEF ScanRows
  <2>2. TypeOK' /\ Unmade' /\ Forward' /\ Watched'
    BY <1>1, <2>1 DEF TypeOK, Unmade, Forward, Watched, Hosted, hub
  <2>3. NameKept' /\ ReadBack'
    BY <2>1 DEF NameKept, ReadBack, hub
  <2> QED
    BY <2>2, <2>3
<1>10. ASSUME PollSpawnWatches PROVE NamesInv'
  <2> DEFINE dead == {x \in watches : life[x] \in {"gone", "inactive"}}
  <2>1. /\ watches' = watches \ dead
        /\ pending' = Forgotten(pending, dead) /\ typed' = Forgotten(typed, dead)
        /\ CloseRename(dead) /\ Rebuild(watches \ dead, rows)
        /\ UNCHANGED <<life, file, titling, scanner, rows, unscanned>>
    BY <1>10 DEF PollSpawnWatches
  <2>2. \A x \in dead : x \in Spawns /\ x \in watches
    BY <1>1
  <2> HIDE DEF dead
  <2>3. /\ watches' \in SUBSET Spawns /\ naming' \in {naming, NoCard}
        /\ cursor' \in CardsOf(watches', rows) \cup {NoCard}
    BY <1>1, <2>1, RebuildKinds DEF CloseRename
  <2>4. /\ cursor' \in Cards \cup {NoCard}
        /\ cursor'.as = "spawn" => cursor'.of \in watches'
        /\ cursor'.as = "session" => rows[cursor'.of].is = "up"
        /\ cursor'.as = "process" => rows[cursor'.of].is = "process"
        /\ cursor' # NoCard => cursor'.of \in watches' \/ rows[cursor'.of].is \in InTmux
    BY <1>1, <2>3, CardKinds, NoCardKind
  <2>5. /\ pending' \in [Spawns -> Names \cup {None}] /\ typed' \in [Spawns -> Names \cup {None}]
        /\ \A x \in Spawns : /\ pending'[x] = IF x \in dead THEN None ELSE pending[x]
                             /\ typed'[x] = IF x \in dead THEN None ELSE typed[x]
    BY <1>1, <2>1 DEF Forgotten
  <2>6. TypeOK'
    BY <1>1, <2>1, <2>3, <2>4, <2>5 DEF TypeOK, scanner
  <2>7. Unmade'
    <3> SUFFICES ASSUME NEW x \in Spawns, life[x] = "unborn"
                 PROVE  /\ rows[x].is = "absent" /\ x \notin watches'
                        /\ typed'[x] = None /\ pending'[x] = None
                        /\ cursor'.of # x /\ naming'.of # x
      BY <2>1 DEF Unmade
    <3>1. /\ rows[x].is = "absent" /\ x \notin watches /\ typed[x] = None /\ pending[x] = None
          /\ naming.of # x
      BY DEF Unmade
    <3>2. cursor'.of # x /\ naming'.of # x
      BY <2>1, <2>3, <2>4, <3>1, NoCardKind, Bounds DEF InTmux
    <3> QED
      BY <2>1, <2>5, <3>1, <3>2
  <2>8. Forward'
    BY <2>1 DEF Forward, scanner
  <2>9. Watched'
    <3>1. ASSUME naming'.as = "session"
          PROVE  rows[naming'.of].is \in Known /\ pending'[naming'.of] = None /\ naming'.of \notin watches'
      <4>1. naming' = naming /\ naming.of \in Spawns
        BY <1>1, <2>3, <3>1, NoCardKind DEF Cards
      <4> QED
        BY <2>1, <2>5, <3>1, <4>1 DEF Watched
    <3>2. naming'.as # "process"
      BY <2>3, NoCardKind DEF Watched
    <3> QED
      BY <2>1, <2>4, <3>1, <3>2 DEF Watched, Hosted
  <2>10. NameKept' /\ ReadBack'
    BY <2>1, <2>5 DEF NameKept, ReadBack, scanner
  <2> QED
    BY <2>6, <2>7, <2>8, <2>9, <2>10
<1>11. ASSUME NEW x \in Spawns, WatchSpawn(x) PROVE NamesInv'
  <2>1. /\ naming = NoCard /\ life[x] = "unborn" /\ life' = [life EXCEPT ![x] = "boots"]
        /\ watches' = watches \cup {x} /\ cursor' = [of |-> x, as |-> "spawn"]
        /\ naming' \in {NoCard, [of |-> x, as |-> "spawn"]}
        /\ UNCHANGED <<file, titling, scanner, rows, unscanned>>
    BY <1>11 DEF WatchSpawn, Becomes
  <2>2. \E n \in Names \cup {None} :
          pending' = [pending EXCEPT ![x] = n] /\ typed' = [typed EXCEPT ![x] = n]
    <3>1. pending[x] = None /\ typed[x] = None
      BY <2>1 DEF Unmade
    <3>2. CASE UNCHANGED <<pending, typed>>
      BY <1>1, <3>1, <3>2
    <3>3. CASE \E n \in Names :
                 pending' = [pending EXCEPT ![x] = n] /\ typed' = [typed EXCEPT ![x] = n]
      BY <3>3
    <3> QED
      BY <1>11, <3>2, <3>3 DEF WatchSpawn
  <2>3. PICK n \in Names \cup {None} :
          pending' = [pending EXCEPT ![x] = n] /\ typed' = [typed EXCEPT ![x] = n]
    BY <2>2
  <2>4. /\ life' \in [Spawns -> Lives] /\ life'[x] = "boots"
        /\ pending' \in [Spawns -> Names \cup {None}] /\ typed' \in [Spawns -> Names \cup {None}]
        /\ pending'[x] = n /\ typed'[x] = n
        /\ \A y \in Spawns \ {x} :
             life'[y] = life[y] /\ pending'[y] = pending[y] /\ typed'[y] = typed[y]
    BY <1>1, <2>1, <2>3 DEF Lives
  <2>5. /\ cursor' \in Cards /\ cursor'.of = x /\ cursor'.as = "spawn"
        /\ naming' \in Cards \cup {NoCard} /\ naming'.of \in {None, x} /\ naming'.as \in {"none", "spawn"}
    BY <2>1, NoCardKind DEF Cards
  <2>6. rows[x].is = "absent" /\ x \notin watches
    BY <2>1 DEF Unmade
  <2>7. TypeOK'
    BY <1>1, <2>1, <2>4, <2>5 DEF TypeOK, scanner
  <2>8. Unmade'
    BY <2>1, <2>4, <2>5, Bounds DEF Unmade
  <2>9. Forward'
    BY <2>1, <2>4, <2>6 DEF Forward, scanner, Known
  <2>10. Watched'
    BY <2>1, <2>4, <2>5, <2>6 DEF Watched, Hosted, InTmux
  <2>11. NameKept' /\ ReadBack'
    BY <2>1, <2>4, <2>6 DEF NameKept, ReadBack, scanner, Known
  <2> QED
    BY <2>7, <2>8, <2>9, <2>10, <2>11
<1>12. ASSUME NEW x \in Spawns, AssignTaskAgent(x) PROVE NamesInv'
  <2>1. /\ naming = NoCard /\ life[x] = "unborn" /\ life' = [life EXCEPT ![x] = "boots"]
        /\ UNCHANGED <<file, titling, scanner, rows, watches, unscanned, cursor, naming>>
    BY <1>12 DEF AssignTaskAgent, Becomes
  <2>2. PICK n \in Names :
          pending' = [pending EXCEPT ![x] = n] /\ typed' = [typed EXCEPT ![x] = n]
    BY <1>12 DEF AssignTaskAgent
  <2>3. /\ life' \in [Spawns -> Lives] /\ life'[x] = "boots"
        /\ pending' \in [Spawns -> Names \cup {None}] /\ typed' \in [Spawns -> Names \cup {None}]
        /\ pending'[x] = n /\ typed'[x] = n
        /\ \A y \in Spawns \ {x} :
             life'[y] = life[y] /\ pending'[y] = pending[y] /\ typed'[y] = typed[y]
    BY <1>1, <2>1, <2>2 DEF Lives
  <2>4. rows[x].is = "absent" /\ x \notin watches /\ naming.as = "none"
    BY <2>1, NoCardKind DEF Unmade
  <2>5. TypeOK'
    BY <1>1, <2>1, <2>3 DEF TypeOK, scanner
  <2>6. Unmade' /\ Watched'
    BY <2>1, <2>3, <2>4 DEF Unmade, Watched, Hosted
  <2>7. Forward'
    BY <2>1, <2>3, <2>4 DEF Forward, scanner, Known
  <2>8. NameKept' /\ ReadBack'
    BY <2>1, <2>3, <2>4, Bounds DEF NameKept, ReadBack, scanner, Known
  <2> QED
    BY <2>5, <2>6, <2>7, <2>8
<1>13. ASSUME MoveCursor PROVE NamesInv'
  <2>1. /\ cursor' \in CardsOf(watches, rows)
        /\ UNCHANGED <<life, file, titling, scanner, rows, watches, pending, unscanned, naming, typed>>
    BY <1>13 DEF MoveCursor
  <2>2. /\ cursor' \in Cards
        /\ cursor'.as = "spawn" => cursor'.of \in watches
        /\ cursor'.as = "session" => rows[cursor'.of].is = "up"
        /\ cursor'.as = "process" => rows[cursor'.of].is = "process"
        /\ cursor'.of \in watches \/ rows[cursor'.of].is \in InTmux
    BY <1>1, <2>1, CardKinds
  <2>3. TypeOK' /\ Forward'
    BY <1>1, <2>1, <2>2 DEF TypeOK, Forward, scanner
  <2>4. Unmade' /\ Watched'
    BY <2>1, <2>2 DEF Unmade, Watched, Hosted, InTmux
  <2>5. NameKept' /\ ReadBack'
    BY <2>1 DEF NameKept, ReadBack, scanner
  <2> QED
    BY <2>3, <2>4, <2>5
<1>14. ASSUME EnterRename \/ CancelRename PROVE NamesInv'
  <2>1. UNCHANGED <<life, file, titling, scanner, rows, watches, pending, unscanned, cursor, typed>>
    BY <1>14 DEF EnterRename, CancelRename
  <2>2. /\ naming' \in Cards \cup {NoCard} /\ naming'.of \in {cursor.of, None}
        /\ naming'.as # "process" /\ (naming'.as = "session" => naming' = cursor)
    <3>1. CASE CancelRename
      BY <1>1, <3>1, NoCardKind DEF CancelRename
    <3>2. CASE EnterRename
      <4>1. cursor \in Cards
        BY <1>1, <3>2 DEF EnterRename
      <4>2. CASE cursor.as = "process"
        BY <3>2, <4>1, <4>2 DEF EnterRename, Cards
      <4>3. CASE cursor.as # "process"
        BY <3>2, <4>1, <4>3 DEF EnterRename
      <4> QED
        BY <4>2, <4>3
    <3> QED
      BY <1>14, <3>1, <3>2
  <2>3. TypeOK' /\ Forward'
    BY <1>1, <2>1, <2>2 DEF TypeOK, Forward, scanner
  <2>4. Unmade'
    BY <2>1, <2>2, Bounds DEF Unmade
  <2>5. Watched'
    <3>1. ASSUME naming'.as = "session"
          PROVE  rows[naming'.of].is \in Known /\ pending[naming'.of] = None /\ naming'.of \notin watches
      <4>1. naming' = cursor /\ cursor.as = "session" /\ cursor.of \in Spawns
        BY <1>1, <2>2, <3>1, NoCardKind DEF Cards
      <4>2. rows[cursor.of].is = "up"
        BY <4>1 DEF Watched
      <4> QED
        BY <4>1, <4>2 DEF Watched, NameKept, Hosted, Known, InTmux
    <3> QED
      BY <2>1, <2>2, <3>1 DEF Watched, Hosted
  <2>6. NameKept' /\ ReadBack'
    BY <2>1 DEF NameKept, ReadBack, scanner
  <2> QED
    BY <2>3, <2>4, <2>5, <2>6
<1>15. ASSUME NEW n \in Names, SubmitRename(n) PROVE NamesInv'
  <2> DEFINE x == naming.of
             real == naming.as = "session" \/ rows[x].is = "up"
  <2>1. x \in Spawns /\ naming' = NoCard /\ life[x] # "unborn"
    BY <1>1, <1>15 DEF SubmitRename, Cards, Unmade
  <2>2. /\ typed' = [typed EXCEPT ![x] = n] /\ UNCHANGED <<life, titling, scanner, watches>>
        /\ pending' = [pending EXCEPT ![x] = IF naming.as = "session" THEN pending[x]
                                             ELSE IF real THEN None ELSE n]
    BY <1>15 DEF SubmitRename
  <2>3. /\ typed' \in [Spawns -> Names \cup {None}] /\ typed'[x] = n
        /\ pending' \in [Spawns -> Names \cup {None}] /\ pending'[x] = IF real THEN None ELSE n
        /\ \A y \in Spawns \ {x} : typed'[y] = typed[y] /\ pending'[y] = pending[y]
    <3>1. naming.as = "session" => pending[x] = None
      BY DEF Watched
    <3> QED
      BY <1>1, <2>1, <2>2, <3>1
  <2>4. n # None
    BY Bounds
  <2>5. CASE real
    <3>1. /\ file' = [file EXCEPT ![x] = n] /\ unscanned' = [unscanned EXCEPT ![x] = n]
          /\ rows' = [rows EXCEPT ![x].title = n] /\ UNCHANGED cursor
      BY <1>15, <2>5 DEF SubmitRename
    <3>2. /\ file' \in [Spawns -> Titles] /\ unscanned' \in [Spawns -> Names \cup {None}]
          /\ rows' \in RowsType /\ file'[x] = n /\ unscanned'[x] = n /\ rows'[x].title = n
          /\ \A y \in Spawns : rows'[y].is = rows[y].is
          /\ \A y \in Spawns \ {x} : file'[y] = file[y] /\ unscanned'[y] = unscanned[y] /\ rows'[y] = rows[y]
      <4>1. [rows[x] EXCEPT !.title = n] \in
              [is : {"absent"} \cup InTmux \cup {"inactive"}, title : Titles]
        <5>1. rows[x] \in [is : {"absent"} \cup InTmux \cup {"inactive"}, title : Titles]
              /\ n \in Titles
          BY <1>1, <2>1 DEF RowsType, Titles
        <5> QED
          BY <5>1
      <4>2. rows' = [rows EXCEPT ![x] = [rows[x] EXCEPT !.title = n]]
        BY <3>1
      <4>3. rows' \in RowsType
        BY <1>1, <2>1, <4>1, <4>2 DEF RowsType
      <4>4. /\ file' \in [Spawns -> Titles] /\ unscanned' \in [Spawns -> Names \cup {None}]
            /\ file'[x] = n /\ unscanned'[x] = n
            /\ \A y \in Spawns \ {x} : file'[y] = file[y] /\ unscanned'[y] = unscanned[y]
        BY <1>1, <2>1, <3>1 DEF Titles
      <4>5. /\ rows'[x] = [rows[x] EXCEPT !.title = n]
            /\ \A y \in Spawns \ {x} : rows'[y] = rows[y]
        BY <1>1, <2>1, <4>2 DEF RowsType
      <4>6. rows'[x].title = n /\ rows'[x].is = rows[x].is
        BY <1>1, <2>1, <4>5 DEF RowsType
      <4> QED
        BY <4>3, <4>4, <4>5, <4>6
    <3>3. rows[x].is \in Known /\ x \notin watches /\ pending'[x] = None
      BY <2>1, <2>3, <2>5 DEF Watched, Known, Hosted, InTmux
    <3> HIDE DEF x, real
    <3>4. TypeOK'
      BY <1>1, <2>1, <2>2, <2>3, <3>1, <3>2 DEF TypeOK, scanner
    <3>5. Unmade'
      BY <2>1, <2>2, <2>3, <3>1, <3>2, NoCardKind, Bounds DEF Unmade
    <3>6. Forward'
      BY <2>2, <3>2 DEF Forward, scanner
    <3>7. Hosted(rows') = Hosted(rows)
      BY <3>2 DEF Hosted
    <3>8. /\ cursor.as = "session" => cursor.of \in Spawns
          /\ cursor.as = "process" => cursor.of \in Spawns
      BY <1>1, NoCardKind DEF Cards
    <3>9. Watched'
      BY <2>1, <2>2, <3>1, <3>2, <3>7, <3>8, NoCardKind DEF Watched
    <3>10. NameKept'
      BY <2>1, <2>2, <2>3, <2>4, <3>2, <3>3 DEF NameKept
    <3>11. ReadBack'
      BY <2>1, <2>2, <2>3, <2>4, <3>2, <3>3 DEF ReadBack, scanner
    <3> QED
      BY <3>4, <3>5, <3>6, <3>9, <3>10, <3>11
  <2>6. CASE ~real
    <3>1. Rebuild(watches, rows) /\ UNCHANGED <<file, unscanned, rows>>
      BY <1>15, <2>6 DEF SubmitRename
    <3>2. /\ cursor' \in Cards \cup {NoCard}
          /\ cursor'.as = "spawn" => cursor'.of \in watches
          /\ cursor'.as = "session" => rows[cursor'.of].is = "up"
          /\ cursor'.as = "process" => rows[cursor'.of].is = "process"
          /\ cursor' # NoCard => cursor'.of \in watches \/ rows[cursor'.of].is \in InTmux
      BY <1>1, <3>1, RebuildKinds, CardKinds, NoCardKind
    <3>3. rows[x].is # "up" /\ pending'[x] = n
      BY <2>3, <2>6
    <3> HIDE DEF x, real
    <3>4. TypeOK'
      BY <1>1, <2>1, <2>2, <2>3, <3>1, <3>2 DEF TypeOK, scanner
    <3>5. Unmade'
      BY <2>1, <2>2, <2>3, <3>1, <3>2, NoCardKind, Bounds DEF Unmade, InTmux
    <3>6. Forward'
      BY <2>2, <3>1 DEF Forward, scanner
    <3>7. Watched'
      BY <2>1, <2>2, <3>1, <3>2, NoCardKind DEF Watched, Hosted
    <3>8. NameKept'
      BY <2>1, <2>2, <2>3, <2>4, <3>1, <3>3 DEF NameKept
    <3>9. ReadBack'
      BY <2>1, <2>2, <2>3, <2>4, <3>1, <3>3 DEF ReadBack, scanner
    <3> QED
      BY <3>4, <3>5, <3>6, <3>7, <3>8, <3>9
  <2> QED
    BY <2>5, <2>6
<1> QED
  BY <1>3, <1>4, <1>5, <1>6, <1>7, <1>8, <1>9, <1>10, <1>11, <1>12, <1>13, <1>14, <1>15 DEF Next

-----------------------------------------------------------------------------
(* Theorems.                                                               *)

\* Every variable keeps its type, whatever scans, titlers and keys do.
THEOREM TypeCorrect == Spec => []TypeOK
<1>1. NamesInv => TypeOK
  BY DEF NamesInv
<1> QED
  BY <1>1, NamesInit, NamesStep, PTL DEF Spec

\* From the prompt over the temporary id to the session's own, the last name
\* the user gave a session is always somewhere it will be found.
THEOREM NamesAreKept == Spec => []NameNotLost
<1>1. NamesInv => NameNotLost
  BY DEF NamesInv, NameKept, NameNotLost
<1> QED
  BY <1>1, NamesInit, NamesStep, PTL DEF Spec

\* However old what a scan has read is when it comes in, the cards show the
\* last names typed.
THEOREM CardsShowTyped == Spec => []CardShowsTyped
<1>1. NamesInv => CardShowsTyped
  <2> SUFFICES ASSUME NamesInv, NEW card \in CardsOf(watches, rows), typed[card.of] # None
               PROVE  \/ Shown(card) = typed[card.of]
                      \/ card.as = "process" /\ pending[card.of] = typed[card.of]
    BY DEF CardShowsTyped
  <2>1. watches \in SUBSET Spawns /\ rows \in RowsType
    BY DEF NamesInv, TypeOK
  <2>2. /\ card.of \in Spawns /\ card.as \in {"spawn", "process", "session"}
        /\ card.as = "spawn" => card.of \in watches
        /\ card.as = "session" => rows[card.of].is = "up"
        /\ card.as = "process" => rows[card.of].is = "process"
    BY <2>1, CardKinds DEF Cards
  <2>3. CASE card.as = "spawn"
    BY <2>2, <2>3 DEF NamesInv, NameKept, Shown
  <2>4. CASE card.as = "session"
    BY <2>2, <2>4 DEF NamesInv, ReadBack, Shown
  <2>5. CASE card.as = "process"
    BY <2>2, <2>5 DEF NamesInv, NameKept, Known
  <2> QED
    BY <2>2, <2>3, <2>4, <2>5
<1> QED
  BY <1>1, NamesInit, NamesStep, PTL DEF Spec

=============================================================================

---------------------------- MODULE SessionNames ----------------------------
(***************************************************************************)
(* The names of sessions that are spawned from the hub.  A session gets    *)
(* its card before any scan has seen it, may be named while it boots, and  *)
(* may show under a temporary id before it has its own.  Names live in a   *)
(* file that a scan reads when it starts, though its rows reach the hub    *)
(* when it ends, and in which background titlers write too; the cursor has *)
(* to stay on its card through all of it.                                  *)
(***************************************************************************)
EXTENDS Naturals, FiniteSets

CONSTANTS
  Spawns,   \* tmux names: each is used for one spawn
  Names,    \* what the user types
  AutoTitle, \* what a titler comes up with
  None

ASSUME SessionNamesAssumption == None \notin Spawns \cup Names \cup {AutoTitle}

Titles == Names \cup {AutoTitle, None}

VARIABLES
  life,       \* what has become of each spawn
  file,       \* the title file, by the id of the conversation
  titling,    \* the titlers that run
  scan,       \* the scan under way: what it has read so far
  latest,     \* the rows the scanner sent last
  rows,       \* the hub: the sessions of the last scan it has applied
  watches,    \* spawns it has not seen yet
  pending,    \* names typed for sessions that boot
  unscanned,  \* names written that no scan has read back
  cursor,     \* the card under the cursor
  naming,     \* the card the open rename is for
  typed       \* the last name the user gave each session (history)

vars == <<life, file, titling, scan, latest, rows, watches, pending, unscanned, cursor,
          naming, typed>>
hub == <<rows, watches, pending, unscanned, cursor, naming, typed>>
scanner == <<scan, latest>>

\* "process": a Codex session known only as a live process, under an id made of
\* its pid.  "inactive": its process is gone; only its transcript is left.
Lives == {"unborn", "boots", "process", "up", "inactive", "gone"}
InTmux == {"process", "up"}
RowsType == [Spawns -> [is : {"absent"} \cup InTmux \cup {"inactive"}, title : Titles]]

\* A card is a placeholder, or a row under its temporary or its own id.
Cards == [of : Spawns, as : {"spawn", "process", "session"}]
NoCard == [of |-> None, as |-> "none"]

TypeOK ==
  /\ life \in [Spawns -> Lives] /\ file \in [Spawns -> Titles] /\ titling \subseteq Spawns
  /\ scan \in [stage : {"idle", "titles", "rows"}, titles : [Spawns -> Titles],
               rows : [Spawns -> Lives]]
  /\ latest \in RowsType /\ rows \in RowsType
  /\ watches \subseteq Spawns
  /\ pending \in [Spawns -> Names \cup {None}] /\ unscanned \in [Spawns -> Names \cup {None}]
  /\ cursor \in Cards \cup {NoCard} /\ naming \in Cards \cup {NoCard}
  /\ typed \in [Spawns -> Names \cup {None}]

NoNames == [x \in Spawns |-> None]
NoRows == [x \in Spawns |-> [is |-> "absent", title |-> None]]
NoScan == [stage |-> "idle", titles |-> NoNames, rows |-> [x \in Spawns |-> "unborn"]]

Init ==
  /\ life = [x \in Spawns |-> "unborn"] /\ file = NoNames /\ titling = {}
  /\ scan = NoScan /\ latest = NoRows
  /\ rows = NoRows /\ watches = {} /\ pending = NoNames /\ unscanned = NoNames
  /\ cursor = NoCard /\ naming = NoCard /\ typed = NoNames

-----------------------------------------------------------------------------
(* The cards on the screen, and the cursor.                                *)

Hosted(r) == {x \in Spawns : r[x].is \in InTmux}

CardOf(x, r) == [of |-> x, as |-> IF r[x].is = "process" THEN "process" ELSE "session"]

\* build_groups: inactive sessions are hidden.
CardsOf(w, r) ==
  {[of |-> x, as |-> "spawn"] : x \in w \ Hosted(r)} \cup {CardOf(x, r) : x \in Hosted(r)}

\* What a card shows for a name.
Shown(card) == IF card.as = "spawn" THEN pending[card.of] ELSE rows[card.of].title

\* For comparison: follows the id only.
ReanchoredById(old, new) ==
  IF old \in new THEN {old} ELSE IF new = {} THEN {NoCard} ELSE new

\* adopt_groups: the cursor stays on the card of the same id, else on the card
\* in the same tmux session, else on whatever is now in its slot.
Reanchored(old, new) ==
  LET same == {card \in new : card.of = old.of}
  IN IF old \in new THEN {old}
     ELSE IF same # {} THEN same
     ELSE IF new = {} THEN {NoCard} ELSE new

Rebuild(w, r) == cursor' \in Reanchored(cursor, CardsOf(w, r))

-----------------------------------------------------------------------------
(* Sessions, titlers and the scanner.                                      *)

Becomes(x, from, to) == life[x] \in from /\ life' = [life EXCEPT ![x] = to]

\* A Codex session is a process before it has a conversation; others are not.
Live(x) ==
  /\ \/ Becomes(x, {"boots"}, "process") \/ Becomes(x, {"boots", "process"}, "up")
     \/ Becomes(x, {"boots", "process"}, "gone") \/ Becomes(x, {"up"}, "inactive")
  /\ UNCHANGED <<file, titling, scanner, hub>>

\* persist_title by a titler that has its answer, or that failed.
TitlerEnds(x) ==
  /\ x \in titling /\ titling' = titling \ {x}
  /\ \/ UNCHANGED <<file, typed>>
     \/ file' = [file EXCEPT ![x] = AutoTitle] /\ typed' = [typed EXCEPT ![x] = None]
  /\ UNCHANGED <<life, scanner, rows, watches, pending, unscanned, cursor, naming>>

ScanTitles ==
  /\ scan.stage = "idle"
  /\ scan' = [scan EXCEPT !.stage = "titles", !.titles = file]
  /\ UNCHANGED <<life, file, titling, latest, hub>>

ScanRows ==
  /\ scan.stage = "titles"
  /\ scan' = [scan EXCEPT !.stage = "rows", !.rows = life]
  /\ UNCHANGED <<life, file, titling, latest, hub>>

\* The rows of a scan; only what has a conversation has a name in the file.
Scanned ==
  [x \in Spawns |->
     CASE scan.rows[x] = "process" -> [is |-> "process", title |-> None]
       [] scan.rows[x] \in {"up", "inactive"} -> [is |-> scan.rows[x], title |-> scan.titles[x]]
       [] OTHER -> [is |-> "absent", title |-> None]]

\* For comparison: forgets that what never had a conversation has no row.
RefreshedRows ==
  [x \in Spawns |-> IF latest[x].is \in InTmux THEN [latest[x] EXCEPT !.is = life[x]] ELSE latest[x]]

\* refresh_process_liveness: what died since is inactive, and in no tmux.
Refreshed ==
  [x \in Spawns |-> IF latest[x].is \in InTmux /\ life[x] \notin InTmux
                    THEN [latest[x] EXCEPT !.is = IF @ = "up" THEN "inactive" ELSE "absent"]
                    ELSE latest[x]]

-----------------------------------------------------------------------------
(* The hub.                                                                *)

Nameless(r) == {x \in Spawns : r[x].is = "up" /\ r[x].title = None}

\* For comparison: what a scan that started before a rename says.
StampedNot(r) == r

\* unscanned_titles.stamp: a name the rows carry has been read back.
Kept(r, x) ==
  IF r[x].is \in {"up", "inactive"} /\ r[x].title # unscanned[x] THEN unscanned[x] ELSE None
Stamped(r) ==
  [x \in Spawns |-> IF Kept(r, x) # None THEN [r[x] EXCEPT !.title = Kept(r, x)] ELSE r[x]]

\* For comparison: gives the name to the temporary id as well.
AdoptingEarly(r) == {x \in Hosted(r) : pending[x] # None}
\* adopt_pending_spawn_names: a temporary card shows the name; the session's
\* own id gets it for good.
Adopting(r) == {x \in Hosted(r) : pending[x] # None /\ r[x].is # "process"}
Adopted(r) ==
  [x \in Spawns |-> IF x \in Hosted(r) /\ pending[x] # None
                    THEN [r[x] EXCEPT !.title = pending[x]] ELSE r[x]]

\* Only a conversation of its own keeps a name in the file.
Persisted(r, xs) ==
  [x \in Spawns |-> IF x \in xs /\ r[x].is # "process" THEN pending[x] ELSE file[x]]

\* forget_failed_spawn, for the watches in lost.
Forgotten(names, lost) == [x \in Spawns |-> IF x \in lost THEN None ELSE names[x]]
CloseRename(lost) ==
  naming' = IF naming.as = "spawn" /\ naming.of \in lost THEN NoCard ELSE naming

\* queue_missing and update_sessions: titlers are started for what the rows
\* leave nameless, the watches of what they host end, others may be overdue.
UpdateSessions(r) ==
  \E lost \in SUBSET (watches \ Hosted(r)), new \in SUBSET Nameless(r) :
    LET kept == watches \ (Hosted(r) \cup lost)
        got  == Adopting(r)
        seen == Adopted(Stamped(r))
    IN /\ titling' = titling \cup new
       /\ watches' = kept
       /\ file' = Persisted(r, got)
       /\ unscanned' = [x \in Spawns |-> IF x \in got THEN pending[x] ELSE Kept(r, x)]
       /\ pending' = Forgotten(pending, lost \cup got)
       /\ typed' = Forgotten(typed, lost)
       /\ CloseRename(lost)
       /\ rows' = seen /\ Rebuild(kept, seen)

\* The loop looks at what a scan sent before it takes another key.
FullScan ==
  /\ scan.stage = "rows" /\ scan' = NoScan
  /\ latest' = Scanned /\ UpdateSessions(Scanned)
  /\ UNCHANGED life

LivenessPass ==
  /\ scan.stage = "idle" /\ Refreshed # latest
  /\ latest' = Refreshed /\ UpdateSessions(Refreshed)
  /\ UNCHANGED <<life, scan>>

\* A spawned tmux session is gone before any scan saw it.
PollSpawnWatches ==
  LET dead == {x \in watches : life[x] \in {"gone", "inactive"}} IN
    /\ dead # {} /\ watches' = watches \ dead
    /\ pending' = Forgotten(pending, dead) /\ typed' = Forgotten(typed, dead)
    /\ CloseRename(dead) /\ Rebuild(watches \ dead, rows)
    /\ UNCHANGED <<life, file, titling, scanner, rows, unscanned>>

\* A spawn puts the cursor on its placeholder and asks for a name, unless it
\* came with one or the settings say not to ask.
WatchSpawn(x) ==
  /\ naming = NoCard
  /\ Becomes(x, {"unborn"}, "boots") /\ watches' = watches \cup {x}
  /\ cursor' = [of |-> x, as |-> "spawn"]
  /\ \/ \E n \in Names :
          /\ pending' = [pending EXCEPT ![x] = n] /\ typed' = [typed EXCEPT ![x] = n]
          /\ UNCHANGED naming
     \/ naming' \in {NoCard, [of |-> x, as |-> "spawn"]} /\ UNCHANGED <<pending, typed>>
  /\ UNCHANGED <<file, titling, scanner, rows, unscanned>>

\* A board card's session is named after the card and gets no placeholder.
AssignTaskAgent(x) ==
  /\ naming = NoCard /\ Becomes(x, {"unborn"}, "boots")
  /\ \E n \in Names :
       /\ pending' = [pending EXCEPT ![x] = n] /\ typed' = [typed EXCEPT ![x] = n]
  /\ UNCHANGED <<file, titling, scanner, rows, watches, unscanned, cursor, naming>>

MoveCursor ==
  /\ naming = NoCard /\ cursor' \in CardsOf(watches, rows) \ {cursor}
  /\ UNCHANGED <<life, file, titling, scanner, rows, watches, pending, unscanned, naming, typed>>

\* A temporary card is named by its tmux session.
EnterRename ==
  /\ naming = NoCard /\ cursor # NoCard
  /\ naming' = IF cursor.as = "process" THEN [cursor EXCEPT !.as = "spawn"] ELSE cursor
  /\ UNCHANGED <<life, file, titling, scanner, rows, watches, pending, unscanned, cursor, typed>>

CancelRename ==
  /\ naming # NoCard /\ naming' = NoCard
  /\ UNCHANGED <<life, file, titling, scanner, rows, watches, pending, unscanned, cursor, typed>>

\* The name goes to the conversation, if a scan has seen one in that tmux
\* session; else it is kept until one does.
SubmitRename(n) ==
  LET x == naming.of
      real == naming.as = "session" \/ rows[x].is = "up"
  IN /\ naming # NoCard /\ naming' = NoCard
     /\ typed' = [typed EXCEPT ![x] = n]
     /\ pending' = [pending EXCEPT ![x] = IF naming.as = "session" THEN @ ELSE IF real THEN None ELSE n]
     /\ IF real
          THEN /\ file' = [file EXCEPT ![x] = n]
               /\ unscanned' = [unscanned EXCEPT ![x] = n]
               /\ rows' = [rows EXCEPT ![x].title = n]
               /\ UNCHANGED cursor
          ELSE Rebuild(watches, rows) /\ UNCHANGED <<file, unscanned, rows>>
     /\ UNCHANGED <<life, titling, scanner, watches>>

Next ==
  \/ \E x \in Spawns : Live(x) \/ TitlerEnds(x) \/ WatchSpawn(x) \/ AssignTaskAgent(x)
  \/ ScanTitles \/ ScanRows \/ FullScan \/ LivenessPass \/ PollSpawnWatches
  \/ MoveCursor \/ EnterRename \/ CancelRename \/ \E n \in Names : SubmitRename(n)

Spec == Init /\ [][Next]_vars

-----------------------------------------------------------------------------
\* A card in a tmux session shows the last name the user gave it, whatever the
\* scans under way have read, unless a titler has written over it since; a
\* temporary card may wait for the next scan.
CardShowsTyped ==
  \A card \in CardsOf(watches, rows) :
    typed[card.of] # None =>
      \/ Shown(card) = typed[card.of]
      \/ card.as = "process" /\ pending[card.of] = typed[card.of]

\* The last name the user gave a session is in the file, or kept until a scan
\* finds the session in the tmux session it was spawned in; it is never lost on
\* the way from the prompt to the temporary id to the session's own.
NameNotLost ==
  \A x \in Spawns : typed[x] # None => typed[x] \in {file[x], pending[x]}

\* Nothing but the user's keys takes the cursor off a spawn or session that has
\* a card before and after.
CursorStays ==
  [][cursor' # cursor /\ cursor'.of # cursor.of =>
       \/ naming = NoCard /\ (\E x \in Spawns : life[x] = "unborn" /\ life'[x] = "boots")
       \/ UNCHANGED <<rows, watches>>
       \/ \A card \in CardsOf(watches', rows') : card.of # cursor.of]_vars
=============================================================================

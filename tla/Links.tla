------------------------------- MODULE Links -------------------------------
(***************************************************************************)
(* What `hal open` does with a hal:// link to a card, or to a chore it     *)
(* files as a card, while other commands, the hub and the sessions go on.  *)
(* A command looks at the card, starts a session, binds it, moves the card *)
(* on, waits for the session to be idle, sends its prompt and closes the   *)
(* session it replaces; it may die between any two of these.  The hub      *)
(* starts sessions for cards too and keeps the prompts for them in one     *)
(* queue.  No account is configured: with one, the resource broker starts  *)
(* the session, and Broker is its model.                                   *)
(***************************************************************************)
EXTENDS Naturals, Sequences

CONSTANTS
  Cards,
  Dirs,       \* where a session may run
  Roles,      \* what a hand-over may be to
  None,
  MaxOpen,    \* bound: `hal open` commands that run at the same time
  MaxPlaces   \* bound: tmux sessions ever created

ASSUME LinksAssumption == MaxOpen \in Nat /\ MaxPlaces \in Nat /\ None \notin 1..MaxPlaces

Openers == 1..MaxOpen
Places == 1..MaxPlaces

VARIABLES
  card,     \* the board
  chores,   \* the cards a chore link filed
  sess,     \* the tmux sessions
  opener,   \* the commands
  queue,    \* the hub: sessions whose prompt waits
  age,      \* what has become of the prompt for each session
  seen      \* those of them the hub's last scan shows idle

vars == <<card, chores, sess, opener, queue, age, seen>>
hub == <<queue, age, seen>>
board == <<card, chores>>

Columns == {"none", "todo", "planning", "running"}
States == {"new", "up", "ended"}
Steps == {"idle", "spawn", "bind", "start", "send", "close"}

\* No prompt; it waits, for longer than a prompt should; it was given up.
Ages == {"none", "young", "overdue", "lost"}

CardStates == [col : Columns, tmux : Places \cup {None}, dir : Dirs \cup {None}]
Commands ==
  [at : Steps, card : Cards \cup {None}, dir : Dirs \cup {None}, role : Roles \cup {None},
   chore : BOOLEAN, old : Places \cup {None}, place : Places \cup {None}]

NoCommand == [at |-> "idle", card |-> None, dir |-> None, role |-> None, chore |-> FALSE,
              old |-> None, place |-> None]

\* Types; and the prompts wait in the order they were queued, each once.
TypeOK ==
  /\ card \in [Cards -> CardStates] /\ chores \subseteq Cards
  /\ sess \in [Places -> States]
  /\ opener \in [Openers -> Commands]
  /\ queue \in Seq(Places) /\ age \in [Places -> Ages]
  /\ \A i, j \in DOMAIN queue : i < j =>
       queue[i] # queue[j] /\ (age[queue[j]] = "overdue" => age[queue[i]] = "overdue")
  /\ seen \subseteq Places

Init ==
  /\ card = [c \in Cards |-> [col |-> "none", tmux |-> None, dir |-> None]]
  /\ chores = {}
  /\ sess = [p \in Places |-> "new"]
  /\ opener = [o \in Openers |-> NoCommand]
  /\ queue = <<>> /\ age = [p \in Places |-> "none"] /\ seen = {}

-----------------------------------------------------------------------------
(* Sessions.                                                               *)

Alive(p) == p # None /\ sess[p] = "up"

Fresh(p) == sess[p] = "new" /\ \A q \in 1..(p - 1) : sess[q] # "new"
Spawned(p) == [sess EXCEPT ![p] = "up"]

\* The agent exits.  (Whether one that is up works or is idle is left to the
\* scan that looks.)
Exits(p) ==
  /\ Alive(p) /\ sess' = [sess EXCEPT ![p] = "ended"]
  /\ UNCHANGED <<board, opener, hub>>

-----------------------------------------------------------------------------
(* hal open.                                                               *)

\* live_session_in: the card's session, if it runs in this place.
LiveIn(c, d) == IF card[c].dir = d /\ Alive(card[c].tmux) THEN card[c].tmux ELSE None

\* For comparison: a chore's card is moved before its session is bound.
StartedFirst(k) ==
  CASE k.at = "spawn" -> IF k.chore THEN "start" ELSE "bind"
    [] k.at = "start" -> "bind"
    [] k.at = "bind" -> "send"
    [] k.at = "send" /\ k.old # None -> "close"
    [] OTHER -> "idle"

\* The order of the steps of one command.
NextStep(k) ==
  CASE k.at = "spawn" -> "bind"
    [] k.at = "bind" -> IF k.chore THEN "start" ELSE "send"
    [] k.at = "start" -> "send"
    [] k.at = "send" /\ k.old # None -> "close"
    [] OTHER -> "idle"

\* Commands have no identity: the first slot that is free is taken.
Free(o) == opener[o].at = "idle" /\ \A q \in 1..(o - 1) : opener[q].at # "idle"
Ends(o) == opener' = [opener EXCEPT ![o] = NoCommand]
GoesOn(o, k) ==
  IF NextStep(k) = "idle" THEN Ends(o) ELSE opener' = [opener EXCEPT ![o] = [k EXCEPT !.at = NextStep(k)]]

\* A link to a card.  One that names a role is a hand-over: what it replaces is
\* the session the card has in that place.  (That it needs a note is left out.)
OpenTask(o, c, d, r) ==
  /\ Free(o) /\ card[c].col # "none"
  /\ opener' = [opener EXCEPT ![o] =
       [NoCommand EXCEPT !.at = "spawn", !.card = c, !.dir = d, !.role = r,
                         !.old = IF r = None THEN None ELSE LiveIn(c, d)]]
  /\ UNCHANGED <<board, sess, hub>>

\* A fix or a merge files a card of its own.
FileChore(o, c, d) ==
  /\ Free(o) /\ card[c].col = "none"
  /\ card' = [card EXCEPT ![c].col = "todo"] /\ chores' = chores \cup {c}
  /\ opener' = [opener EXCEPT ![o] =
       [NoCommand EXCEPT !.at = "spawn", !.card = c, !.dir = d, !.chore = TRUE]]
  /\ UNCHANGED <<sess, hub>>

\* A link without a role goes to the session the card has in that place.
Reuse(o) ==
  LET k == opener[o]
  IN /\ k.at = "spawn" /\ ~k.chore /\ k.role = None /\ LiveIn(k.card, k.dir) # None
     /\ opener' = [opener EXCEPT ![o] = [k EXCEPT !.at = "send", !.dir = None]]
     /\ UNCHANGED <<board, sess, hub>>

Spawn(o, p) ==
  LET k == opener[o] IN
    /\ k.at = "spawn" /\ Fresh(p)
    /\ ~k.chore /\ k.role = None => LiveIn(k.card, k.dir) = None
    /\ sess' = Spawned(p) /\ GoesOn(o, [k EXCEPT !.place = p, !.role = None])
    /\ UNCHANGED <<board, hub>>

Bound(c, p, d) == [card EXCEPT ![c] = [@ EXCEPT !.tmux = p, !.dir = d]]

Bind(o) ==
  LET k == opener[o] IN
    /\ k.at = "bind" /\ GoesOn(o, [k EXCEPT !.place = None, !.dir = None])
    /\ card' = Bound(k.card, k.place, k.dir)
    /\ UNCHANGED <<chores, sess, hub>>

StartCard(o) ==
  LET k == opener[o] IN
    /\ k.at = "start" /\ GoesOn(o, k)
    /\ card' = [card EXCEPT ![k.card].col = "running"]
    /\ UNCHANGED <<chores, sess, hub>>

\* The prompt is sent once the session is idle, or given up at the deadline; the
\* command goes on either way.
Send(o) ==
  /\ opener[o].at = "send" /\ GoesOn(o, opener[o])
  /\ UNCHANGED <<board, sess, hub>>

\* For comparison: closes what the card names when the command has reported.
SupersededReread(k) == card[k.card].tmux
\* The session to close is the one seen when the command began.
Superseded(k) == k.old

CloseSuperseded(o) ==
  LET k == opener[o] IN
    /\ k.at = "close" /\ Ends(o)
    /\ sess' = IF Alive(Superseded(k)) THEN [sess EXCEPT ![Superseded(k)] = "ended"] ELSE sess
    /\ UNCHANGED <<board, hub>>

\* The command is killed, or a step of it fails.
Dies(o) ==
  /\ opener[o].at # "idle" /\ Ends(o)
  /\ UNCHANGED <<board, sess, hub>>

-----------------------------------------------------------------------------
(* The hub and its queue of prompts.                                       *)

\* Somebody files a card, or moves it on by hand; a chore is left to its command.
Card(c) ==
  /\ \/ card[c].col = "none" /\ card' = [card EXCEPT ![c].col = "todo"]
     \/ card[c].col = "todo" /\ c \notin chores /\ card' = [card EXCEPT ![c].col = "running"]
  /\ UNCHANGED <<chores, sess, opener, hub>>

\* For comparison: the newest prompt goes first.
QueuedFirst(p) == queue' = <<p>> \o queue /\ age' = [age EXCEPT ![p] = "young"]
Queued(p) == queue' = Append(queue, p) /\ age' = [age EXCEPT ![p] = "young"]
Waits(p) == \E i \in DOMAIN queue : queue[i] = p

\* An agent is assigned; its planning prompt waits until it is up.
Assign(c, d, p) ==
  /\ card[c].col = "todo" /\ Fresh(p) /\ sess' = Spawned(p) /\ Queued(p)
  /\ card' = [Bound(c, p, d) EXCEPT ![c].col = "planning"]
  /\ UNCHANGED <<chores, opener, seen>>

\* Space approves a plan: a live session is told at once, a dead one resumed.
Proceed(c) ==
  /\ card[c].col = "planning" /\ Alive(card[c].tmux)
  /\ card' = [card EXCEPT ![c].col = "running"]
  /\ UNCHANGED <<chores, sess, opener, hub>>

Resume(c, p) ==
  /\ card[c].col = "planning" /\ ~Alive(card[c].tmux) /\ Fresh(p)
  /\ sess' = Spawned(p) /\ Queued(p)
  /\ card' = [Bound(c, p, card[c].dir) EXCEPT ![c].col = "running"]
  /\ UNCHANGED <<chores, opener, seen>>

\* A scan shows which of the sessions that are up are idle.
Scan ==
  /\ seen' \in SUBSET {p \in Places : Waits(p) /\ Alive(p)} /\ seen' # seen
  /\ UNCHANGED <<board, sess, opener, queue, age>>

\* Nothing queued earlier has waited less.
Elapse ==
  /\ \E i \in DOMAIN queue :
       /\ age[queue[i]] = "young" /\ \A j \in 1..(i - 1) : age[queue[j]] = "overdue"
       /\ age' = [age EXCEPT ![queue[i]] = "overdue"]
  /\ UNCHANGED <<board, sess, opener, queue, seen>>

\* The head goes out, off the loop, if its session is seen idle and either its
\* pane shows an empty input row, which a probe may miss, or it has waited long
\* enough (sooner than it is overdue, which is all this model tells apart).
Dispatch(p) ==
  /\ queue # <<>> /\ p = Head(queue) /\ p \in seen
  /\ queue' = Tail(queue) /\ age' = [age EXCEPT ![p] = "none"] /\ seen' = seen \ {p}
  /\ UNCHANGED <<board, sess, opener>>

DispatchAged(p) == age[p] = "overdue" /\ Dispatch(p)

\* For comparison: looks at the clock before it looks at the session.
OverdueFirst(p) == age[p] = "overdue"
\* Overdue, and the last scan does not show its session idle.
Expired(p) == age[p] = "overdue" /\ p \notin seen

GiveUp(p) ==
  /\ queue # <<>> /\ p = Head(queue) /\ Expired(p)
  /\ queue' = Tail(queue) /\ age' = [age EXCEPT ![p] = "lost"]
  /\ UNCHANGED <<board, sess, opener, seen>>

HubRestarts ==
  /\ queue' = <<>> /\ seen' = {} /\ age' = [p \in Places |-> "none"]
  /\ UNCHANGED <<board, sess, opener>>

Hub ==
  \/ Scan \/ Elapse \/ HubRestarts
  \/ \E c \in Cards : Card(c) \/ Proceed(c)
  \/ \E c \in Cards, p \in Places : Resume(c, p) \/ \E d \in Dirs : Assign(c, d, p)
  \/ \E p \in Places : Dispatch(p) \/ GiveUp(p)

Open(o) ==
  \/ \E c \in Cards, d \in Dirs : FileChore(o, c, d) \/ \E r \in Roles \cup {None} : OpenTask(o, c, d, r)
  \/ Reuse(o) \/ Bind(o) \/ StartCard(o) \/ Send(o) \/ CloseSuperseded(o) \/ Dies(o)
  \/ \E p \in Places : Spawn(o, p)

Next ==
  \/ Hub \/ (\E o \in Openers : Open(o))
  \/ (\E p \in Places : Exits(p))

Spec == Init /\ [][Next]_vars

\* The hub's loop goes round and its clock runs.
FairSpec ==
  Spec /\ WF_vars(Elapse) /\ \A p \in Places : WF_vars(DispatchAged(p) \/ GiveUp(p))

-----------------------------------------------------------------------------
\* The task router hands out the cards that are Running with no session: the
\* card of a chore is never one of them, wherever its command dies.
ChoreBound == \A c \in chores : card[c].col = "running" => card[c].tmux # None

\* A hand-over closes a session only when no card is bound to it any more.
ClosesReplaced ==
  [][\A o \in Openers, p \in Places :
       opener[o].at = "close" /\ opener'[o].at # "close" /\ Alive(p) /\ ~Alive(p)' =>
         \A c \in Cards : card'[c].tmux # p]_vars

\* A prompt whose session the scans show idle is sent, however long it has
\* waited behind prompts for sessions that never come up: it is not timed out,
\* nor starved, while its session is seen idle.
IdleIsServed ==
  \A p \in Places : (Waits(p) /\ p \in seen) ~> (p \notin seen \/ age[p] = "none")
=============================================================================

------------------------------ MODULE Bindings ------------------------------
(***************************************************************************)
(* Which session a card of the task board is bound to: the id of its       *)
(* conversation and the tmux session that hosts it.  Three writers share   *)
(* the two fields: the keys of one hub, which act on the copy of the board *)
(* it loaded last; the scans of that hub, which compute from that copy and *)
(* write to disk; and the resource broker, whose commands bind a card to   *)
(* the worker that has it.  Meanwhile sessions boot, get new ids, end, and *)
(* are resumed elsewhere by hand.                                          *)
(***************************************************************************)
EXTENDS Naturals

CONSTANTS
  Cards,
  Managed,    \* the cards the broker works on
  MaxPlaces,  \* bound: tmux sessions ever created
  MaxIds      \* bound: conversations ever begun

\* tmux sessions and conversations are named in the order they come to be.
None == 0

ASSUME BindingsAssumption ==
  /\ Managed \subseteq Cards /\ None \notin Cards
  /\ MaxPlaces \in Nat /\ MaxIds \in Nat

Places == 1..MaxPlaces
Ids == 1..MaxIds

VARIABLES
  disk,      \* [tmux, sid] of every card, on disk
  shown,     \* the copy the hub loaded last
  place,     \* the tmux sessions
  minted,    \* ids given out so far
  lease,     \* where the worker of a card was launched last
  binds,     \* bindings the broker's processes have yet to write
  snapshot,  \* the scan the hub has not looked at, if any: which id runs where
  todo       \* what the hub learned of each card, if anything, and has yet to write

vars == <<disk, shown, place, minted, lease, binds, snapshot, todo>>

Binding == [tmux : Places \cup {None}, sid : Ids \cup {None}]
Scans == [Places -> Ids \cup {None}]

\* A tmux session: the card it was started for, what it will run, what it
\* runs, whether it exists, every id it has hosted, and what its hook reported.
PlaceStates ==
  [card : Cards \cup {None}, next : Ids \cup {None}, id : Ids \cup {None},
   live : BOOLEAN, hosts : SUBSET Ids, told : Ids \cup {None}]

TypeOK ==
  /\ disk \in [Cards -> Binding] /\ shown \in [Cards -> Binding]
  /\ place \in [Places -> PlaceStates]
  /\ minted \in 0..MaxIds
  /\ lease \in [Cards -> Places \cup {None}]
  /\ binds \subseteq [card : Cards, to : Binding]
  /\ snapshot \subseteq Scans
  /\ todo \in [Cards -> SUBSET ([tmux : Places, sid : {None}] \cup [tmux : {None}, sid : Ids])]

Init ==
  /\ disk = [c \in Cards |-> [tmux |-> None, sid |-> None]] /\ shown = disk
  /\ place = [p \in Places |-> [card |-> None, next |-> None, id |-> None, live |-> FALSE,
                                hosts |-> {}, told |-> None]]
  /\ minted = 0
  /\ lease = [c \in Cards |-> None] /\ binds = {}
  /\ snapshot = {} /\ todo = [c \in Cards |-> {}]

-----------------------------------------------------------------------------
(* Sessions.                                                               *)

NewPlace(p) == place[p].card = None /\ \A q \in 1..(p - 1) : place[q].card # None

\* A session for card c that will run conversation i, or one of its own.
Spawned(c, p, i) ==
  [place EXCEPT ![p] = [@ EXCEPT !.card = c, !.next = i, !.live = TRUE, !.hosts = {i} \ {None}]]

\* The agent in p is up and names the conversation it runs.
Runs(p, i) == place' = [place EXCEPT ![p].id = i, ![p].hosts = @ \cup {i}]

Fresh(i) == minted < MaxIds /\ i = minted + 1 /\ minted' = i

Boot(p) ==
  /\ place[p].live /\ place[p].id = None
  /\ IF place[p].next # None
       THEN Runs(p, place[p].next) /\ UNCHANGED minted
       ELSE \E i \in Ids : Fresh(i) /\ Runs(p, i)
  /\ UNCHANGED <<disk, shown, lease, binds, snapshot, todo>>

\* The conversation in p goes on under a new id.
Clear(p) ==
  /\ place[p].live /\ place[p].id # None
  /\ \E i \in Ids : Fresh(i) /\ Runs(p, i)
  /\ UNCHANGED <<disk, shown, lease, binds, snapshot, todo>>

Gone(p) == [place EXCEPT ![p].live = FALSE, ![p].id = None]

Exit(p) ==
  /\ place[p].live /\ place' = Gone(p)
  /\ UNCHANGED <<disk, shown, minted, lease, binds, snapshot, todo>>

Running(i) == i # None /\ \E p \in Places : place[p].live /\ place[p].id = i

\* Somebody resumes, in a tmux of their own, a conversation that ended.
ByHand(p, i) ==
  /\ NewPlace(p) /\ ~Running(i)
  /\ \E q \in Places : i \in place[q].hosts /\ place' = Spawned(place[q].card, p, i)
  /\ UNCHANGED <<disk, shown, minted, lease, binds, snapshot, todo>>

-----------------------------------------------------------------------------
(* The hub: one thread, so no key comes between a scan's writes.           *)

Idle == \A c \in Cards : todo[c] = {}

SessionExists(p) == p # None /\ place[p].live

\* A locked write: to what is on disk now, and the copy shows what landed.
Update(c, b) == disk' = [disk EXCEPT ![c] = b] /\ shown' = [shown EXCEPT ![c] = b]

\* For comparison: an assignment that keeps the conversation of the last one.
AssignedKeeps(c, p) == [tmux |-> p, sid |-> disk[c].sid]
Assigned(c, p) == [tmux |-> p, sid |-> None]

AssignTaskAgent(c, p) ==
  /\ Idle /\ NewPlace(p)
  /\ place' = Spawned(c, p, None) /\ Update(c, Assigned(c, p))
  /\ UNCHANGED <<minted, lease, binds, snapshot, todo>>

Rebound(c, p) == [disk[c] EXCEPT !.tmux = p]

\* f, Space: the session the copy names is gone and its conversation known.
ResumeBoardTask(c, p) ==
  /\ Idle /\ NewPlace(p)
  /\ ~SessionExists(shown[c].tmux) /\ shown[c].sid # None
  /\ place' = Spawned(c, p, shown[c].sid) /\ Update(c, Rebound(c, p))
  /\ UNCHANGED <<minted, lease, binds, snapshot, todo>>

\* Done kills the tmux session the copy names.
FinishTask(c) ==
  /\ Idle /\ SessionExists(shown[c].tmux) /\ place' = Gone(shown[c].tmux)
  /\ UNCHANGED <<disk, shown, minted, lease, binds, snapshot, todo>>

\* Only entering the tab loads the board again.
SetTab ==
  /\ Idle /\ shown' = disk
  /\ UNCHANGED <<disk, place, minted, lease, binds, snapshot, todo>>

\* A scan reports the conversations that run and where.
Scan ==
  /\ snapshot = {}
  /\ snapshot' = {[p \in Places |-> place[p].id]}
  /\ UNCHANGED <<disk, shown, place, minted, lease, binds, todo>>

Where(i, s) == {p \in Places : i # None /\ s[p] = i}

\* For comparison: forgets that a session may have no id yet, that a session of
\* the list has to run in the card's tmux, and that an id may change.
LearnedBooting(b, s) == {[tmux |-> None, sid |-> i] : i \in {s[p] : p \in {b.tmux} \ {None}} \ {b.sid}}
LearnedAnywhere(b, s) == {[tmux |-> None, sid |-> i] : i \in {s[1]} \ {None, b.sid}}
LearnedOnce(b, s) ==
  {[tmux |-> None, sid |-> i] : i \in {s[p] : p \in {b.tmux} \ {None}} \ (IF b.sid = None THEN {None} ELSE Ids)}

\* What scan s teaches a card: where its conversation runs now; failing that,
\* which conversation runs in its tmux.
Learned(b, s) ==
  IF Where(b.sid, s) # {}
    THEN LET p == CHOOSE q \in Where(b.sid, s) : TRUE
         IN IF p = b.tmux THEN {} ELSE {[tmux |-> p, sid |-> None]}
    ELSE {[tmux |-> None, sid |-> i] : i \in {s[p] : p \in {b.tmux} \ {None}} \ {None, b.sid}}

ApplySessions ==
  /\ Idle /\ snapshot # {} /\ snapshot' = {}
  /\ \E s \in snapshot : todo' = [c \in Cards |-> Learned(shown[c], s)]
  /\ UNCHANGED <<disk, shown, place, minted, lease, binds>>

\* Only the field that was learned is written.
Applied(t, b) ==
  IF t.tmux # None THEN [b EXCEPT !.tmux = t.tmux] ELSE [b EXCEPT !.sid = t.sid]

BindSession(c) ==
  /\ todo' = [todo EXCEPT ![c] = {}]
  /\ \E t \in todo[c] : Update(c, Applied(t, disk[c]))
  /\ UNCHANGED <<place, minted, lease, binds, snapshot>>

-----------------------------------------------------------------------------
(* The broker, whose processes bind a card some time after they let go of  *)
(* its lock.                                                               *)

ToBind(c, p, i) == binds' = binds \cup {[card |-> c, to |-> [tmux |-> p, sid |-> i]]}

\* A worker is launched: Claude under an id it is given, Codex under its own.
\* The worker before it may run a little longer.
Launch(c, p) ==
  /\ c \in Managed /\ NewPlace(p)
  /\ \/ \E i \in Ids : Fresh(i) /\ place' = Spawned(c, p, i) /\ ToBind(c, p, i)
     \/ place' = Spawned(c, p, None) /\ ToBind(c, p, None) /\ UNCHANGED minted
  /\ lease' = [lease EXCEPT ![c] = p]
  /\ UNCHANGED <<disk, shown, snapshot, todo>>

\* A tool call of the worker that has the lease, the first under this id.
Hook(c) ==
  LET p == lease[c] IN
    /\ SessionExists(p) /\ place[p].id \notin {None, place[p].told}
    /\ place' = [place EXCEPT ![p].told = place[p].id]
    /\ ToBind(c, p, IF place[p].next # None THEN place[p].next ELSE place[p].id)
    /\ UNCHANGED <<disk, shown, minted, lease, snapshot, todo>>

BindResource(b) ==
  /\ binds' = binds \ {b} /\ disk' = [disk EXCEPT ![b.card] = b.to]
  /\ UNCHANGED <<shown, place, minted, lease, snapshot, todo>>

Hub ==
  \/ \E c \in Cards : FinishTask(c) \/ BindSession(c)
  \/ \E c \in Cards, p \in Places : AssignTaskAgent(c, p) \/ ResumeBoardTask(c, p)
  \/ SetTab \/ Scan \/ ApplySessions

Broker ==
  \/ \E c \in Cards, p \in Places : Launch(c, p)
  \/ \E c \in Cards : Hook(c)
  \/ \E b \in binds : BindResource(b)

Next ==
  \/ Hub \/ Broker
  \/ \E p \in Places : Boot(p) \/ Clear(p) \/ Exit(p) \/ \E i \in Ids : ByHand(p, i)

Spec == Init /\ [][Next]_vars

\* The scanner goes round and the hub's loop looks at what it sent.
FairSpec ==
  /\ Spec /\ WF_vars(Scan) /\ WF_vars(ApplySessions)
  /\ \A c \in Cards : WF_vars(BindSession(c))

-----------------------------------------------------------------------------
\* A card is never bound to a session started for another card, on disk or in
\* the copy: Done kills the session of the tmux it finds there.
OwnSession ==
  \A c \in Cards : \A b \in {disk[c], shown[c]} :
    /\ b.tmux # None => place[b.tmux].card = c
    /\ b.sid # None => \E p \in Places : place[p].card = c /\ b.sid \in place[p].hosts

Coherent(c) ==
  disk[c].tmux # None /\ disk[c].sid # None => disk[c].sid \in place[disk[c].tmux].hosts

\* The two fields of a card name one session: the conversation is one the tmux
\* session hosts, hosted or is about to resume.  For the cards the broker
\* leaves alone.
OneSession == \A c \in Cards \ Managed : Coherent(c)

\* The same of the cards the broker works on.
OneSessionManaged == \A c \in Managed : Coherent(c)

\* If the card's conversation runs, the card names its tmux; if something else
\* runs in its tmux, the card names that.
InStep(c) ==
  IF Running(disk[c].sid) THEN SessionExists(disk[c].tmux) /\ place[disk[c].tmux].id = disk[c].sid
  ELSE SessionExists(disk[c].tmux) => place[disk[c].tmux].id \in {None, disk[c].sid}

\* When sessions stop coming and going, the scans bring every card the broker
\* leaves alone in step with them, for good.
KeptInStep == \A c \in Cards \ Managed : <>[]InStep(c)
=============================================================================

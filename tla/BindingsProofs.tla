--------------------------- MODULE BindingsProofs ---------------------------
(***************************************************************************)
(* What holds of Bindings for every number of cards, tmux sessions and     *)
(* conversations: its types, that a card only ever names sessions that     *)
(* were started for it, and that the two fields of a card the broker       *)
(* leaves alone name one session.                                          *)
(***************************************************************************)
EXTENDS Bindings, TLAPS

Lessons == [tmux : Places, sid : {None}] \cup [tmux : {None}, sid : Ids]

\* The sessions by themselves: one that was never used is empty, ids are given
\* out in order, what a session runs or will run is an id it hosts, and only
\* sessions for the same card host the same id.
Unused == \A p \in Places : place[p].card = None => place[p].hosts = {} /\ ~place[p].live
IdsInOrder == \A p \in Places : \A i \in place[p].hosts : i <= minted
HostsItsOwn == \A p \in Places : {place[p].id, place[p].next} \subseteq place[p].hosts \cup {None}
OneCard ==
  \A p, q \in Places : place[p].hosts \cap place[q].hosts # {} => place[p].card = place[q].card

Sessions == Unused /\ IdsInOrder /\ HostsItsOwn /\ OneCard

\* Nothing a session was is forgotten by a step.
Grows ==
  \A p \in Places :
    /\ place[p].card # None => place'[p].card = place[p].card
    /\ place[p].hosts \subseteq place'[p].hosts

\* Whatever is bound, shown, learned or owed to a card is its own.
OwnsIn(pl, c, b) ==
  /\ b.tmux # None => pl[b.tmux].card = c
  /\ b.sid # None => \E p \in Places : pl[p].card = c /\ b.sid \in pl[p].hosts
Owns(c, b) == OwnsIn(place, c, b)

ScanSaw == \A s \in snapshot : \A p \in Places : s[p] # None => s[p] \in place[p].hosts
LeaseOwned == \A c \in Cards : lease[c] # None => place[lease[c]].card = c
BindsOwned == \A b \in binds : Owns(b.card, b.to)
LessonsOwned == \A c \in Cards : \A t \in todo[c] : Owns(c, t)
CardsOwned == \A c \in Cards : Owns(c, disk[c]) /\ Owns(c, shown[c])

\* Of a card the broker leaves alone the copy is what is on disk, and what was
\* learned of it fits what is there.
Fits(b) == b.tmux # None /\ b.sid # None => b.sid \in place[b.tmux].hosts
CopyCurrent == \A c \in Cards \ Managed : shown[c] = disk[c]
LessonsFit == \A c \in Cards \ Managed : \A t \in todo[c] : Fits(Applied(t, disk[c]))
NotBound == \A b \in binds : b.card \in Managed
Leases == \A c \in Cards \ Managed : lease[c] = None

OwnInv ==
  TypeOK /\ Sessions /\ ScanSaw /\ LeaseOwned /\ BindsOwned /\ LessonsOwned /\ CardsOwned
OneInv == OwnInv /\ CopyCurrent /\ LessonsFit /\ NotBound /\ Leases /\ OneSession

-----------------------------------------------------------------------------
(* Sessions.                                                               *)

\* What is known of the constants.
LEMMA Bounds ==
  /\ MaxPlaces \in Nat /\ MaxIds \in Nat /\ None \notin Cards /\ Managed \subseteq Cards
  /\ None \notin Places /\ None \notin Ids /\ \A i \in Ids : i \in Nat
BY BindingsAssumption DEF None, Places, Ids

\* A session is started, for an id that is new, is hosted for the same card
\* already, or is the session's own affair.
LEMMA SpawnKeeps ==
  ASSUME TypeOK, Sessions, NEW p \in Places, NewPlace(p), NEW c \in Cards,
         NEW i \in Ids \cup {None}, place' = Spawned(c, p, i), minted' \in 0..MaxIds,
         minted' >= minted,
         i # None => \/ i = minted + 1 /\ minted' = i
                     \/ \E q \in Places : i \in place[q].hosts /\ place[q].card = c
  PROVE  place' \in [Places -> PlaceStates] /\ Sessions' /\ Grows
<1>1. place \in [Places -> PlaceStates] /\ minted \in Nat
  BY Bounds DEF TypeOK
<1>2. place[p].card = None /\ place[p].hosts = {}
  BY DEF NewPlace, Sessions, Unused
<1>3. place' = [place EXCEPT ![p] =
                  [place[p] EXCEPT !.card = c, !.next = i, !.live = TRUE, !.hosts = {i} \ {None}]]
  BY DEF Spawned
<1>4. /\ place'[p].card = c /\ place'[p].next = i /\ place'[p].id = place[p].id
      /\ place'[p].hosts = {i} \ {None}
      /\ \A q \in Places \ {p} : place'[q] = place[q]
  BY <1>1, <1>3 DEF PlaceStates
<1>5. place' \in [Places -> PlaceStates]
  <2>1. [place[p] EXCEPT !.card = c, !.next = i, !.live = TRUE, !.hosts = {i} \ {None}]
          \in PlaceStates
    <3>1. {i} \ {None} \in SUBSET Ids /\ place[p] \in PlaceStates
      BY <1>1
    <3> QED
      BY <3>1 DEF PlaceStates
  <2> QED
    BY <1>1, <1>3, <2>1
<1>6. Grows
  BY <1>2, <1>4 DEF Grows
<1>7. Unused'
  BY <1>4, Bounds DEF Sessions, Unused
<1>8. HostsItsOwn'
  BY <1>2, <1>4 DEF Sessions, HostsItsOwn
<1>9. IdsInOrder'
  <2> SUFFICES ASSUME NEW q \in Places, NEW j \in place'[q].hosts PROVE j <= minted'
    BY DEF IdsInOrder
  <2>1. \A r \in Places : \A k \in place[r].hosts : k <= minted /\ k \in Nat
    BY <1>1, Bounds DEF Sessions, IdsInOrder, PlaceStates
  <2> QED
    BY <1>1, <1>4, <2>1, Bounds
<1>10. OneCard'
  <2>1. ASSUME NEW q \in Places, q # p, i # None, i \in place[q].hosts PROVE place[q].card = c
    <3>1. ~(i = minted + 1)
      BY <1>1, <2>1 DEF Sessions, IdsInOrder
    <3> QED
      BY <2>1, <3>1 DEF Sessions, OneCard
  <2> SUFFICES ASSUME NEW q \in Places, NEW r \in Places, NEW j,
                      j \in place'[q].hosts, j \in place'[r].hosts
               PROVE  place'[q].card = place'[r].card
    BY DEF OneCard
  <2>2. CASE q = p /\ r # p
    BY <1>4, <2>1, <2>2
  <2>3. CASE r = p /\ q # p
    BY <1>4, <2>1, <2>3
  <2>4. CASE q # p /\ r # p
    BY <1>4, <2>4 DEF Sessions, OneCard
  <2> QED
    BY <2>2, <2>3, <2>4
<1> QED
  BY <1>5, <1>6, <1>7, <1>8, <1>9, <1>10 DEF Sessions

\* An agent names its conversation, old or new.
LEMMA RunKeeps ==
  ASSUME TypeOK, Sessions, NEW p \in Places, place[p].live, NEW i \in Ids, Runs(p, i),
         \/ i \in place[p].hosts /\ UNCHANGED minted
         \/ Fresh(i)
  PROVE  place' \in [Places -> PlaceStates] /\ Sessions' /\ Grows
<1>1. place \in [Places -> PlaceStates] /\ minted \in Nat
  BY Bounds DEF TypeOK
<1>2. /\ place'[p].card = place[p].card /\ place'[p].next = place[p].next /\ place'[p].id = i
      /\ place'[p].live = place[p].live
      /\ place'[p].hosts = place[p].hosts \cup {i}
      /\ \A q \in Places \ {p} : place'[q] = place[q]
  BY <1>1 DEF Runs, PlaceStates
<1>3. place' \in [Places -> PlaceStates]
  <2> DEFINE named == [place EXCEPT ![p].id = i]
  <2>1. named \in [Places -> PlaceStates]
    BY <1>1 DEF PlaceStates
  <2>2. place' = [named EXCEPT ![p].hosts = place[p].hosts \cup {i}]
    BY <1>1 DEF Runs, PlaceStates
  <2>3. place[p].hosts \cup {i} \in SUBSET Ids
    BY <1>1 DEF PlaceStates
  <2> HIDE DEF named
  <2> QED
    BY <2>1, <2>2, <2>3 DEF PlaceStates
<1>4. Grows
  BY <1>2 DEF Grows
<1>5. Unused'
  BY <1>2 DEF Sessions, Unused
<1>6. HostsItsOwn'
  BY <1>2 DEF Sessions, HostsItsOwn
<1>7. \A q \in Places : \A k \in place[q].hosts : k <= minted /\ k \in Nat
  BY <1>1, Bounds DEF Sessions, IdsInOrder, PlaceStates
<1>8. IdsInOrder'
  BY <1>1, <1>2, <1>7, Bounds DEF IdsInOrder, Fresh
<1>9. OneCard'
  <2>1. ASSUME NEW q \in Places, q # p, i \in place[q].hosts PROVE place[q].card = place[p].card
    <3>1. ~Fresh(i)
      BY <1>1, <1>7, <2>1 DEF Fresh
    <3> QED
      BY <2>1, <3>1 DEF Sessions, OneCard
  <2> SUFFICES ASSUME NEW q \in Places, NEW r \in Places, NEW j,
                      j \in place'[q].hosts, j \in place'[r].hosts
               PROVE  place'[q].card = place'[r].card
    BY DEF OneCard
  <2>2. \A s, t \in Places : j \in place[s].hosts /\ j \in place[t].hosts => place[s].card = place[t].card
    BY DEF Sessions, OneCard
  <2> QED
    BY <1>2, <2>1, <2>2
<1> QED
  BY <1>3, <1>4, <1>5, <1>6, <1>8, <1>9 DEF Sessions

\* A session ends, or its hook reports: nothing it hosted is forgotten.
LEMMA EndKeeps ==
  ASSUME TypeOK, Sessions, NEW p \in Places, UNCHANGED minted,
         \/ place' = Gone(p)
         \/ place' = [place EXCEPT ![p].told = place[p].id]
  PROVE  place' \in [Places -> PlaceStates] /\ Sessions' /\ Grows
<1>1. place \in [Places -> PlaceStates]
  BY DEF TypeOK
<1>2. /\ place' \in [Places -> PlaceStates]
      /\ \A q \in Places : /\ place'[q].card = place[q].card /\ place'[q].next = place[q].next
                           /\ place'[q].hosts = place[q].hosts
                           /\ place'[q].id \in {place[q].id, None}
                           /\ place'[q].live => place[q].live
  <2>1. CASE place' = Gone(p)
    <3> DEFINE halfway == [place EXCEPT ![p].live = FALSE]
    <3>1. /\ halfway \in [Places -> PlaceStates]
          /\ \A q \in Places : /\ halfway[q].card = place[q].card /\ halfway[q].next = place[q].next
                               /\ halfway[q].hosts = place[q].hosts /\ halfway[q].id = place[q].id
                               /\ halfway[q].live => place[q].live
      BY <1>1 DEF PlaceStates
    <3>2. place' = [halfway EXCEPT ![p].id = None]
      BY <2>1 DEF Gone
    <3> HIDE DEF halfway
    <3> QED
      BY <3>1, <3>2 DEF PlaceStates
  <2>2. CASE place' = [place EXCEPT ![p].told = place[p].id]
    BY <1>1, <2>2 DEF PlaceStates
  <2> QED
    BY <2>1, <2>2
<1>3. Unused' /\ HostsItsOwn'
  BY <1>2 DEF Sessions, Unused, HostsItsOwn
<1>4. IdsInOrder' /\ OneCard'
  BY <1>2 DEF Sessions, IdsInOrder, OneCard
<1> QED
  BY <1>2, <1>3, <1>4 DEF Sessions, Grows

LEMMA PlacesStep ==
  ASSUME OwnInv, [Next]_vars
  PROVE  place' \in [Places -> PlaceStates] /\ minted' \in 0..MaxIds /\ Sessions' /\ Grows
<1> USE DEF OwnInv
<1> DEFINE Good == place' \in [Places -> PlaceStates] /\ minted' \in 0..MaxIds /\ Sessions' /\ Grows
<1>1. place \in [Places -> PlaceStates] /\ minted \in 0..MaxIds
  BY DEF TypeOK
<1>2. ASSUME UNCHANGED <<place, minted>> PROVE Good
  BY <1>1, <1>2 DEF Sessions, Unused, IdsInOrder, HostsItsOwn, OneCard, Grows
<1>3. \A p \in Places : place[p].card \in Cards \cup {None} /\ place[p].hosts \subseteq Ids
                         /\ place[p].id \in Ids \cup {None} /\ place[p].next \in Ids \cup {None}
  BY <1>1 DEF PlaceStates
<1>4. ASSUME NEW p \in Places, Boot(p) PROVE Good
  <2>1. CASE place[p].next # None
    <3>1. place[p].next \in place[p].hosts /\ place[p].next \in Ids
      BY <1>3, <2>1 DEF Sessions, HostsItsOwn
    <3> QED
      BY <1>1, <1>4, <2>1, <3>1, RunKeeps DEF Boot
  <2>2. CASE place[p].next = None
    BY <1>1, <1>4, <2>2, RunKeeps, Bounds DEF Boot, Fresh, Ids
  <2> QED
    BY <2>1, <2>2
<1>5. ASSUME NEW p \in Places, Clear(p) PROVE Good
  BY <1>1, <1>5, RunKeeps, Bounds DEF Clear, Fresh, Ids
<1>6. ASSUME NEW p \in Places, Exit(p) PROVE Good
  BY <1>1, <1>6, EndKeeps DEF Exit
<1>7. ASSUME NEW p \in Places, NEW i \in Ids, ByHand(p, i) PROVE Good
  <2>1. PICK q \in Places : i \in place[q].hosts /\ place' = Spawned(place[q].card, p, i)
    BY <1>7 DEF ByHand
  <2>2. place[q].card \in Cards
    BY <1>3, <2>1 DEF Sessions, Unused
  <2> QED
    BY <1>1, <1>7, <2>1, <2>2, SpawnKeeps, Bounds DEF ByHand
<1>8. ASSUME NEW c \in Cards, NEW p \in Places, AssignTaskAgent(c, p) PROVE Good
  BY <1>1, <1>8, SpawnKeeps, Bounds DEF AssignTaskAgent
<1>9. ASSUME NEW c \in Cards, NEW p \in Places, ResumeBoardTask(c, p) PROVE Good
  <2>1. shown[c].sid \in Ids
    BY <1>9 DEF ResumeBoardTask, TypeOK, Binding
  <2>2. \E q \in Places : shown[c].sid \in place[q].hosts /\ place[q].card = c
    BY <1>9 DEF ResumeBoardTask, CardsOwned, Owns, OwnsIn
  <2> QED
    BY <1>1, <1>9, <2>1, <2>2, SpawnKeeps, Bounds DEF ResumeBoardTask
<1>10. ASSUME NEW c \in Cards, FinishTask(c) PROVE Good
  <2>1. shown[c].tmux \in Places
    BY <1>10 DEF FinishTask, SessionExists, TypeOK, Binding
  <2> QED
    BY <1>1, <1>10, <2>1, EndKeeps DEF FinishTask
<1>11. ASSUME NEW c \in Cards, NEW p \in Places, Launch(c, p) PROVE Good
  <2>1. CASE \E i \in Ids : Fresh(i) /\ place' = Spawned(c, p, i)
    <3>1. PICK i \in Ids : Fresh(i) /\ place' = Spawned(c, p, i)
      BY <2>1
    <3> QED
      BY <1>1, <1>11, <3>1, SpawnKeeps, Bounds DEF Launch, Fresh, Ids
  <2>2. CASE place' = Spawned(c, p, None) /\ UNCHANGED minted
    BY <1>1, <1>11, <2>2, SpawnKeeps, Bounds DEF Launch
  <2> QED
    BY <1>11, <2>1, <2>2 DEF Launch
<1>12. ASSUME NEW c \in Cards, Hook(c) PROVE Good
  <2>1. lease[c] \in Places
    BY <1>12 DEF Hook, SessionExists, TypeOK
  <2> QED
    BY <1>1, <1>12, <2>1, EndKeeps DEF Hook
<1>13. ASSUME \/ \E c \in Cards : BindSession(c)
              \/ \E b \in binds : BindResource(b)
              \/ SetTab \/ Scan \/ ApplySessions \/ UNCHANGED vars
       PROVE  Good
  BY <1>2, <1>13 DEF BindSession, BindResource, SetTab, Scan, ApplySessions, vars
<1> QED
  BY <1>4, <1>5, <1>6, <1>7, <1>8, <1>9, <1>10, <1>11, <1>12, <1>13 DEF Next, Hub, Broker

-----------------------------------------------------------------------------
(* Cards.                                                                  *)

\* What is a card's own stays its own.
LEMMA OwnsKept ==
  ASSUME TypeOK, Sessions, Grows, place' \in [Places -> PlaceStates], NEW c \in Cards, NEW b,
         b.tmux \in Places \cup {None}, Owns(c, b)
  PROVE  OwnsIn(place', c, b)
BY Bounds DEF Owns, OwnsIn, Grows

\* What a scan teaches a card is its own: whoever hosts the conversation, or
\* runs in the tmux session, was started for this card.
LEMMA LearnedOwned ==
  ASSUME TypeOK, Sessions, ScanSaw, CardsOwned, NEW c \in Cards, NEW s \in snapshot,
         NEW t \in Learned(shown[c], s)
  PROVE  t \in Lessons /\ Owns(c, t)
<1> DEFINE b == shown[c]
<1>1. b \in Binding /\ s \in Scans /\ Owns(c, b)
  BY DEF TypeOK, CardsOwned
<1>2. CASE Where(b.sid, s) # {}
  <2> DEFINE p == CHOOSE q \in Where(b.sid, s) : TRUE
  <2>1. p \in Places /\ b.sid # None /\ s[p] = b.sid
    BY <1>2 DEF Where
  <2>2. PICK q \in Places : place[q].card = c /\ b.sid \in place[q].hosts
    BY <1>1, <2>1 DEF Owns, OwnsIn
  <2>3. b.sid \in place[p].hosts
    BY <2>1 DEF ScanSaw
  <2>4. place[p].card = c
    BY <2>1, <2>2, <2>3 DEF Sessions, OneCard
  <2>5. t = [tmux |-> p, sid |-> None]
    BY <1>2 DEF Learned
  <2> QED
    BY <2>1, <2>4, <2>5 DEF Owns, OwnsIn, Lessons
<1>3. CASE Where(b.sid, s) = {}
  <2>1. PICK i \in ({s[p] : p \in {b.tmux} \ {None}} \ {None, b.sid}) : t = [tmux |-> None, sid |-> i]
    BY <1>3 DEF Learned
  <2>2. b.tmux \in Places /\ i = s[b.tmux] /\ i # None /\ i \in Ids
    BY <1>1, <2>1 DEF Binding, Scans
  <2>3. place[b.tmux].card = c /\ i \in place[b.tmux].hosts
    BY <1>1, <2>2, Bounds DEF Owns, OwnsIn, ScanSaw
  <2> QED
    BY <2>1, <2>2, <2>3 DEF Owns, OwnsIn, Lessons
<1> QED
  BY <1>2, <1>3

\* What is written of a lesson keeps the card its own.
LEMMA AppliedOwned ==
  ASSUME NEW pl, NEW c \in Cards, NEW t \in Lessons, NEW b \in Binding,
         OwnsIn(pl, c, t), OwnsIn(pl, c, b)
  PROVE  Applied(t, b) \in Binding /\ OwnsIn(pl, c, Applied(t, b))
BY Bounds DEF Applied, Lessons, Binding, OwnsIn

LEMMA OwnInit == Init => OwnInv
<1> SUFFICES ASSUME Init PROVE OwnInv
  OBVIOUS
<1>1. TypeOK
  BY Bounds DEF Init, TypeOK, Binding, PlaceStates
<1>2. Sessions
  BY DEF Init, Sessions, Unused, IdsInOrder, HostsItsOwn, OneCard
<1>3. ScanSaw /\ LeaseOwned /\ BindsOwned /\ LessonsOwned /\ CardsOwned
  BY DEF Init, ScanSaw, LeaseOwned, BindsOwned, LessonsOwned, CardsOwned, Owns, OwnsIn
<1> QED
  BY <1>1, <1>2, <1>3 DEF OwnInv

LEMMA OwnStep == OwnInv /\ [Next]_vars => OwnInv'
<1> SUFFICES ASSUME OwnInv, [Next]_vars PROVE OwnInv'
  OBVIOUS
<1> USE DEF OwnInv
<1>1. place' \in [Places -> PlaceStates] /\ minted' \in 0..MaxIds /\ Sessions' /\ Grows
  BY PlacesStep
<1>2. /\ place \in [Places -> PlaceStates]
      /\ disk \in [Cards -> Binding] /\ shown \in [Cards -> Binding]
      /\ lease \in [Cards -> Places \cup {None}]
      /\ binds \subseteq [card : Cards, to : Binding]
      /\ snapshot \subseteq Scans /\ todo \in [Cards -> SUBSET Lessons]
  BY DEF TypeOK, Lessons
<1>3. \A c \in Cards : OwnsIn(place', c, disk[c]) /\ OwnsIn(place', c, shown[c])
  BY <1>1, <1>2, OwnsKept DEF CardsOwned, Binding
<1>4. \A c \in Cards : lease[c] # None => place'[lease[c]].card = c
  BY <1>1, <1>2, Bounds DEF LeaseOwned, Grows
<1>5. \A b \in binds : OwnsIn(place', b.card, b.to)
  BY <1>1, <1>2, OwnsKept DEF BindsOwned, Binding
<1>6. \A c \in Cards : \A t \in todo[c] : OwnsIn(place', c, t)
  BY <1>1, <1>2, OwnsKept DEF LessonsOwned, Lessons
<1>7. \A s \in snapshot : \A p \in Places : s[p] # None => s[p] \in place'[p].hosts
  BY <1>1 DEF ScanSaw, Grows
<1> DEFINE CardsGood == disk' \in [Cards -> Binding] /\ shown' \in [Cards -> Binding] /\ CardsOwned'
           LeaseGood == lease' \in [Cards -> Places \cup {None}] /\ LeaseOwned'
           BindsGood == binds' \subseteq [card : Cards, to : Binding] /\ BindsOwned'
           TodoGood  == todo' \in [Cards -> SUBSET Lessons] /\ LessonsOwned'
           ScanGood  == snapshot' \subseteq Scans /\ ScanSaw'
           Rest == CardsGood /\ LeaseGood /\ BindsGood /\ TodoGood /\ ScanGood
<1>8. UNCHANGED <<disk, shown>> => CardsGood
  BY <1>2, <1>3 DEF CardsOwned, Owns
<1>9. UNCHANGED lease => LeaseGood
  BY <1>2, <1>4 DEF LeaseOwned
<1>10. UNCHANGED binds => BindsGood
  BY <1>2, <1>5 DEF BindsOwned, Owns
<1>11. UNCHANGED todo => TodoGood
  BY <1>2, <1>6 DEF LessonsOwned, Owns
<1>12. UNCHANGED snapshot => ScanGood
  BY <1>2, <1>7 DEF ScanSaw
<1>13. ASSUME NEW c \in Cards, NEW b \in Binding, Update(c, b), OwnsIn(place', c, b)
       PROVE  CardsGood
  BY <1>2, <1>3, <1>13 DEF Update, CardsOwned, Owns
<1>14. ASSUME NEW p \in Places, Boot(p) \/ Clear(p) \/ Exit(p) \/ \E i \in Ids : ByHand(p, i)
       PROVE  Rest
  BY <1>8, <1>9, <1>10, <1>11, <1>12, <1>14 DEF Boot, Clear, Exit, ByHand
<1>15. ASSUME NEW c \in Cards, NEW p \in Places, AssignTaskAgent(c, p) PROVE Rest
  <2>1. place'[p].card = c
    BY <1>2, <1>15 DEF AssignTaskAgent, Spawned, PlaceStates
  <2>2. Assigned(c, p) \in Binding /\ OwnsIn(place', c, Assigned(c, p))
    BY <2>1 DEF Assigned, Binding, OwnsIn
  <2> QED
    BY <1>9, <1>10, <1>11, <1>12, <1>13, <1>15, <2>2 DEF AssignTaskAgent
<1>16. ASSUME NEW c \in Cards, NEW p \in Places, ResumeBoardTask(c, p) PROVE Rest
  <2>1. place'[p].card = c
    BY <1>2, <1>16 DEF ResumeBoardTask, Spawned, PlaceStates
  <2>2. Rebound(c, p) \in Binding /\ OwnsIn(place', c, Rebound(c, p))
    BY <1>2, <1>3, <2>1 DEF Rebound, Binding, OwnsIn
  <2> QED
    BY <1>9, <1>10, <1>11, <1>12, <1>13, <1>16, <2>2 DEF ResumeBoardTask
<1>17. ASSUME NEW c \in Cards, FinishTask(c) PROVE Rest
  BY <1>8, <1>9, <1>10, <1>11, <1>12, <1>17 DEF FinishTask
<1>18. ASSUME SetTab PROVE Rest
  <2>1. CardsGood
    BY <1>2, <1>3, <1>18 DEF SetTab, CardsOwned, Owns
  <2> QED
    BY <1>9, <1>10, <1>11, <1>12, <1>18, <2>1 DEF SetTab
<1>19. ASSUME Scan PROVE Rest
  <2>1. UNCHANGED place /\ snapshot' = {[p \in Places |-> place[p].id]}
    BY <1>19 DEF Scan
  <2>2. ScanGood
    BY <1>2, <2>1 DEF Scans, PlaceStates, ScanSaw, Sessions, HostsItsOwn
  <2> QED
    BY <1>8, <1>9, <1>10, <1>11, <1>19, <2>2 DEF Scan
<1>20. ASSUME ApplySessions PROVE Rest
  <2>1. PICK s \in snapshot : todo' = [c \in Cards |-> Learned(shown[c], s)]
    BY <1>20 DEF ApplySessions
  <2>2. UNCHANGED place /\ snapshot' = {}
    BY <1>20 DEF ApplySessions
  <2>3. TodoGood
    BY <2>1, <2>2, LearnedOwned DEF LessonsOwned, Owns
  <2>4. ScanGood
    BY <2>2 DEF ScanSaw
  <2> QED
    BY <1>8, <1>9, <1>10, <1>20, <2>3, <2>4 DEF ApplySessions
<1>21. ASSUME NEW c \in Cards, BindSession(c) PROVE Rest
  <2>1. PICK t \in todo[c] : Update(c, Applied(t, disk[c]))
    BY <1>21 DEF BindSession
  <2>2. Applied(t, disk[c]) \in Binding /\ OwnsIn(place', c, Applied(t, disk[c]))
    BY <1>2, <1>3, <1>6, AppliedOwned
  <2>3. CardsGood
    BY <1>13, <2>1, <2>2
  <2>4. TodoGood
    BY <1>2, <1>6, <1>21 DEF BindSession, LessonsOwned, Owns
  <2> QED
    BY <1>9, <1>10, <1>12, <1>21, <2>3, <2>4 DEF BindSession
<1>22. ASSUME NEW c \in Cards, NEW p \in Places, Launch(c, p) PROVE Rest
  <2>1. PICK i \in Ids \cup {None} : place' = Spawned(c, p, i) /\ ToBind(c, p, i)
    BY <1>22 DEF Launch
  <2>2. place'[p].card = c /\ place'[p].hosts = {i} \ {None}
    BY <1>2, <2>1 DEF Spawned, PlaceStates
  <2>3. LeaseGood
    BY <1>2, <1>4, <1>22, <2>2 DEF Launch, LeaseOwned
  <2> DEFINE b == [tmux |-> p, sid |-> i]
  <2>4. b \in Binding /\ OwnsIn(place', c, b)
    BY <2>2 DEF Binding, OwnsIn
  <2>5. BindsGood
    BY <1>2, <1>5, <2>1, <2>4 DEF ToBind, BindsOwned, Owns
  <2> QED
    BY <1>8, <1>11, <1>12, <1>22, <2>3, <2>5 DEF Launch
<1>23. ASSUME NEW c \in Cards, Hook(c) PROVE Rest
  <2> DEFINE p == lease[c]
             i == IF place[p].next # None THEN place[p].next ELSE place[p].id
             b == [tmux |-> p, sid |-> i]
  <2>1. p \in Places /\ place[p].card = c /\ ToBind(c, p, i) /\ i # None
    BY <1>2, <1>23 DEF Hook, SessionExists, LeaseOwned
  <2>2. i \in place[p].hosts /\ i \in Ids
    BY <1>2, <2>1 DEF Sessions, HostsItsOwn, PlaceStates
  <2>3. b \in Binding /\ Owns(c, b)
    BY <2>1, <2>2 DEF Binding, Owns, OwnsIn
  <2>4. OwnsIn(place', c, b)
    BY <1>1, <2>1, <2>3, OwnsKept
  <2> HIDE DEF b
  <2>5. binds' = binds \cup {[card |-> c, to |-> b]}
    BY <2>1 DEF ToBind, b
  <2>6. BindsGood
    BY <1>2, <1>5, <2>3, <2>4, <2>5 DEF BindsOwned, Owns
  <2> QED
    BY <1>8, <1>9, <1>11, <1>12, <1>23, <2>6 DEF Hook
<1>24. ASSUME NEW b \in binds, BindResource(b) PROVE Rest
  <2>1. b.card \in Cards /\ b.to \in Binding /\ OwnsIn(place', b.card, b.to)
    BY <1>2, <1>5
  <2>2. CardsGood
    BY <1>2, <1>3, <1>24, <2>1 DEF BindResource, CardsOwned, Owns
  <2>3. BindsGood
    BY <1>2, <1>5, <1>24 DEF BindResource, BindsOwned, Owns
  <2> QED
    BY <1>9, <1>11, <1>12, <1>24, <2>2, <2>3 DEF BindResource
<1>25. ASSUME UNCHANGED vars PROVE Rest
  BY <1>8, <1>9, <1>10, <1>11, <1>12, <1>25 DEF vars
<1>26. Rest
  BY <1>14, <1>15, <1>16, <1>17, <1>18, <1>19, <1>20, <1>21, <1>22, <1>23, <1>24, <1>25
     DEF Next, Hub, Broker
<1> QED
  BY <1>1, <1>26 DEF TypeOK, Lessons

\* Every variable keeps its type, whatever the hub, the broker, the sessions
\* and somebody at a terminal do.
THEOREM TypeCorrect == Spec => []TypeOK
<1>1. OwnInv => TypeOK
  BY DEF OwnInv
<1> QED
  BY <1>1, OwnInit, OwnStep, PTL DEF Spec

\* A card is never bound to a session that was started for another card, so
\* Done never kills one: OwnSession of every number of cards and sessions.
THEOREM BoundToItsOwn == Spec => []OwnSession
<1>1. OwnInv => OwnSession
  <2> SUFFICES ASSUME OwnInv, NEW c \in Cards, NEW b \in {disk[c], shown[c]}
               PROVE  OwnsIn(place, c, b)
    BY DEF OwnSession, OwnsIn
  <2> QED
    BY DEF OwnInv, CardsOwned, Owns
<1> QED
  BY <1>1, OwnInit, OwnStep, PTL DEF Spec

-----------------------------------------------------------------------------
(* One session.                                                            *)

LEMMA OneStep == OneInv /\ [Next]_vars => OneInv'
<1> SUFFICES ASSUME OneInv, [Next]_vars PROVE OneInv'
  OBVIOUS
<1>1. OwnInv /\ OwnInv' /\ Grows
  BY OwnStep, PlacesStep DEF OneInv
<1>2. /\ place \in [Places -> PlaceStates]
      /\ disk \in [Cards -> Binding] /\ shown \in [Cards -> Binding]
      /\ todo \in [Cards -> SUBSET Lessons] /\ snapshot \subseteq Scans
  BY <1>1 DEF OwnInv, TypeOK, Lessons
<1>3. \A c \in Cards \ Managed :
        /\ shown[c] = disk[c] /\ Fits(disk[c])
        /\ \A t \in todo[c] : Fits(Applied(t, disk[c]))
  BY DEF OneInv, CopyCurrent, LessonsFit, OneSession, Coherent, Fits
<1> DEFINE FitsNow(b) == b.tmux # None /\ b.sid # None => b.sid \in place'[b.tmux].hosts
           Rest == /\ \A c \in Cards \ Managed :
                        /\ shown'[c] = disk'[c] /\ FitsNow(disk'[c])
                        /\ \A t \in todo'[c] : FitsNow(Applied(t, disk'[c]))
                   /\ NotBound'
<1>4. ASSUME NEW b, b.tmux \in Places \cup {None}, Fits(b) PROVE FitsNow(b)
  BY <1>1, <1>4 DEF Fits, Grows
<1>5. \A c \in Cards : \A t \in todo[c] : Applied(t, disk[c]).tmux \in Places \cup {None}
  BY <1>2 DEF Applied, Lessons, Binding
<1>6. \A c \in Cards \ Managed :
        FitsNow(disk[c]) /\ \A t \in todo[c] : FitsNow(Applied(t, disk[c]))
  BY <1>2, <1>3, <1>4, <1>5 DEF Binding
<1>7. NotBound
  BY DEF OneInv
<1>8. ASSUME UNCHANGED <<disk, shown, todo, binds>> PROVE Rest
  BY <1>3, <1>6, <1>7, <1>8 DEF NotBound
<1>9. ASSUME NEW c \in Cards, NEW b \in Binding, Idle, UNCHANGED <<todo, binds>>,
             Update(c, b), FitsNow(b)
      PROVE  Rest
  BY <1>2, <1>3, <1>6, <1>7, <1>9 DEF Update, Idle, NotBound
<1>10. ASSUME NEW p \in Places, Boot(p) \/ Clear(p) \/ Exit(p) \/ \E i \in Ids : ByHand(p, i)
       PROVE  Rest
  BY <1>8, <1>10 DEF Boot, Clear, Exit, ByHand
<1>11. ASSUME NEW c \in Cards, NEW p \in Places, AssignTaskAgent(c, p) PROVE Rest
  <2>1. Assigned(c, p) \in Binding /\ FitsNow(Assigned(c, p))
    BY DEF Assigned, Binding
  <2> QED
    BY <1>9, <1>11, <2>1 DEF AssignTaskAgent
<1>12. ASSUME NEW c \in Cards, NEW p \in Places, ResumeBoardTask(c, p) PROVE Rest
  <2>1. CASE c \in Managed
    <3>1. /\ \A d \in Cards \ {c} : disk'[d] = disk[d] /\ shown'[d] = shown[d]
          /\ UNCHANGED <<todo, binds>>
      BY <1>2, <1>12 DEF ResumeBoardTask, Update
    <3> QED
      BY <1>3, <1>6, <1>7, <2>1, <3>1 DEF NotBound
  <2>2. CASE c \notin Managed
    <3>1. shown[c].sid = disk[c].sid /\ disk[c].sid # None
      BY <1>3, <1>12, <2>2 DEF ResumeBoardTask
    <3>2. place'[p].hosts = {disk[c].sid}
      BY <1>2, <1>12, <3>1 DEF ResumeBoardTask, Spawned, PlaceStates
    <3>3. Rebound(c, p) \in Binding /\ FitsNow(Rebound(c, p))
      BY <1>2, <3>2 DEF Rebound, Binding
    <3> QED
      BY <1>9, <1>12, <3>3 DEF ResumeBoardTask
  <2> QED
    BY <2>1, <2>2
<1>13. ASSUME NEW c \in Cards, FinishTask(c) PROVE Rest
  BY <1>8, <1>13 DEF FinishTask
<1>14. ASSUME SetTab PROVE Rest
  BY <1>3, <1>6, <1>7, <1>14 DEF SetTab, NotBound
<1>15. ASSUME Scan PROVE Rest
  BY <1>8, <1>15 DEF Scan
<1>16. ASSUME ApplySessions PROVE Rest
  <2>1. PICK s \in snapshot : todo' = [c \in Cards |-> Learned(shown[c], s)]
    BY <1>16 DEF ApplySessions
  <2>2. UNCHANGED <<disk, shown, place, binds>>
    BY <1>16 DEF ApplySessions
  <2>3. ASSUME NEW c \in Cards \ Managed, NEW t \in Learned(disk[c], s)
        PROVE  FitsNow(Applied(t, disk[c]))
    <3> DEFINE b == disk[c]
    <3>1. b \in Binding /\ \A p \in Places : s[p] # None => s[p] \in place[p].hosts
      BY <1>1, <1>2 DEF OwnInv, ScanSaw
    <3>2. CASE Where(b.sid, s) # {}
      <4> DEFINE p == CHOOSE q \in Where(b.sid, s) : TRUE
      <4>1. p \in Places /\ s[p] = b.sid /\ b.sid # None
        BY <3>2 DEF Where
      <4>2. t = [tmux |-> p, sid |-> None]
        BY <3>2 DEF Learned
      <4>3. b.sid \in place[p].hosts
        BY <3>1, <4>1
      <4> HIDE DEF p
      <4>4. Applied(t, b).tmux = p /\ Applied(t, b).sid = b.sid
        BY <3>1, <4>1, <4>2, Bounds DEF Applied, Binding
      <4> QED
        BY <2>2, <4>3, <4>4
    <3>3. CASE Where(b.sid, s) = {}
      <4>1. PICK i \in ({s[p] : p \in {b.tmux} \ {None}} \ {None, b.sid}) : t = [tmux |-> None, sid |-> i]
        BY <3>3 DEF Learned
      <4>2. b.tmux \in Places /\ i \in place[b.tmux].hosts
        BY <3>1, <4>1 DEF Binding
      <4>3. Applied(t, b).tmux = b.tmux /\ Applied(t, b).sid = i
        BY <3>1, <4>1 DEF Applied, Binding
      <4> QED
        BY <2>2, <4>2, <4>3
    <3> QED
      BY <3>2, <3>3
  <2>4. \A c \in Cards \ Managed : todo'[c] = Learned(disk[c], s)
    BY <1>3, <2>1
  <2> QED
    BY <1>3, <1>6, <1>7, <2>2, <2>3, <2>4 DEF NotBound
<1>17. ASSUME NEW c \in Cards, BindSession(c) PROVE Rest
  <2>1. PICK t \in todo[c] : Update(c, Applied(t, disk[c]))
    BY <1>17 DEF BindSession
  <2>2. /\ todo' = [todo EXCEPT ![c] = {}] /\ UNCHANGED binds
        /\ disk' = [disk EXCEPT ![c] = Applied(t, disk[c])]
        /\ shown' = [shown EXCEPT ![c] = Applied(t, disk[c])]
    BY <1>17, <2>1 DEF BindSession, Update
  <2>3. c \in Managed \/ FitsNow(Applied(t, disk[c]))
    BY <1>6
  <2> QED
    BY <1>2, <1>3, <1>6, <1>7, <2>2, <2>3 DEF NotBound
<1>18. ASSUME NEW c \in Cards, NEW p \in Places, Launch(c, p) PROVE Rest
  <2>1. UNCHANGED <<disk, shown, todo>> /\ NotBound'
    BY <1>7, <1>18 DEF Launch, ToBind, NotBound
  <2> QED
    BY <1>3, <1>6, <2>1
<1>19. ASSUME NEW c \in Cards, Hook(c) PROVE Rest
  <2>1. c \in Managed
    BY <1>1, <1>19 DEF Hook, SessionExists, OneInv, Leases
  <2>2. UNCHANGED <<disk, shown, todo>> /\ NotBound'
    BY <1>7, <1>19, <2>1 DEF Hook, ToBind, NotBound
  <2> QED
    BY <1>3, <1>6, <2>2
<1>20. ASSUME NEW b \in binds, BindResource(b) PROVE Rest
  <2>1. b.card \in Managed
    BY <1>7 DEF NotBound
  <2>2. /\ \A d \in Cards \ Managed : disk'[d] = disk[d]
        /\ UNCHANGED <<shown, todo>> /\ NotBound'
    BY <1>2, <1>7, <1>20, <2>1 DEF BindResource, NotBound
  <2> QED
    BY <1>3, <1>6, <2>2
<1>21. ASSUME UNCHANGED vars PROVE Rest
  BY <1>8, <1>21 DEF vars
<1>22. Rest
  BY <1>10, <1>11, <1>12, <1>13, <1>14, <1>15, <1>16, <1>17, <1>18, <1>19, <1>20, <1>21
     DEF Next, Hub, Broker
<1>23. Leases'
  <2>1. lease' = lease \/ \E c \in Managed : \E p \in Places : lease' = [lease EXCEPT ![c] = p]
    BY DEF Next, Hub, Broker, vars, Boot, Clear, Exit, ByHand, AssignTaskAgent, ResumeBoardTask,
           FinishTask, SetTab, Scan, ApplySessions, BindSession, Launch, Hook, BindResource
  <2> QED
    BY <1>1, <2>1 DEF OneInv, Leases, OwnInv, TypeOK
<1> HIDE DEF Rest
<1>24. CopyCurrent' /\ LessonsFit' /\ OneSession'
  BY <1>22 DEF Rest, CopyCurrent, LessonsFit, OneSession, Coherent, Fits
<1>25. NotBound'
  BY <1>22 DEF Rest
<1> QED
  BY <1>1, <1>23, <1>24, <1>25 DEF OneInv

\* The tmux session and the conversation of a card the broker leaves alone
\* belong together, though the scans that write them compare with old copies.
THEOREM FieldsTogether == Spec => []OneSession
<1>1. Init => OneInv
  <2> SUFFICES ASSUME Init PROVE OneInv
    OBVIOUS
  <2>1. OwnInv
    BY OwnInit
  <2> QED
    BY <2>1 DEF Init, OneInv, CopyCurrent, LessonsFit, NotBound, OneSession, Coherent, Leases
<1>2. OneInv => OneSession
  BY DEF OneInv
<1> QED
  BY <1>1, <1>2, OneStep, PTL DEF Spec

=============================================================================

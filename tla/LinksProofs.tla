---------------------------- MODULE LinksProofs ----------------------------
(***************************************************************************)
(* What holds of Links for every number of cards, commands and sessions:   *)
(* its types and the order of the queue of prompts, that a chore's card is *)
(* never Running with nobody on it, and that a hand-over closes only a     *)
(* session no card names any more.                                         *)
(***************************************************************************)
EXTENDS Links, TLAPS

\* A command that is under way has a card, and a place from its session's start
\* until the card is bound to it.
UnderWay(k) ==
  /\ k.at # "idle" => k.card \in Cards
  /\ k.at \in {"spawn", "bind"} => k.dir \in Dirs
  /\ k.at = "bind" <=> k.place # None
  /\ k.at = "spawn" /\ k.role = None => k.old = None
  /\ k.chore => k.old = None
  /\ k.at = "start" => k.chore

\* No place is bound, replaced or started before it was used.
Used(p) == p # None => sess[p] # "new"
UsedSoon(p) == p # None => sess'[p] # "new"
BoardUsed ==
  /\ \A c \in Cards : Used(card[c].tmux)
  /\ \A o \in Openers : Used(opener[o].place) /\ Used(opener[o].old)

\* A session belongs to one card, or to the one command that started it.
OneOwner ==
  /\ \A c, d \in Cards : card[c].tmux # None /\ card[c].tmux = card[d].tmux => c = d
  /\ \A o \in Openers, c \in Cards : opener[o].place # None => card[c].tmux # opener[o].place
  /\ \A o, q \in Openers : opener[o].place # None /\ opener[o].place = opener[q].place => o = q

\* Only the card a hand-over is about names the session it replaces, and none
\* does once the card is bound to the fresh one.
Replaces ==
  \A o \in Openers : opener[o].old # None =>
    /\ \A q \in Openers : opener[q].place # opener[o].old
    /\ \A c \in Cards : card[c].tmux = opener[o].old =>
         c = opener[o].card /\ opener[o].at \in {"spawn", "bind"}

\* A chore's card is bound before it is moved on.
ChoresBound ==
  \A o \in Openers : opener[o].chore =>
    /\ opener[o].card \in chores
    /\ opener[o].at = "start" => card[opener[o].card].tmux # None

\* What is known of the constants.
LEMMA Bounds == MaxOpen \in Nat /\ MaxPlaces \in Nat /\ None \notin Places
BY LinksAssumption DEF Places

-----------------------------------------------------------------------------
(* Commands.                                                               *)

\* The board and the commands, without the queue.
Typed ==
  /\ card \in [Cards -> CardStates] /\ chores \subseteq Cards
  /\ sess \in [Places -> States] /\ opener \in [Openers -> Commands]

BoardInv ==
  /\ Typed /\ (\A o \in Openers : UnderWay(opener[o]))
  /\ BoardUsed /\ OneOwner /\ Replaces /\ ChoresBound /\ ChoreBound

\* A place that was used is never new again.
LEMMA UsedStaysUsed ==
  ASSUME sess \in [Places -> States], [Next]_vars
  PROVE  sess' \in [Places -> States] /\ \A p \in Places : sess[p] # "new" => sess'[p] # "new"
<1> DEFINE Good == sess' \in [Places -> States] /\ \A p \in Places : sess[p] # "new" => sess'[p] # "new"
<1>1. ASSUME UNCHANGED sess PROVE Good
  BY <1>1
<1>2. ASSUME NEW p \in Places, sess' = Spawned(p) PROVE Good
  BY <1>2 DEF Spawned, States
<1>3. ASSUME NEW p \in Places, sess' = [sess EXCEPT ![p] = "ended"] PROVE Good
  BY <1>3 DEF States
<1>4. ASSUME NEW o \in Openers, CloseSuperseded(o) PROVE Good
  BY <1>1, <1>4 DEF CloseSuperseded, Superseded, Alive, States
<1> HIDE DEF Good
<1>5. ASSUME NEW o \in Openers, Open(o) PROVE Good
  BY <1>1, <1>2, <1>4, <1>5
     DEF Open, FileChore, OpenTask, Reuse, Spawn, Bind, StartCard, Send, Dies
<1>6. ASSUME Hub PROVE Good
  BY <1>1, <1>2, <1>6
     DEF Hub, Scan, Elapse, HubRestarts, Card, Proceed, Resume, Assign, Dispatch, GiveUp, hub
<1>7. ASSUME NEW p \in Places, Exits(p) PROVE Good
  BY <1>3, <1>7 DEF Exits
<1>8. ASSUME UNCHANGED vars PROVE Good
  BY <1>1, <1>8 DEF vars
<1>9. Good
  BY <1>5, <1>6, <1>7, <1>8 DEF Next
<1> QED
  BY <1>9 DEF Good

\* The command of o is gone, or has become k.
Became(o, k) ==
  /\ opener' \in [Openers -> Commands]
  /\ opener'[o] \in {NoCommand, k}
  /\ \A q \in Openers \ {o} : opener'[q] = opener[q]

LEMMA CommandGoesOn ==
  ASSUME opener \in [Openers -> Commands], NEW o \in Openers, NEW k \in Commands, GoesOn(o, k)
  PROVE  Became(o, [k EXCEPT !.at = NextStep(k)])
<1>1. NextStep(k) \in Steps
  BY DEF NextStep, Steps
<1>2. [k EXCEPT !.at = NextStep(k)] \in Commands
  BY <1>1 DEF Commands
<1>3. NoCommand \in Commands
  BY DEF NoCommand, Commands, Steps
<1> QED
  BY <1>2, <1>3 DEF GoesOn, Ends, Became

LEMMA CommandEnds ==
  ASSUME opener \in [Openers -> Commands], NEW o \in Openers, NEW k, Ends(o)
  PROVE  Became(o, k)
<1>1. NoCommand \in Commands
  BY DEF NoCommand, Commands, Steps
<1> QED
  BY <1>1 DEF Ends, Became

\* If a command ends or becomes one in good order, while the board and the
\* sessions only gain, all is as it should be.
LEMMA CommandKeeps ==
  ASSUME BoardInv, NEW o \in Openers, NEW k \in Commands, Became(o, k),
         UNCHANGED card, chores \subseteq chores', chores' \subseteq Cards, ChoreBound',
         sess' \in [Places -> States], \A p \in Places : sess[p] # "new" => sess'[p] # "new",
         UnderWay(k), UsedSoon(k.place), UsedSoon(k.old),
         k.chore => k.card \in chores' /\ (k.at = "start" => card[k.card].tmux # None),
         k.place # None =>
           /\ \A c \in Cards : card[c].tmux # k.place
           /\ \A q \in Openers \ {o} : opener[q].place # k.place /\ opener[q].old # k.place,
         k.old # None =>
           /\ k.place # k.old /\ \A q \in Openers \ {o} : opener[q].place # k.old
           /\ \A c \in Cards : card[c].tmux = k.old => c = k.card /\ k.at \in {"spawn", "bind"}
  PROVE  BoardInv'
<1> USE DEF BoardInv
<1>1. /\ NoCommand.at = "idle" /\ NoCommand.place = None /\ NoCommand.old = None
      /\ NoCommand.chore = FALSE /\ NoCommand.role = None
  BY DEF NoCommand
<1>2. opener' \in [Openers -> Commands] /\ opener'[o] \in {NoCommand, k}
      /\ \A q \in Openers \ {o} : opener'[q] = opener[q]
  BY DEF Became
<1>3. Typed'
  BY <1>2 DEF Typed
<1>4. \A q \in Openers : UnderWay(opener'[q])
  BY <1>1, <1>2 DEF UnderWay
<1>5. BoardUsed'
  <2>1. \A c \in Cards : card[c].tmux \in Places \cup {None}
    BY DEF Typed, CardStates
  <2>2. \A q \in Openers : opener[q].place \in Places \cup {None} /\ opener[q].old \in Places \cup {None}
    BY DEF Typed, Commands
  <2> QED
    BY <1>1, <1>2, <2>1, <2>2 DEF BoardUsed, Used, UsedSoon
<1>6. OneOwner'
  BY <1>1, <1>2 DEF OneOwner
<1>7. Replaces'
  BY <1>1, <1>2 DEF Replaces
<1>8. ChoresBound'
  BY <1>1, <1>2 DEF ChoresBound
<1> QED
  BY <1>3, <1>4, <1>5, <1>6, <1>7, <1>8

\* A card is bound to a place nobody has: the fresh session of the hub, or that
\* of the command o, which lets go of it.
LEMMA BoundFresh ==
  ASSUME BoardInv, NEW c \in Cards, NEW p \in Places,
         \A d \in Cards : card[d].tmux # p,
         \A q \in Openers : opener[q].old # p,
         card' \in [Cards -> CardStates], card'[c].tmux = p,
         \A d \in Cards \ {c} : card'[d] = card[d],
         \A o \in Openers : opener'[o].place \in {opener[o].place, None} /\ opener'[o].place # p
  PROVE  OneOwner'
BY Bounds DEF BoardInv, OneOwner

LEMMA BoardStep == ASSUME BoardInv, [Next]_vars PROVE BoardInv'
<1> USE DEF BoardInv
<1>1. sess' \in [Places -> States] /\ \A p \in Places : sess[p] # "new" => sess'[p] # "new"
  BY UsedStaysUsed DEF Typed
<1>2. /\ card \in [Cards -> CardStates] /\ chores \subseteq Cards
      /\ opener \in [Openers -> Commands]
  BY DEF Typed
<1>3. /\ \A c \in Cards : card[c].tmux \in Places \cup {None}
      /\ \A o \in Openers : /\ opener[o].place \in Places \cup {None}
                           /\ opener[o].old \in Places \cup {None}
                           /\ UnderWay(opener[o])
  BY <1>2 DEF CardStates, Commands
<1>4. ASSUME UNCHANGED <<card, chores, opener>> PROVE BoardInv'
  <2>1. Typed' /\ BoardUsed' /\ OneOwner'
    BY <1>1, <1>2, <1>3, <1>4 DEF Typed, BoardUsed, Used, UsedSoon, OneOwner
  <2>2. Replaces' /\ ChoresBound' /\ ChoreBound'
    BY <1>4 DEF Replaces, ChoresBound, ChoreBound
  <2> QED
    BY <1>3, <1>4, <2>1, <2>2
<1>5. \A p \in Places : Fresh(p) =>
        /\ \A c \in Cards : card[c].tmux # p
        /\ \A o \in Openers : opener[o].place # p /\ opener[o].old # p
  BY Bounds DEF Fresh, BoardUsed, Used, UsedSoon
<1>6. ASSUME NEW o \in Openers, NEW c \in Cards, NEW d \in Dirs, NEW r \in Roles \cup {None},
             OpenTask(o, c, d, r)
      PROVE  BoardInv'
  <2> DEFINE old == IF r = None THEN None ELSE LiveIn(c, d)
             k == [NoCommand EXCEPT !.at = "spawn", !.card = c, !.dir = d, !.role = r, !.old = old]
  <2>1. old \in Places \cup {None} /\ (old # None => card[c].tmux = old)
    BY <1>3 DEF LiveIn
  <2> HIDE DEF old
  <2>2. /\ k.at = "spawn" /\ k.card = c /\ k.dir = d /\ k.role = r /\ k.old = old
        /\ k.place = None /\ k.chore = FALSE /\ k \in Commands
    BY <2>1 DEF NoCommand, Commands, Steps
  <2> HIDE DEF k
  <2>3. opener' = [opener EXCEPT ![o] = k] /\ UNCHANGED <<card, chores, sess>>
    BY <1>6 DEF OpenTask, k, old, board
  <2>4. Became(o, k)
    BY <1>2, <2>2, <2>3 DEF Became
  <2>5. UnderWay(k)
    BY <2>2 DEF UnderWay, old
  <2>6. old # None => /\ \A q \in Openers : opener[q].place # old
                      /\ \A e \in Cards : card[e].tmux = old => e = c
    BY <1>3, <2>1 DEF OneOwner
  <2>7. UsedSoon(k.place) /\ UsedSoon(k.old)
    BY <2>1, <2>2, <2>3 DEF BoardUsed, Used, UsedSoon
  <2>8. ChoreBound'
    BY <2>3 DEF ChoreBound
  <2> QED
    BY <1>1, <1>2, <2>2, <2>3, <2>4, <2>5, <2>6, <2>7, <2>8, CommandKeeps
<1>7. ASSUME NEW o \in Openers, Reuse(o) PROVE BoardInv'
  <2> DEFINE m == [opener[o] EXCEPT !.at = "send", !.dir = None]
  <2>1. opener[o].at = "spawn" /\ ~opener[o].chore /\ opener[o].role = None
    BY <1>7 DEF Reuse
  <2>2. opener[o].old = None /\ opener[o].place = None /\ opener[o].card \in Cards
    BY <1>3, <2>1 DEF UnderWay
  <2>3. /\ m.at = "send" /\ m.card = opener[o].card /\ m.chore = opener[o].chore
        /\ m.place = opener[o].place /\ m.old = opener[o].old /\ m \in Commands
    BY <1>2 DEF Commands, Steps
  <2>4. /\ m.at = "send" /\ m.card = opener[o].card /\ ~m.chore /\ m.place = None
        /\ m.old = None /\ m.card \in Cards /\ m \in Commands
    BY <2>1, <2>2, <2>3
  <2> HIDE DEF m
  <2>5. opener' = [opener EXCEPT ![o] = m] /\ UNCHANGED <<card, chores, sess>>
    BY <1>7 DEF Reuse, m, board
  <2>6. Became(o, m) /\ UnderWay(m)
    BY <1>2, <2>4, <2>5 DEF Became, UnderWay
  <2>7. ChoreBound' /\ UsedSoon(m.place) /\ UsedSoon(m.old)
    BY <2>4, <2>5 DEF ChoreBound, Used, UsedSoon
  <2> QED
    BY <1>1, <1>2, <2>4, <2>5, <2>6, <2>7, CommandKeeps
<1>8. ASSUME NEW o \in Openers, NEW c \in Cards, NEW d \in Dirs, FileChore(o, c, d)
      PROVE  BoardInv'
  <2> DEFINE k == [NoCommand EXCEPT !.at = "spawn", !.card = c, !.dir = d, !.chore = TRUE]
  <2>1. /\ k.at = "spawn" /\ k.card = c /\ k.dir = d /\ k.role = None /\ k.old = None
        /\ k.place = None /\ k.chore = TRUE /\ k \in Commands
    BY DEF NoCommand, Commands, Steps
  <2> HIDE DEF k
  <2>2. /\ opener' = [opener EXCEPT ![o] = k] /\ UNCHANGED sess
        /\ card' = [card EXCEPT ![c].col = "todo"] /\ chores' = chores \cup {c}
    BY <1>8 DEF FileChore, k
  <2>3. /\ card' \in [Cards -> CardStates] /\ card'[c].col = "todo"
        /\ \A e \in Cards : card'[e].tmux = card[e].tmux /\ (e # c => card'[e].col = card[e].col)
    BY <1>2, <2>2 DEF CardStates, Columns
  <2>4. /\ opener' \in [Openers -> Commands] /\ opener'[o] = k
        /\ \A q \in Openers \ {o} : opener'[q] = opener[q]
    BY <1>2, <2>1, <2>2
  <2>5. Typed' /\ \A q \in Openers : UnderWay(opener'[q])
    BY <1>1, <1>2, <1>3, <2>1, <2>2, <2>3, <2>4 DEF Typed, UnderWay
  <2>6. BoardUsed' /\ OneOwner'
    BY <2>1, <2>2, <2>3, <2>4 DEF BoardUsed, Used, UsedSoon, OneOwner
  <2>7. Replaces' /\ ChoresBound'
    BY <2>1, <2>2, <2>3, <2>4 DEF Replaces, ChoresBound
  <2>8. ChoreBound'
    BY <2>2, <2>3 DEF ChoreBound
  <2> QED
    BY <2>5, <2>6, <2>7, <2>8
<1>9. ASSUME NEW o \in Openers, NEW p \in Places, Spawn(o, p) PROVE BoardInv'
  <2> DEFINE j == [opener[o] EXCEPT !.place = p, !.role = None]
             k == [j EXCEPT !.at = NextStep(j)]
  <2>1. opener[o].at = "spawn" /\ Fresh(p) /\ sess' = Spawned(p)
        /\ UNCHANGED <<card, chores>> /\ GoesOn(o, j)
    BY <1>9 DEF Spawn, board
  <2>2. /\ j.at = "spawn" /\ j.card = opener[o].card /\ j.dir = opener[o].dir /\ j.role = None
        /\ j.old = opener[o].old /\ j.place = p /\ j.chore = opener[o].chore /\ j \in Commands
    BY <1>2, <2>1 DEF Commands
  <2> HIDE DEF j
  <2>3. Became(o, k)
    BY <1>2, <2>1, <2>2, CommandGoesOn
  <2>4. NextStep(j) = "bind"
    BY <2>2 DEF NextStep
  <2>5. /\ k.at = "bind" /\ k.card = opener[o].card /\ k.dir = opener[o].dir
        /\ k.old = opener[o].old /\ k.place = p /\ k.chore = opener[o].chore /\ k \in Commands
    BY <2>2, <2>4 DEF Commands, Steps
  <2> HIDE DEF k
  <2>6. UnderWay(k)
    BY <1>3, <2>1, <2>5, Bounds DEF UnderWay
  <2>7. UsedSoon(k.place) /\ UsedSoon(k.old)
    BY <1>1, <1>2, <1>3, <2>1, <2>5 DEF Spawned, Used, UsedSoon, BoardUsed, Typed
  <2>8. ChoreBound' /\ (k.chore => k.card \in chores)
    BY <2>1, <2>5 DEF ChoreBound, ChoresBound
  <2>9. k.old # None => /\ p # k.old /\ \A q \in Openers : opener[q].place # k.old
                        /\ \A c \in Cards : card[c].tmux = k.old => c = k.card
    BY <1>5, <2>1, <2>5 DEF Replaces
  <2> QED
    BY <1>1, <1>2, <1>5, <2>1, <2>3, <2>5, <2>6, <2>7, <2>8, <2>9, CommandKeeps
<1>10. ASSUME NEW o \in Openers, Send(o) PROVE BoardInv'
  <2> DEFINE k == [opener[o] EXCEPT !.at = NextStep(opener[o])]
  <2>1. Became(o, k) /\ UNCHANGED <<card, chores, sess>> /\ opener[o].at = "send"
    BY <1>2, <1>10, CommandGoesOn DEF Send, board
  <2>2. NextStep(opener[o]) \in {"close", "idle"}
    BY <2>1 DEF NextStep
  <2>3. /\ k.at \in {"close", "idle"} /\ k.card = opener[o].card /\ k.old = opener[o].old
        /\ k.place = opener[o].place /\ k.chore = opener[o].chore /\ k \in Commands
    BY <1>2, <2>2 DEF Commands, Steps
  <2> HIDE DEF k
  <2>4. UnderWay(k) /\ k.place = None
    BY <1>3, <2>1, <2>3 DEF UnderWay
  <2>5. UsedSoon(k.place) /\ UsedSoon(k.old) /\ ChoreBound' /\ (k.chore => k.card \in chores)
    BY <2>1, <2>3, <2>4 DEF Used, UsedSoon, BoardUsed, ChoreBound, ChoresBound
  <2>6. k.old # None => /\ \A q \in Openers : opener[q].place # k.old
                        /\ \A c \in Cards : card[c].tmux # k.old
    BY <2>1, <2>3 DEF Replaces
  <2> QED
    BY <1>1, <1>2, <2>1, <2>3, <2>4, <2>5, <2>6, CommandKeeps
<1>11. ASSUME NEW o \in Openers, Dies(o) \/ CloseSuperseded(o) PROVE BoardInv'
  <2> DEFINE k == NoCommand
  <2>1. Became(o, k) /\ UNCHANGED <<card, chores>>
    BY <1>2, <1>11, CommandEnds DEF Dies, CloseSuperseded, board
  <2>2. k.at = "idle" /\ k.place = None /\ k.old = None /\ k.chore = FALSE /\ k \in Commands
    BY DEF NoCommand, Commands, Steps
  <2> HIDE DEF k
  <2>3. UnderWay(k) /\ UsedSoon(k.place) /\ UsedSoon(k.old) /\ ChoreBound'
    BY <2>1, <2>2 DEF UnderWay, Used, UsedSoon, ChoreBound
  <2> QED
    BY <1>1, <1>2, <2>1, <2>2, <2>3, CommandKeeps
<1>12. ASSUME NEW o \in Openers, Bind(o) PROVE BoardInv'
  <2> DEFINE c == opener[o].card
             p == opener[o].place
             j == [opener[o] EXCEPT !.place = None, !.dir = None]
             k == [j EXCEPT !.at = NextStep(j)]
  <2>1. /\ opener[o].at = "bind" /\ GoesOn(o, j) /\ UNCHANGED <<chores, sess>>
        /\ card' = Bound(c, p, opener[o].dir)
    BY <1>12 DEF Bind
  <2>2. c \in Cards /\ p \in Places /\ opener[o].dir \in Dirs
    BY <1>3, <2>1 DEF UnderWay
  <2>3. /\ j.at = "bind" /\ j.card = c /\ j.old = opener[o].old /\ j.place = None
        /\ j.chore = opener[o].chore /\ j.role = opener[o].role /\ j \in Commands
    BY <1>2, <2>1 DEF Commands
  <2> HIDE DEF j
  <2>4. NextStep(j) = IF j.chore THEN "start" ELSE "send"
    BY <2>3 DEF NextStep
  <2>5. Became(o, k)
    BY <1>2, <2>1, <2>3, CommandGoesOn
  <2>6. /\ k.at \in {"start", "send"} /\ k.card = c /\ k.old = opener[o].old /\ k.place = None
        /\ k.chore = opener[o].chore /\ (k.at = "start" => k.chore)
    BY <2>3, <2>4 DEF Commands
  <2> HIDE DEF k
  <2>7. /\ card' \in [Cards -> CardStates] /\ card'[c].tmux = p /\ card'[c].col = card[c].col
        /\ \A d \in Cards \ {c} : card'[d] = card[d]
    BY <1>2, <2>1, <2>2 DEF Bound, CardStates
  <2> HIDE DEF c, p
  <2>8. /\ opener' \in [Openers -> Commands]
        /\ \A q \in Openers \ {o} : opener'[q] = opener[q]
        /\ opener'[o].place = None /\ opener'[o].old \in {k.old, None}
        /\ opener'[o].at \in {k.at, "idle"} /\ opener'[o].card \in {c, None}
        /\ UnderWay(opener'[o])
        /\ opener'[o].chore => opener'[o].card = c /\ k.chore
        /\ opener'[o].old # None => opener'[o].card = c
    <3>1. NoCommand.at = "idle" /\ NoCommand.place = None /\ NoCommand.old = None
          /\ NoCommand.chore = FALSE /\ NoCommand.card = None
      BY DEF NoCommand
    <3>2. UnderWay(NoCommand)
      BY <3>1 DEF UnderWay
    <3>3. UnderWay(k)
      BY <1>3, <2>2, <2>6 DEF UnderWay
    <3> QED
      BY <2>5, <2>6, <3>1, <3>2, <3>3 DEF Became
  <2>9. Typed' /\ \A q \in Openers : UnderWay(opener'[q])
    BY <1>1, <1>2, <1>3, <2>1, <2>7, <2>8 DEF Typed
  <2>10. BoardUsed'
    BY <2>1, <2>2, <2>6, <2>7, <2>8 DEF BoardUsed, Used, UsedSoon, p
  <2>11. /\ \A d \in Cards : card[d].tmux # p
         /\ \A q \in Openers : opener[q].old # p
         /\ \A q \in Openers \ {o} : opener[q].place # p
    BY <2>2, Bounds DEF OneOwner, Replaces, p
  <2>12. OneOwner'
    BY <2>2, <2>7, <2>8, <2>11, BoundFresh, Bounds
  <2>13. Replaces'
    <3>1. \A q \in Openers : opener'[q].old # None =>
            /\ opener'[q].old = opener[q].old
            /\ \A r \in Openers : opener'[r].place \in {None, opener[r].place}
      BY <2>6, <2>8
    <3>2. ASSUME NEW q \in Openers, opener'[q].old # None, NEW d \in Cards,
                 card'[d].tmux = opener'[q].old
          PROVE  d = opener'[q].card /\ opener'[q].at \in {"spawn", "bind"}
      <4>1. d # c /\ card[d].tmux = opener[q].old /\ opener[q].old # None
        BY <2>7, <2>11, <3>1, <3>2
      <4>2. q # o
        <5>1. q = o => d = c
          BY <4>1 DEF Replaces, c
        <5> QED
          BY <4>1, <5>1
      <4> QED
        BY <2>8, <4>1, <4>2 DEF Replaces
    <3>3. ASSUME NEW q \in Openers, opener'[q].old # None
          PROVE  \A r \in Openers : opener'[r].place # opener'[q].old
      BY <3>1, <3>3 DEF Replaces
    <3> QED
      BY <3>2, <3>3 DEF Replaces
  <2>14. ChoresBound'
    <3>1. ASSUME NEW q \in Openers, opener'[q].chore, q # o
          PROVE  /\ opener'[q].card \in chores'
                 /\ opener'[q].at = "start" => card'[opener'[q].card].tmux # None
      BY <1>2, <2>1, <2>2, <2>7, <2>8, <3>1, Bounds DEF ChoresBound
    <3>2. opener'[o].chore => /\ opener'[o].card \in chores'
                              /\ card'[opener'[o].card].tmux # None
      BY <2>1, <2>2, <2>6, <2>7, <2>8, Bounds DEF ChoresBound, c
    <3> QED
      BY <3>1, <3>2 DEF ChoresBound
  <2>15. ChoreBound'
    BY <1>2, <2>1, <2>2, <2>7, Bounds DEF ChoreBound
  <2> QED
    BY <2>9, <2>10, <2>12, <2>13, <2>14, <2>15
<1>13. ASSUME NEW c \in Cards, UNCHANGED <<chores, opener>>, card' \in [Cards -> CardStates],
             \A d \in Cards : card'[d].tmux = card[d].tmux,
             ChoreBound'
      PROVE  BoardInv'
  <2>1. Typed' /\ BoardUsed' /\ OneOwner'
    BY <1>1, <1>2, <1>3, <1>13 DEF Typed, BoardUsed, Used, UsedSoon, OneOwner
  <2>2. Replaces' /\ ChoresBound'
    BY <1>2, <1>13 DEF Replaces, ChoresBound
  <2> QED
    BY <1>3, <1>13, <2>1, <2>2
<1>14. ASSUME NEW o \in Openers, StartCard(o) PROVE BoardInv'
  <2> DEFINE c == opener[o].card
             k == [opener[o] EXCEPT !.at = NextStep(opener[o])]
  <2>1. /\ opener[o].at = "start" /\ GoesOn(o, opener[o]) /\ UNCHANGED <<chores, sess>>
        /\ card' = [card EXCEPT ![c].col = "running"]
    BY <1>14 DEF StartCard
  <2>2. c \in Cards /\ opener[o].chore /\ opener[o].place = None /\ opener[o].old = None
        /\ card[c].tmux # None
    BY <1>3, <2>1 DEF UnderWay, ChoresBound
  <2>3. Became(o, k)
    BY <1>2, <2>1, CommandGoesOn
  <2>4. NextStep(opener[o]) = "send"
    BY <2>1 DEF NextStep
  <2>5. /\ k.at = "send" /\ k.card = c /\ k.old = None /\ k.place = None /\ k.chore
    BY <1>2, <2>2, <2>4 DEF Commands
  <2> HIDE DEF k
  <2>6. /\ opener' \in [Openers -> Commands]
        /\ \A q \in Openers \ {o} : opener'[q] = opener[q]
        /\ opener'[o].place = None /\ opener'[o].old = None /\ opener'[o].at # "start"
        /\ UnderWay(opener'[o])
        /\ opener'[o].chore => opener'[o].card = c
    <3>1. NoCommand.at = "idle" /\ NoCommand.place = None /\ NoCommand.old = None
          /\ NoCommand.chore = FALSE /\ NoCommand.card = None
      BY DEF NoCommand
    <3> QED
      BY <2>2, <2>3, <2>5, <3>1 DEF Became, UnderWay
  <2>7. /\ card' \in [Cards -> CardStates]
        /\ \A d \in Cards : card'[d].tmux = card[d].tmux /\ (d # c => card'[d] = card[d])
    BY <1>2, <2>1, <2>2 DEF CardStates, Columns
  <2>8. c \in chores
    BY <2>2 DEF ChoresBound
  <2> HIDE DEF c
  <2>9. Typed' /\ \A q \in Openers : UnderWay(opener'[q])
    BY <1>1, <1>2, <1>3, <2>1, <2>6, <2>7 DEF Typed
  <2>10. BoardUsed' /\ OneOwner'
    BY <2>1, <2>6, <2>7 DEF BoardUsed, Used, UsedSoon, OneOwner
  <2>11. Replaces'
    BY <2>6, <2>7 DEF Replaces
  <2>12. ChoresBound'
    BY <1>2, <2>1, <2>6, <2>7, <2>8 DEF ChoresBound
  <2>13. ChoreBound'
    BY <1>2, <2>1, <2>2, <2>7 DEF ChoreBound
  <2> QED
    BY <2>9, <2>10, <2>11, <2>12, <2>13
<1>15. ASSUME NEW c \in Cards, Card(c) \/ Proceed(c) PROVE BoardInv'
  <2>1. UNCHANGED <<chores, opener>>
    BY <1>15 DEF Card, Proceed
  <2>2. ASSUME NEW col \in {"todo", "running"}, card' = [card EXCEPT ![c].col = col],
               col = "running" => c \notin chores \/ card[c].tmux # None
        PROVE  BoardInv'
    <3>1. /\ card' \in [Cards -> CardStates] /\ card'[c].col = col
          /\ \A d \in Cards : card'[d].tmux = card[d].tmux /\ (d # c => card'[d] = card[d])
      BY <1>2, <2>2 DEF CardStates, Columns
    <3>2. ChoreBound'
      BY <1>2, <2>1, <2>2, <3>1 DEF ChoreBound
    <3> QED
      BY <1>13, <2>1, <3>1, <3>2
  <2>3. CASE card' = [card EXCEPT ![c].col = "todo"]
    BY <2>2, <2>3
  <2>4. CASE card' = [card EXCEPT ![c].col = "running"] /\ (c \notin chores \/ card[c].tmux # None)
    BY <2>2, <2>4
  <2> QED
    BY <1>15, <2>3, <2>4 DEF Card, Proceed, Alive
<1>16. ASSUME NEW c \in Cards, NEW p \in Places, Fresh(p), sess' = Spawned(p),
             UNCHANGED <<chores, opener>>, card' \in [Cards -> CardStates], card'[c].tmux = p,
             \A d \in Cards \ {c} : card'[d] = card[d]
      PROVE  BoardInv'
  <2>1. Typed' /\ \A q \in Openers : UnderWay(opener'[q])
    BY <1>1, <1>2, <1>3, <1>16 DEF Typed
  <2>2. BoardUsed'
    BY <1>1, <1>2, <1>3, <1>16 DEF BoardUsed, Used, UsedSoon, Typed, Spawned
  <2>3. OneOwner'
    BY <1>5, <1>16, BoundFresh
  <2>4. Replaces'
    BY <1>5, <1>16 DEF Replaces
  <2>5. ChoresBound' /\ ChoreBound'
    BY <1>2, <1>16, Bounds DEF ChoresBound, ChoreBound
  <2> QED
    BY <2>1, <2>2, <2>3, <2>4, <2>5
<1>17. ASSUME NEW c \in Cards, NEW d \in Dirs, NEW p \in Places, Assign(c, d, p) PROVE BoardInv'
  <2> DEFINE bound == Bound(c, p, d)
  <2>1. bound \in [Cards -> CardStates] /\ bound[c].tmux = p
        /\ \A e \in Cards \ {c} : bound[e] = card[e]
    BY <1>2 DEF Bound, CardStates
  <2>2. card' = [bound EXCEPT ![c].col = "planning"] /\ Fresh(p) /\ sess' = Spawned(p)
        /\ UNCHANGED <<chores, opener>>
    BY <1>17 DEF Assign
  <2> HIDE DEF bound
  <2>3. card' \in [Cards -> CardStates] /\ card'[c].tmux = p
        /\ \A e \in Cards \ {c} : card'[e] = card[e]
    BY <2>1, <2>2 DEF CardStates, Columns
  <2> QED
    BY <1>16, <2>2, <2>3
<1>18. ASSUME NEW c \in Cards, NEW p \in Places, Resume(c, p) PROVE BoardInv'
  <2> DEFINE bound == Bound(c, p, card[c].dir)
  <2>1. bound \in [Cards -> CardStates] /\ bound[c].tmux = p
        /\ \A e \in Cards \ {c} : bound[e] = card[e]
    BY <1>2 DEF Bound, CardStates
  <2>2. card' = [bound EXCEPT ![c].col = "running"] /\ Fresh(p) /\ sess' = Spawned(p)
        /\ UNCHANGED <<chores, opener>>
    BY <1>18 DEF Resume
  <2> HIDE DEF bound
  <2>3. card' \in [Cards -> CardStates] /\ card'[c].tmux = p
        /\ \A e \in Cards \ {c} : card'[e] = card[e]
    BY <2>1, <2>2 DEF CardStates, Columns
  <2> QED
    BY <1>16, <2>2, <2>3
<1>19. ASSUME \/ \E p \in Places : Dispatch(p) \/ GiveUp(p) \/ Exits(p)
              \/ Scan \/ Elapse \/ HubRestarts \/ UNCHANGED vars
       PROVE  BoardInv'
  BY <1>4, <1>19 DEF Dispatch, GiveUp, Exits, Scan, Elapse, HubRestarts, vars, board
<1> QED
  BY <1>6, <1>7, <1>8, <1>9, <1>10, <1>11, <1>12, <1>14, <1>15, <1>17, <1>18, <1>19
     DEF Next, Hub, Open

-----------------------------------------------------------------------------
(* The queue of prompts.                                                   *)

\* Each prompt once, and nobody has waited longer than who was queued before.
InOrder(q, a) ==
  \A i, j \in DOMAIN q : i < j => q[i] # q[j] /\ (a[q[j]] = "overdue" => a[q[i]] = "overdue")
QueueInv ==
  /\ queue \in Seq(Places) /\ age \in [Places -> Ages] /\ seen \subseteq Places
  /\ InOrder(queue, age)
  /\ \A i \in DOMAIN queue : sess[queue[i]] # "new"

LEMMA QueueStep == ASSUME QueueInv, sess \in [Places -> States], [Next]_vars PROVE QueueInv'
<1> USE DEF QueueInv
<1>1. sess' \in [Places -> States] /\ \A p \in Places : sess[p] # "new" => sess'[p] # "new"
  BY UsedStaysUsed
<1>2. \A i \in DOMAIN queue : queue[i] \in Places /\ sess'[queue[i]] # "new"
  BY <1>1
<1>3. ASSUME UNCHANGED <<queue, age>>, seen' \subseteq Places PROVE QueueInv'
  BY <1>2, <1>3 DEF InOrder
<1>4. ASSUME NEW p \in Places, Fresh(p), sess' = Spawned(p), Queued(p), UNCHANGED seen
      PROVE  QueueInv'
  <2>1. /\ queue' = Append(queue, p) /\ age' = [age EXCEPT ![p] = "young"]
        /\ sess'[p] = "up"
    BY <1>4 DEF Queued, Spawned
  <2>2. \A i \in DOMAIN queue : queue[i] # p
    BY <1>4 DEF Fresh
  <2>3. /\ queue' \in Seq(Places) /\ DOMAIN queue = 1..Len(queue) /\ Len(queue) \in Nat
        /\ DOMAIN queue' = 1..(Len(queue) + 1) /\ queue'[Len(queue) + 1] = p
        /\ \A i \in DOMAIN queue : queue'[i] = queue[i]
    BY <2>1
  <2>4. age' \in [Places -> Ages] /\ age'[p] = "young"
        /\ \A i \in DOMAIN queue : age'[queue[i]] = age[queue[i]]
    BY <2>1, <2>2 DEF Ages
  <2>5. InOrder(queue', age')
    BY <2>2, <2>3, <2>4 DEF InOrder
  <2> QED
    BY <1>2, <1>4, <2>1, <2>3, <2>4, <2>5
<1>5. ASSUME Elapse PROVE QueueInv'
  <2>1. PICK n \in DOMAIN queue : /\ \A j \in 1..(n - 1) : age[queue[j]] = "overdue"
                                  /\ age' = [age EXCEPT ![queue[n]] = "overdue"]
    BY <1>5 DEF Elapse
  <2>2. age' \in [Places -> Ages] /\ UNCHANGED <<queue, sess, seen>>
    BY <1>2, <1>5, <2>1 DEF Elapse, Ages
  <2>3. \A i \in DOMAIN queue : age'[queue[i]] = IF queue[i] = queue[n] THEN "overdue" ELSE age[queue[i]]
    BY <1>2, <2>1
  <2>4. \A i \in DOMAIN queue : queue[i] = queue[n] <=> i = n
    BY DEF InOrder
  <2>5. InOrder(queue', age')
    <3> SUFFICES ASSUME NEW i \in DOMAIN queue, NEW j \in DOMAIN queue, i < j,
                        age'[queue[j]] = "overdue"
                 PROVE  age'[queue[i]] = "overdue"
      BY <2>2 DEF InOrder
    <3>1. CASE j = n
      BY <2>1, <2>3, <3>1
    <3>2. CASE j # n
      BY <2>3, <2>4, <3>2 DEF InOrder
    <3> QED
      BY <3>1, <3>2
  <2> QED
    BY <2>2, <2>5
<1>6. ASSUME NEW p \in Places, queue # <<>>, queue' = Tail(queue), p = Head(queue), seen' \subseteq Places,
             NEW a \in {"none", "lost"}, age' = [age EXCEPT ![p] = a]
      PROVE  QueueInv'
  <2>1. /\ Len(queue) \in Nat /\ Len(queue) > 0 /\ DOMAIN queue = 1..Len(queue) /\ queue[1] = p
        /\ queue' \in Seq(Places) /\ DOMAIN queue' = 1..(Len(queue) - 1)
        /\ \A i \in DOMAIN queue' : queue'[i] = queue[i + 1]
    BY <1>6
  <2>2. \A i \in DOMAIN queue' : queue'[i] # p
    BY <2>1 DEF InOrder
  <2>3. age' \in [Places -> Ages] /\ \A i \in DOMAIN queue' : age'[queue'[i]] = age[queue'[i]]
    BY <1>6, <2>1, <2>2 DEF Ages
  <2>4. InOrder(queue', age')
    <3> SUFFICES ASSUME NEW i \in DOMAIN queue', NEW j \in DOMAIN queue'
                 PROVE  i < j => /\ queue'[i] # queue'[j]
                                 /\ age'[queue'[j]] = "overdue" => age'[queue'[i]] = "overdue"
      BY DEF InOrder
    <3>1. i \in Nat /\ j \in Nat /\ i + 1 \in DOMAIN queue /\ j + 1 \in DOMAIN queue
      BY <2>1
    <3>2. /\ queue'[i] = queue[i + 1] /\ age'[queue'[i]] = age[queue[i + 1]]
          /\ queue'[j] = queue[j + 1] /\ age'[queue'[j]] = age[queue[j + 1]]
      BY <2>1, <2>3
    <3> QED
      BY <3>1, <3>2 DEF InOrder
  <2> QED
    BY <1>2, <1>6, <2>1, <2>3, <2>4
<1>7. ASSUME NEW p \in Places, Dispatch(p) \/ GiveUp(p) PROVE QueueInv'
  BY <1>6, <1>7 DEF Dispatch, GiveUp
<1>8. ASSUME NEW c \in Cards, NEW p \in Places, Resume(c, p) \/ \E d \in Dirs : Assign(c, d, p)
      PROVE  QueueInv'
  BY <1>4, <1>8 DEF Resume, Assign
<1>9. ASSUME HubRestarts PROVE QueueInv'
  BY <1>9 DEF HubRestarts, InOrder, Ages
<1>10. ASSUME Scan PROVE QueueInv'
  BY <1>3, <1>10 DEF Scan
<1>11. ASSUME \/ \E c \in Cards : Card(c) \/ Proceed(c)
              \/ \E p \in Places : Exits(p)
              \/ UNCHANGED vars
       PROVE  QueueInv'
  BY <1>3, <1>11 DEF Card, Proceed, Exits, vars, hub
<1>12. ASSUME NEW o \in Openers, Open(o) PROVE QueueInv'
  BY <1>3, <1>12
     DEF Open, FileChore, OpenTask, Reuse, Spawn, Bind, StartCard, Send, CloseSuperseded, Dies, hub
<1> QED
  BY <1>5, <1>7, <1>8, <1>9, <1>10, <1>11, <1>12 DEF Next, Hub

-----------------------------------------------------------------------------
(* Theorems.                                                               *)

LinksInv == BoardInv /\ QueueInv

LEMMA LinksInit == Init => LinksInv
<1> SUFFICES ASSUME Init PROVE LinksInv
  OBVIOUS
<1> DEFINE k == NoCommand
<1>1. /\ k.at = "idle" /\ k.place = None /\ k.old = None /\ k.chore = FALSE /\ k \in Commands
  BY DEF NoCommand, Commands, Steps
<1> HIDE DEF k
<1>2. opener = [o \in Openers |-> k] /\ UnderWay(k)
  BY <1>1 DEF Init, k, UnderWay
<1>3. Typed
  BY <1>1, <1>2 DEF Init, Typed, CardStates, Columns, States
<1>4. BoardUsed /\ OneOwner
  BY <1>1, <1>2 DEF Init, BoardUsed, Used, OneOwner
<1>5. Replaces /\ ChoresBound /\ ChoreBound
  BY <1>1, <1>2 DEF Init, Replaces, ChoresBound, ChoreBound
<1>6. QueueInv
  BY DEF Init, QueueInv, InOrder, Ages
<1> QED
  BY <1>2, <1>3, <1>4, <1>5, <1>6 DEF LinksInv, BoardInv

LEMMA LinksStep == LinksInv /\ [Next]_vars => LinksInv'
BY BoardStep, QueueStep DEF LinksInv, BoardInv, Typed

\* Every variable keeps its type, and the prompts wait in the order they were
\* queued, each once, whoever starts, ends or is killed.
THEOREM TypeCorrect == Spec => []TypeOK
<1>1. LinksInv => TypeOK
  BY DEF LinksInv, BoardInv, QueueInv, Typed, TypeOK, InOrder
<1> QED
  BY <1>1, LinksInit, LinksStep, PTL DEF Spec

\* Wherever the command of a chore dies, its card is not left Running with no
\* session, for the router to hand out.
THEOREM ChoresAreBound == Spec => []ChoreBound
<1>1. LinksInv => ChoreBound
  BY DEF LinksInv, BoardInv
<1> QED
  BY <1>1, LinksInit, LinksStep, PTL DEF Spec

\* However many commands and the hub start sessions for one card, the session
\* that a hand-over closes is nobody's by then.
THEOREM HandOverClosesReplaced == Spec => ClosesReplaced
<1> DEFINE NobodysClosed ==
             \A o \in Openers, p \in Places :
               opener[o].at = "close" /\ opener'[o].at # "close" /\ Alive(p) /\ ~Alive(p)' =>
                 \A c \in Cards : card'[c].tmux # p
<1>1. ASSUME LinksInv, [Next]_vars PROVE NobodysClosed
  <2> SUFFICES ASSUME NEW o \in Openers, NEW p \in Places, opener[o].at = "close",
                      opener'[o].at # "close", sess[p] = "up", sess'[p] # "up"
               PROVE  \A c \in Cards : card'[c].tmux # p
    BY DEF Alive
  <2>1. opener \in [Openers -> Commands] /\ sess \in [Places -> States]
    BY <1>1 DEF LinksInv, BoardInv, Typed
  <2>2. ASSUME NEW q \in Openers, Open(q) PROVE q = o
    <3>1. \A r \in Openers \ {q} : opener'[r] = opener[r]
      BY <2>1, <2>2, CommandGoesOn
         DEF Open, FileChore, OpenTask, Reuse, Spawn, Bind, StartCard, Send, CloseSuperseded, Dies,
             GoesOn, Ends
    <3> QED
      BY <3>1
  <2>3. UNCHANGED opener \/ \E q \in Openers : Open(q)
    BY <1>1
       DEF Next, Hub, Scan, Elapse, HubRestarts, Card, Proceed, Resume, Assign, Dispatch, GiveUp,
           Exits, vars
  <2>4. Open(o)
    BY <2>2, <2>3
  <2>5. CloseSuperseded(o) \/ Dies(o)
    BY <2>4 DEF Open, FileChore, OpenTask, Reuse, Spawn, Bind, StartCard, Send, Free
  <2>6. CloseSuperseded(o)
    BY <2>5 DEF Dies
  <2>7. p = opener[o].old /\ p # None /\ UNCHANGED card
    BY <2>1, <2>6, Bounds DEF CloseSuperseded, Superseded, board
  <2> QED
    BY <1>1, <2>7 DEF LinksInv, BoardInv, Replaces
<1> QED
  BY <1>1, LinksInit, LinksStep, PTL DEF Spec, ClosesReplaced

=============================================================================

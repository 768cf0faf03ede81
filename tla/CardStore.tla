----------------------------- MODULE CardStore -----------------------------
(***************************************************************************)
(* What the store of cards promises, without processes, locks, snapshots   *)
(* or undo slots: a card is created once, changes by whole edits of what   *)
(* it is at that moment, and is written over with anything else only after *)
(* it was removed, by who still had a copy of it.  TaskBoard implements    *)
(* this (its property ImplementsCardStore).                                *)
(***************************************************************************)
CONSTANTS
  Cards,    \* task ids
  Absent,   \* no such card
  NewCard,  \* what a card is created as
  Changes   \* the pairs of a card and what one edit may make of it

VARIABLES
  cards,  \* what each card is
  loose   \* the cards that were removed and that somebody has a copy of

vars == <<cards, loose>>

-----------------------------------------------------------------------------
Init ==
  /\ cards = [c \in Cards |-> Absent]
  /\ loose = {}

\* Copies are forgotten; no card that is there becomes loose.
Forgotten == loose' \subseteq loose

\* An id is minted once: nobody has a copy of a card that is created.
Create(c) ==
  /\ cards[c] = Absent /\ c \notin loose
  /\ cards' = [cards EXCEPT ![c] = NewCard]
  /\ Forgotten

\* One edit of the card as it is: no edit is lost, none is made of a copy.
Change(c) ==
  /\ cards[c] # Absent
  /\ <<cards[c], cards'[c]>> \in Changes
  /\ cards' = [cards EXCEPT ![c] = cards'[c]]
  /\ Forgotten

\* From here on somebody may put the card back.
Remove(c) ==
  /\ cards' = [cards EXCEPT ![c] = Absent]
  /\ loose' \subseteq loose \cup {c}

\* Loose cards are put back, over whatever they are by now.
PutBack ==
  /\ DOMAIN cards' = Cards
  /\ \A c \in Cards : cards'[c] # cards[c] => c \in loose /\ cards'[c] # Absent
  /\ Forgotten

Next ==
  \/ \E c \in Cards : Create(c) \/ Change(c) \/ Remove(c)
  \/ PutBack

Spec == Init /\ [][Next]_vars
=============================================================================

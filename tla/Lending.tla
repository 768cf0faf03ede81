------------------------------ MODULE Lending ------------------------------
(***************************************************************************)
(* What the resource queue of the broker promises, without workers,        *)
(* generations, locks or a supervisor: a desk that lends resources to      *)
(* clients.  A client that asks joins the end of the line, is served its   *)
(* whole claim at once and in turn, and keeps what it was lent until it    *)
(* hands it back, asks for something else or leaves.  Broker implements    *)
(* this (its property ImplementsLending).                                  *)
(***************************************************************************)
EXTENDS Naturals, Sequences

CONSTANTS Clients, Resources

VARIABLES
  present,  \* the clients that count
  lent,     \* what each client that counts has
  claim,    \* what each client waits for
  line      \* the clients that wait, the one that asked first at the head

vars == <<present, lent, claim, line>>

InLine(l) == {l[i] : i \in DOMAIN l}

Before(l, c, d) == \E i, j \in DOMAIN l : i < j /\ l[i] = c /\ l[j] = d

-----------------------------------------------------------------------------
Init ==
  /\ present = {}
  /\ lent  = [c \in Clients |-> {}]
  /\ claim = [c \in Clients |-> {}]
  /\ line  = <<>>

\* Nothing is lent twice.
Alone == \A c, d \in Clients : c # d => lent[c] \cap lent[d] = {}

Kept(c) == lent'[c] = lent[c] /\ claim'[c] = claim[c]

\* c gets the whole of names, what it waits for, and nobody who keeps a place
\* before c in the line goes on waiting for any of it.
Served(c, names, moving) ==
  /\ names # {} /\ lent'[c] = names /\ claim'[c] = {}
  /\ \A d \in present' \ moving : Before(line, d, c) => claim'[d] \cap names = {}

\* The others: nobody loses anything, asks for anything or changes place.
OthersStay(acting, moving) ==
  /\ \A c \in present' \ acting : Kept(c) \/ Served(c, claim[c], moving)
  /\ \A c \in Clients \ (present' \cup acting) : claim'[c] = claim[c] /\ lent'[c] = {}
  /\ InLine(line') = {c \in Clients : claim'[c] # {}}
  /\ \A c, d \in InLine(line') \ acting : Before(line', c, d) = Before(line, c, d)
  /\ Alone'

\* A client comes to count, and others may stop counting for it (a hand-over).
\* One that counted before has what it had, if that is still there; what it
\* waits for keeps its place.  Nobody is served.
Come(a) ==
  /\ a \notin present /\ a \in present' /\ present' \subseteq present \cup {a}
  /\ claim' = claim /\ line' = line
  /\ \A c \in present' \ {a} : Kept(c)
  /\ OthersStay({a}, {})

\* Clients stop counting; with none, the desk serves whom it can.
LeaveAndServe ==
  /\ present' \subseteq present
  /\ OthersStay({}, {})

\* A client that ends is forgotten, a place in the line included.  What it had
\* is not offered yet.
End(a) ==
  /\ present' = present \ {a}
  /\ lent'[a] = {} /\ claim'[a] = {}
  /\ \A c \in present' : Kept(c)
  /\ OthersStay({a}, {})

\* Part or all of what a has, or waits for, is handed back: it may get the
\* rest of what it waits for, or keeps its place.
HandBack(a) ==
  /\ UNCHANGED present
  /\ \E keep \in SUBSET Resources :
       \/ /\ lent'[a] = lent[a] \cap keep /\ claim'[a] = claim[a] \cap keep
          /\ claim'[a] # {} =>
               \A c \in InLine(line') : Before(line', c, a) = Before(line, c, a)
       \/ Served(a, claim[a] \cap keep, {})
  /\ OthersStay({a}, {})

\* a asks: it has what it has got, or joins the end of the line with nothing.
Ask(a) ==
  /\ present' = present \cup {a}
  /\ \/ claim'[a] = {} /\ \A d \in present' : claim'[d] \cap (lent'[a] \ lent[a]) = {}
     \/ claim'[a] # {} /\ lent'[a] = {} /\ line'[Len(line')] = a
  /\ OthersStay({a}, {a})

Next ==
  \/ \E a \in Clients : Come(a) \/ End(a) \/ HandBack(a) \/ Ask(a)
  \/ LeaveAndServe

Spec == Init /\ [][Next]_vars
=============================================================================

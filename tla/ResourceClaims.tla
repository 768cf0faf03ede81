--------------------------- MODULE ResourceClaims ---------------------------
(***************************************************************************)
(* The resource queue of the broker, as operators on the claims of all     *)
(* sessions (src/broker/resource_manager.py, "resources").                 *)
(*                                                                         *)
(* A claim is a record                                                     *)
(*   holds  the resources lent to the session,                             *)
(*   wants  the claim it waits for, {} when it waits for nothing,          *)
(*   ahead  the sessions that wait and asked before it.                    *)
(* The code stamps a claim with wants_at and compares stamps.  `ahead` is  *)
(* the order those stamps give, so a model has no clock to bound: claims   *)
(* are made one at a time under the state lock and no two stamps are equal.*)
(*                                                                         *)
(* `using` is the set of sessions that count: workers whose status is in   *)
(* USING and guests whose process runs.  A claim of any other session is   *)
(* kept, and ignored.                                                      *)
(***************************************************************************)

\* What a session that never asked for anything carries.
NoClaim == [holds |-> {}, wants |-> {}, ahead |-> {}]

\* The names in resource_holders(db, except_worker = s).
HeldByOthers(claims, using, s) == UNION {claims[t].holds : t \in using \ {s}}

\* waiting_for_resources, as a set: `ahead` carries its order.
Waiting(claims, using) == {s \in using : claims[s].wants # {}}

\* Slips of grant: it forgets who holds, or who asked first.
GrantableHeld(claims, using, s) ==
  /\ claims[s].wants # {}
  /\ \A t \in Waiting(claims, using) \cap claims[s].ahead :
        claims[t].wants \cap claims[s].wants = {}

GrantableUnordered(claims, using, s) ==
  /\ claims[s].wants # {}
  /\ claims[s].wants \cap HeldByOthers(claims, using, s) = {}

\* The condition of grant: the whole claim is free, and nobody who counts
\* asked earlier for any part of it.
Grantable(claims, using, s) ==
  /\ claims[s].wants # {}
  /\ claims[s].wants \cap HeldByOthers(claims, using, s) = {}
  /\ \A t \in Waiting(claims, using) \cap claims[s].ahead :
        claims[t].wants \cap claims[s].wants = {}

\* Every session of S gets the whole of what it wants and leaves the queue.
Granting(claims, S) ==
  [s \in DOMAIN claims |->
     IF s \in S THEN [holds |-> claims[s].wants, wants |-> {}, ahead |-> {}]
                ELSE [claims[s] EXCEPT !.ahead = @ \ S]]

\* grant: all of the claim or none of it.
Grant(claims, using, s) ==
  IF Grantable(claims, using, s) THEN Granting(claims, {s}) ELSE claims

\* grant_waiting.  The loop offers the claims oldest first; a claim that
\* overlaps an older one is refused whether the older one was granted on the
\* way (its names are held) or not (it is still ahead), so the loop grants
\* exactly the claims that are grantable when it begins.
OfferQueue(claims, using) ==
  Granting(claims, {s \in using : Grantable(claims, using, s)})

\* The claims after s is left with the resources `keep` of what it holds and
\* of what it waits for; a claim with nothing left leaves the queue.
HandBack(claims, s, keep) ==
  LET wants == claims[s].wants \cap keep
      gone  == IF wants = {} THEN {s} ELSE {}
  IN [t \in DOMAIN claims |->
        IF t = s
        THEN [holds |-> claims[s].holds \cap keep,
              wants |-> wants,
              ahead |-> IF wants = {} THEN {} ELSE claims[s].ahead]
        ELSE [claims[t] EXCEPT !.ahead = @ \ gone]]

\* release(db, s, names), where `keep` is every resource not in names: the
\* queue is offered what came free when anything was handed back or withdrawn.
Release(claims, using, s, keep) ==
  IF claims[s].holds \cup claims[s].wants \subseteq keep
  THEN claims
  ELSE OfferQueue(HandBack(claims, s, keep), using)

\* s joins the end of the queue with the claim `names`.
Ask(claims, s, names) ==
  [claims EXCEPT ![s] = [holds |-> {},
                         wants |-> names,
                         ahead |-> {t \in DOMAIN claims \ {s} : claims[t].wants # {}}]]

\* A slip: what s holds stays with it while it waits for more.
ClaimKeeping(claims, using, s, names) ==
  IF claims[s].holds = names
  THEN claims
  ELSE Grant([Ask(claims, s, names) EXCEPT ![s].holds = claims[s].holds], using, s)

\* claim: the complete set s needs from now on.  Asking for what it holds
\* changes nothing; any other claim first hands back everything.
Claim(claims, using, s, names) ==
  IF claims[s].holds = names
  THEN claims
  ELSE Grant(Ask(Release(claims, using, s, {}), s, names), using, s)

\* state() has dropped the guest s, whose process ended: nobody, holding
\* nothing, waiting for nothing.  The queue is not offered what it held.
Forget(claims, s) == HandBack(claims, s, {})
=============================================================================

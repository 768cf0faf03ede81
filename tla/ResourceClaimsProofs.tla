----------------------- MODULE ResourceClaimsProofs -----------------------
(***************************************************************************)
(* What every operation of the resource queue preserves, for any sessions  *)
(* S, any resources R and any set U of sessions that count.                *)
(***************************************************************************)
EXTENDS ResourceClaims, Integers, Sequences, FiniteSetTheorems, FunctionTheorems,
        NaturalsInduction, WellFoundedInduction, TLAPS

ClaimTable(S, R) == [S -> [holds : SUBSET R, wants : SUBSET R, ahead : SUBSET S]]

\* No session holds one resource while it waits for another.
Whole(c, S) == \A s \in S : c[s].wants # {} => c[s].holds = {}

\* `ahead` is a strict total order of the sessions that wait.
Ordered(c, S) ==
  \A s \in S :
    /\ s \notin c[s].ahead
    /\ \A t \in c[s].ahead :
         /\ c[t].wants # {} /\ c[s].wants # {}
         /\ s \notin c[t].ahead
         /\ c[t].ahead \subseteq c[s].ahead
    /\ \A t \in S \ {s} :
         c[s].wants # {} /\ c[t].wants # {} => s \in c[t].ahead \/ t \in c[s].ahead

\* No two sessions that count hold the same resource.
Apart(c, U) == \A s, t \in U : s # t => c[s].holds \cap c[t].holds = {}

\* A table the queue can be in, whoever counts.
Sound(c, S, R) == c \in ClaimTable(S, R) /\ Whole(c, S) /\ Ordered(c, S)

\* A change from c to d lends nothing twice, and nothing to whom does not count.
Lends(c, d, S, U) ==
  /\ Apart(c, U) => Apart(d, U)
  /\ \A t \in S \ U : d[t].holds \subseteq c[t].holds

-----------------------------------------------------------------------------
\* Granting some of the claims that are grantable leaves the queue sound: of
\* two of them that overlap, one would stand ahead of the other.
LEMMA GrantingSound ==
  ASSUME NEW S, NEW R, NEW U \in SUBSET S, NEW c, Sound(c, S, R),
         NEW G \in SUBSET {s \in U : Grantable(c, U, s)}
  PROVE  Sound(Granting(c, G), S, R) /\ Lends(c, Granting(c, G), S, U)
<1> DEFINE d == Granting(c, G)
<1>a. c \in ClaimTable(S, R)
  BY DEF Sound
<1>1. /\ d \in ClaimTable(S, R)
      /\ \A s \in S : s \in G => /\ d[s].holds = c[s].wants
                                 /\ d[s].wants = {}
                                 /\ d[s].ahead = {}
      /\ \A s \in S : s \notin G => /\ d[s].holds = c[s].holds
                                    /\ d[s].wants = c[s].wants
                                    /\ d[s].ahead = c[s].ahead \ G
  BY <1>a DEF ClaimTable, Granting
<1> HIDE DEF d
<1>2. Whole(d, S)
  BY <1>1 DEF Sound, Whole
<1>3. Ordered(d, S)
  <2> SUFFICES ASSUME NEW s \in S
               PROVE  /\ s \notin d[s].ahead
                      /\ \A t \in d[s].ahead :
                           /\ d[t].wants # {} /\ d[s].wants # {}
                           /\ s \notin d[t].ahead
                           /\ d[t].ahead \subseteq d[s].ahead
                      /\ \A t \in S \ {s} : d[s].wants # {} /\ d[t].wants # {}
                                             => s \in d[t].ahead \/ t \in d[s].ahead
    BY DEF Ordered
  <2>1. s \notin d[s].ahead
    BY <1>1 DEF Sound, Ordered
  <2>2. ASSUME NEW t \in d[s].ahead
        PROVE  /\ d[t].wants # {} /\ d[s].wants # {}
               /\ s \notin d[t].ahead
               /\ d[t].ahead \subseteq d[s].ahead
    <3>1. s \notin G /\ t \in c[s].ahead /\ t \notin G /\ t \in S
      BY <1>1, <2>2, <1>a DEF ClaimTable
    <3>2. /\ c[t].wants # {} /\ c[s].wants # {}
          /\ s \notin c[t].ahead
          /\ c[t].ahead \subseteq c[s].ahead
      BY <3>1 DEF Sound, Ordered
    <3> QED BY <3>1, <3>2, <1>1
  <2>3. ASSUME NEW t \in S \ {s}, d[s].wants # {}, d[t].wants # {}
        PROVE  s \in d[t].ahead \/ t \in d[s].ahead
    <3>1. s \notin G /\ t \notin G
      BY <2>3, <1>1
    <3>2. s \in c[t].ahead \/ t \in c[s].ahead
      BY <3>1, <2>3, <1>1 DEF Sound, Ordered
    <3> QED BY <3>1, <3>2, <1>1
  <2> QED BY <2>1, <2>2, <2>3
<1>4. ASSUME Apart(c, U) PROVE Apart(d, U)
  <2> SUFFICES ASSUME NEW s \in U, NEW t \in U, s # t
               PROVE  d[s].holds \cap d[t].holds = {}
    BY DEF Apart
  <2>1. CASE s \notin G /\ t \notin G
    BY <2>1, <1>1, <1>4 DEF Apart
  <2>2. CASE s \in G /\ t \notin G
    BY <2>2, <1>1 DEF Grantable, HeldByOthers
  <2>3. CASE s \notin G /\ t \in G
    BY <2>3, <1>1 DEF Grantable, HeldByOthers
  <2>4. CASE s \in G /\ t \in G
    <3>1. c[s].wants # {} /\ c[t].wants # {}
      BY <2>4 DEF Grantable
    <3>2. s \in c[t].ahead \/ t \in c[s].ahead
      BY <3>1 DEF Sound, Ordered
    <3>3. c[s].wants \cap c[t].wants = {}
      BY <2>4, <3>1, <3>2 DEF Grantable, Waiting
    <3> QED BY <2>4, <3>3, <1>1
  <2> QED BY <2>1, <2>2, <2>3, <2>4
<1>5. \A t \in S \ U : d[t].holds \subseteq c[t].holds
  BY <1>1
<1> QED BY <1>1, <1>2, <1>3, <1>4, <1>5 DEF Sound, Lends, d

\* grant.
LEMMA GrantSound ==
  ASSUME NEW S, NEW R, NEW U \in SUBSET S, NEW c, Sound(c, S, R), NEW s \in U
  PROVE  Sound(Grant(c, U, s), S, R) /\ Lends(c, Grant(c, U, s), S, U)
<1>1. CASE Grantable(c, U, s)
  <2>1. {s} \in SUBSET {t \in U : Grantable(c, U, t)}
    BY <1>1
  <2> QED BY <2>1, <1>1, GrantingSound DEF Grant
<1>2. CASE ~Grantable(c, U, s)
  BY <1>2 DEF Grant, Lends
<1> QED BY <1>1, <1>2

\* grant_waiting.
LEMMA OfferQueueSound ==
  ASSUME NEW S, NEW R, NEW U \in SUBSET S, NEW c, Sound(c, S, R)
  PROVE  Sound(OfferQueue(c, U), S, R) /\ Lends(c, OfferQueue(c, U), S, U)
BY GrantingSound DEF OfferQueue

\* Handing back and withdrawing.
LEMMA HandBackSound ==
  ASSUME NEW S, NEW R, NEW U \in SUBSET S, NEW c, Sound(c, S, R),
         NEW s \in S, NEW keep
  PROVE  Sound(HandBack(c, s, keep), S, R) /\ Lends(c, HandBack(c, s, keep), S, U)
<1> DEFINE d == HandBack(c, s, keep)
           wants == c[s].wants \cap keep
<1>a. c \in ClaimTable(S, R)
  BY DEF Sound
<1>1. /\ d \in ClaimTable(S, R)
      /\ d[s].holds = c[s].holds \cap keep
      /\ d[s].wants = wants
      /\ d[s].ahead = IF wants = {} THEN {} ELSE c[s].ahead
      /\ \A t \in S \ {s} : /\ d[t].holds = c[t].holds
                            /\ d[t].wants = c[t].wants
                            /\ d[t].ahead = IF wants = {} THEN c[t].ahead \ {s} ELSE c[t].ahead
  BY <1>a DEF ClaimTable, HandBack
<1> HIDE DEF d
<1>2. Whole(d, S)
  BY <1>1 DEF Sound, Whole
<1>3. Ordered(d, S)
  <2>0. /\ \A t \in S : d[t].wants \subseteq c[t].wants
        /\ \A t \in S : d[t].wants # {} => c[t].wants # {}
    BY <1>1
  <2>a. \A t \in S : d[t].ahead = IF d[t].wants = {} THEN {}
                                 ELSE IF wants = {} THEN c[t].ahead \ {s} ELSE c[t].ahead
    <3> SUFFICES ASSUME NEW t \in S
                 PROVE  d[t].ahead = IF d[t].wants = {} THEN {}
                                     ELSE IF wants = {} THEN c[t].ahead \ {s} ELSE c[t].ahead
      OBVIOUS
    <3>1. c[t].wants = {} => c[t].ahead = {}
      BY DEF Sound, Ordered
    <3>2. CASE t = s
      BY <1>1, <3>2
    <3>3. CASE t # s
      BY <1>1, <3>1, <3>3
    <3> QED BY <3>2, <3>3
  <2>b. \A t \in S : c[t].wants # {} /\ d[t].wants = {} => t = s /\ wants = {}
    BY <1>1
  <2> SUFFICES ASSUME NEW u \in S
               PROVE  /\ u \notin d[u].ahead
                      /\ \A t \in d[u].ahead :
                           /\ d[t].wants # {} /\ d[u].wants # {}
                           /\ u \notin d[t].ahead
                           /\ d[t].ahead \subseteq d[u].ahead
                      /\ \A t \in S \ {u} : d[u].wants # {} /\ d[t].wants # {}
                                             => u \in d[t].ahead \/ t \in d[u].ahead
    BY DEF Ordered
  <2>1. u \notin d[u].ahead
    <3>1. u \notin c[u].ahead
      BY DEF Sound, Ordered
    <3> QED BY <3>1, <2>a
  <2>2. ASSUME NEW t \in d[u].ahead
        PROVE  /\ d[t].wants # {} /\ d[u].wants # {}
               /\ u \notin d[t].ahead
               /\ d[t].ahead \subseteq d[u].ahead
    <3>1. d[u].wants # {} /\ t \in c[u].ahead /\ t \in S /\ (wants = {} => t # s)
      BY <2>2, <2>a, <1>a DEF ClaimTable
    <3>2. /\ c[t].wants # {} /\ u \notin c[t].ahead
          /\ c[t].ahead \subseteq c[u].ahead
      BY <3>1 DEF Sound, Ordered
    <3>3. d[t].wants # {}
      BY <3>1, <3>2, <2>b
    <3> QED BY <3>1, <3>2, <3>3, <2>a
  <2>3. ASSUME NEW t \in S \ {u}, d[u].wants # {}, d[t].wants # {}
        PROVE  u \in d[t].ahead \/ t \in d[u].ahead
    <3>1. u \in c[t].ahead \/ t \in c[u].ahead
      BY <2>3, <2>0 DEF Sound, Ordered
    <3>2. wants = {} => u # s /\ t # s
      BY <2>3, <1>1
    <3>3. CASE u \in c[t].ahead
      BY <2>3, <3>2, <3>3, <2>a
    <3>4. CASE t \in c[u].ahead
      BY <2>3, <3>2, <3>4, <2>a
    <3> QED BY <3>1, <3>3, <3>4
  <2> QED BY <2>1, <2>2, <2>3
<1>4. Lends(c, d, S, U)
  <2>1. \A t \in S : d[t].holds \subseteq c[t].holds
    BY <1>1
  <2> QED BY <2>1 DEF Lends, Apart
<1> QED BY <1>1, <1>2, <1>3, <1>4 DEF Sound, d

\* A session that hands back everything holds nothing.
LEMMA HandBackAll ==
  ASSUME NEW S, NEW R, NEW c \in ClaimTable(S, R), NEW s \in S
  PROVE  HandBack(c, s, {})[s].holds = {}
BY DEF HandBack, ClaimTable

\* release.
LEMMA ReleaseSound ==
  ASSUME NEW S, NEW R, NEW U \in SUBSET S, NEW c, Sound(c, S, R),
         NEW s \in S, NEW keep
  PROVE  Sound(Release(c, U, s, keep), S, R) /\ Lends(c, Release(c, U, s, keep), S, U)
<1>1. CASE c[s].holds \cup c[s].wants \subseteq keep
  BY <1>1 DEF Release, Lends
<1>2. CASE ~(c[s].holds \cup c[s].wants \subseteq keep)
  <2> DEFINE d == HandBack(c, s, keep)
  <2>1. Sound(d, S, R) /\ Lends(c, d, S, U)
    BY HandBackSound
  <2> HIDE DEF d
  <2>2. Sound(OfferQueue(d, U), S, R) /\ Lends(d, OfferQueue(d, U), S, U)
    BY <2>1, OfferQueueSound
  <2>3. Lends(c, OfferQueue(d, U), S, U)
    BY <2>1, <2>2 DEF Lends
  <2> QED BY <1>2, <2>2, <2>3 DEF Release, d
<1> QED BY <1>1, <1>2

\* A session that asks for nothing joins the end of the queue.
LEMMA AskSound ==
  ASSUME NEW S, NEW R, NEW U \in SUBSET S, NEW c, Sound(c, S, R),
         NEW s \in S, c[s].wants = {}, NEW names \in SUBSET R, names # {}
  PROVE  Sound(Ask(c, s, names), S, R) /\ Lends(c, Ask(c, s, names), S, U)
<1> DEFINE d == Ask(c, s, names)
<1>a. c \in ClaimTable(S, R)
  BY DEF Sound
<1>1. /\ d \in ClaimTable(S, R)
      /\ d[s].holds = {} /\ d[s].wants = names
      /\ d[s].ahead = {t \in S \ {s} : c[t].wants # {}}
      /\ \A t \in S \ {s} : d[t] = c[t]
  BY <1>a DEF ClaimTable, Ask
<1> HIDE DEF d
<1>2. Whole(d, S)
  BY <1>1 DEF Sound, Whole
<1>3. Ordered(d, S)
  BY <1>1 DEF Sound, Ordered, ClaimTable
<1>4. Lends(c, d, S, U)
  BY <1>1 DEF Lends, Apart
<1> QED BY <1>1, <1>2, <1>3, <1>4 DEF Sound, d

\* After release(db, s) the session neither holds nor waits.
LEMMA ReleaseAll ==
  ASSUME NEW S, NEW R, NEW U \in SUBSET S, NEW c, Sound(c, S, R), NEW s \in S
  PROVE  Release(c, U, s, {})[s].wants = {} /\ Release(c, U, s, {})[s].holds = {}
<1> DEFINE d == HandBack(c, s, {})
<1>1. CASE c[s].holds \cup c[s].wants \subseteq {}
  BY <1>1 DEF Release
<1>2. CASE ~(c[s].holds \cup c[s].wants \subseteq {})
  <2>1. d[s].wants = {} /\ d[s].holds = {} /\ DOMAIN d = S
    BY DEF HandBack, Sound, ClaimTable
  <2>2. OfferQueue(d, U)[s].wants = {} /\ OfferQueue(d, U)[s].holds = {}
    BY <2>1 DEF OfferQueue, Granting
  <2> QED BY <1>2, <2>2 DEF Release
<1> QED BY <1>1, <1>2

\* claim.
LEMMA ClaimSound ==
  ASSUME NEW S, NEW R, NEW U \in SUBSET S, NEW c, Sound(c, S, R),
         NEW s \in U, NEW names \in SUBSET R, names # {}
  PROVE  Sound(Claim(c, U, s, names), S, R) /\ Lends(c, Claim(c, U, s, names), S, U)
<1> DEFINE d == Release(c, U, s, {})
           e == Ask(d, s, names)
           f == Grant(e, U, s)
<1>1. Sound(d, S, R) /\ Lends(c, d, S, U)
  BY ReleaseSound
<1>2. d[s].wants = {}
  BY ReleaseAll
<1>3. Sound(e, S, R) /\ Lends(d, e, S, U)
  BY <1>1, <1>2, AskSound
<1>4. Sound(f, S, R) /\ Lends(e, f, S, U)
  BY <1>3, GrantSound
<1>5. Lends(c, f, S, U)
  <2> HIDE DEF d, e, f
  <2> QED BY <1>1, <1>3, <1>4 DEF Lends
<1>6. Lends(c, c, S, U)
  BY DEF Lends
<1> QED BY <1>4, <1>5, <1>6 DEF Claim
-----------------------------------------------------------------------------
(* First come, first served. *)

\* Between c and d, s gets what t waits for all along and asked for earlier.
Jumps(c, d, s, t) ==
  /\ s # t
  /\ (d[s].holds \ c[s].holds) \cap c[t].wants \cap d[t].wants # {}
  /\ s \notin c[t].ahead

\* Nobody who counts is overtaken by a claim that is granted.
LEMMA GrantingFair ==
  ASSUME NEW S, NEW R, NEW U \in SUBSET S, NEW c, Sound(c, S, R),
         NEW G \in SUBSET {s \in U : Grantable(c, U, s)},
         NEW s \in S, NEW t \in U
  PROVE  ~Jumps(c, Granting(c, G), s, t)
<1> SUFFICES ASSUME Jumps(c, Granting(c, G), s, t) PROVE FALSE
  OBVIOUS
<1> DEFINE d == Granting(c, G)
<1>1. c \in ClaimTable(S, R)
  BY DEF Sound
<1>2. /\ s \notin G => d[s].holds = c[s].holds
      /\ s \in G => d[s].holds = c[s].wants
  BY <1>1 DEF ClaimTable, Granting
<1> HIDE DEF d
<1>3. s \in G /\ s # t /\ c[s].wants \cap c[t].wants # {} /\ s \notin c[t].ahead
  BY <1>2 DEF Jumps, d
<1>4. t \in c[s].ahead
  BY <1>3 DEF Sound, Ordered
<1> QED BY <1>3, <1>4 DEF Grantable, Waiting

LEMMA OfferQueueFair ==
  ASSUME NEW S, NEW R, NEW U \in SUBSET S, NEW c, Sound(c, S, R), NEW s \in S, NEW t \in U
  PROVE  ~Jumps(c, OfferQueue(c, U), s, t)
BY GrantingFair DEF OfferQueue

LEMMA GrantFair ==
  ASSUME NEW S, NEW R, NEW U \in SUBSET S, NEW c, Sound(c, S, R),
         NEW u \in U, NEW s \in S, NEW t \in U
  PROVE  ~Jumps(c, Grant(c, U, u), s, t)
<1>1. CASE Grantable(c, U, u)
  <2>1. {u} \in SUBSET {v \in U : Grantable(c, U, v)}
    BY <1>1
  <2> QED BY <2>1, <1>1, GrantingFair DEF Grant
<1>2. CASE ~Grantable(c, U, u)
  BY <1>2 DEF Grant, Jumps
<1> QED BY <1>1, <1>2

\* What HandBack and OfferQueue leave of a session's record.
LEMMA HandBackShape ==
  ASSUME NEW S, NEW R, NEW c \in ClaimTable(S, R), NEW u \in S, NEW keep, NEW s \in S
  PROVE  LET d == HandBack(c, u, keep)
         IN /\ d[s].holds \subseteq c[s].holds
            /\ d[s].wants \subseteq c[s].wants
            /\ s # u => d[s].holds = c[s].holds /\ d[s].wants = c[s].wants
            /\ d[s].ahead \subseteq c[s].ahead
            /\ \A t \in c[s].ahead : d[s].wants # {} /\ d[t].wants # {} => t \in d[s].ahead
<1> DEFINE d == HandBack(c, u, keep)
           wants == c[u].wants \cap keep
<1>1. /\ d[u].holds = c[u].holds \cap keep
      /\ d[u].wants = wants
      /\ d[u].ahead = IF wants = {} THEN {} ELSE c[u].ahead
  BY DEF HandBack, ClaimTable
<1>2. s # u => /\ d[s].holds = c[s].holds
               /\ d[s].wants = c[s].wants
               /\ d[s].ahead = IF wants = {} THEN c[s].ahead \ {u} ELSE c[s].ahead
  BY DEF HandBack, ClaimTable
<1> HIDE DEF d
<1>3. \A t \in c[s].ahead : d[s].wants # {} /\ d[t].wants # {} => t \in d[s].ahead
  <2> SUFFICES ASSUME NEW t \in c[s].ahead, d[s].wants # {}, d[t].wants # {}
               PROVE  t \in d[s].ahead
    OBVIOUS
  <2>1. wants = {} => s # u /\ t # u
    BY <1>1
  <2> QED BY <2>1, <1>1, <1>2
<1> QED BY <1>1, <1>2, <1>3 DEF d

LEMMA OfferQueueShape ==
  ASSUME NEW S, NEW R, NEW U \in SUBSET S, NEW c \in ClaimTable(S, R), NEW s \in S
  PROVE  LET d == OfferQueue(c, U)
         IN /\ d[s].wants \subseteq c[s].wants
            /\ d[s].holds = c[s].holds \/ d[s].holds = c[s].wants
BY DEF OfferQueue, Granting, ClaimTable

\* Offering the queue what u handed back overtakes nobody who waited before.
LEMMA HandedBackFair ==
  ASSUME NEW S, NEW R, NEW U \in SUBSET S, NEW c, Sound(c, S, R),
         NEW u \in S, NEW keep, NEW s \in S, NEW t \in U
  PROVE  ~Jumps(c, OfferQueue(HandBack(c, u, keep), U), s, t)
<1> SUFFICES ASSUME Jumps(c, OfferQueue(HandBack(c, u, keep), U), s, t) PROVE FALSE
  OBVIOUS
<1> DEFINE d == HandBack(c, u, keep)
           e == OfferQueue(d, U)
<1>1. Sound(d, S, R) /\ c \in ClaimTable(S, R)
  BY HandBackSound DEF Sound
<1>2. /\ d[s].holds \subseteq c[s].holds /\ d[s].wants \subseteq c[s].wants
      /\ d[t].wants \subseteq c[t].wants /\ d[t].ahead \subseteq c[t].ahead
  BY <1>1, HandBackShape
<1> HIDE DEF d
<1>3. ~Jumps(d, e, s, t)
  BY <1>1, OfferQueueFair
<1>4. e[t].wants \subseteq d[t].wants
  BY <1>1, OfferQueueShape DEF Sound
<1> HIDE DEF e
<1>5. s # t /\ (e[s].holds \ c[s].holds) \cap c[t].wants \cap e[t].wants # {} /\ s \notin c[t].ahead
  BY DEF Jumps, d, e
<1>6. (e[s].holds \ d[s].holds) \cap d[t].wants \cap e[t].wants # {}
  BY <1>2, <1>4, <1>5
<1>7. s \notin d[t].ahead
  BY <1>2, <1>5
<1> QED BY <1>3, <1>5, <1>6, <1>7 DEF Jumps

\* release.
LEMMA ReleaseFair ==
  ASSUME NEW S, NEW R, NEW U \in SUBSET S, NEW c, Sound(c, S, R),
         NEW u \in S, NEW keep, NEW s \in S, NEW t \in U
  PROVE  ~Jumps(c, Release(c, U, u, keep), s, t)
<1>1. ~Jumps(c, c, s, t)
  BY DEF Jumps
<1> QED BY <1>1, HandedBackFair DEF Release

\* claim overtakes nobody but, if it waited already, the session that claims.
LEMMA ClaimFair ==
  ASSUME NEW S, NEW R, NEW U \in SUBSET S, NEW c, Sound(c, S, R),
         NEW u \in U, NEW names \in SUBSET R, names # {}, NEW s \in S, NEW t \in U, t # u
  PROVE  ~Jumps(c, Claim(c, U, u, names), s, t)
<1> SUFFICES ASSUME Jumps(c, Claim(c, U, u, names), s, t) PROVE FALSE
  OBVIOUS
<1> DEFINE d == Release(c, U, u, {})
           e == Ask(d, u, names)
           f == Grant(e, U, u)
<1>1. Sound(d, S, R)
  BY ReleaseSound
<1>2. Sound(e, S, R)
  BY <1>1, ReleaseAll, AskSound
<1>3. ~Jumps(c, d, s, t)
  BY ReleaseFair
<1>4. ~Jumps(e, f, s, t)
  BY <1>2, GrantFair
<1>5. Jumps(c, f, s, t)
  BY DEF Claim, Jumps
<1> HIDE DEF d
<1>6. /\ e[u].holds = {} /\ e[u].wants = names
      /\ e[u].ahead = {v \in S \ {u} : d[v].wants # {}}
      /\ \A v \in S \ {u} : e[v] = d[v]
  BY <1>1 DEF Ask, Sound, ClaimTable
<1> HIDE DEF e
<1>7. /\ \A v \in S \ {u} : f[v].holds = e[v].holds /\ f[v].wants = e[v].wants
      /\ f[u].holds = {} \/ f[u].holds = names
  BY <1>2, <1>6 DEF Grant, Granting, Sound, ClaimTable
<1> HIDE DEF f
<1>8. CASE s = u
  <2>1. f[u].holds = names /\ names \cap f[t].wants # {}
    BY <1>5, <1>7, <1>8 DEF Jumps
  <2>2. t \in e[u].ahead /\ u \notin e[t].ahead
    BY <1>2, <1>6, <1>7, <2>1 DEF Sound, Ordered
  <2>3. (f[u].holds \ e[u].holds) \cap e[t].wants \cap f[t].wants # {}
    BY <1>6, <1>7, <2>1
  <2> QED BY <1>4, <1>8, <2>2, <2>3 DEF Jumps
<1>9. CASE s # u
  BY <1>3, <1>5, <1>6, <1>7, <1>9 DEF Jumps
<1> QED BY <1>8, <1>9

-----------------------------------------------------------------------------
(* The line.  `ahead` orders the sessions that wait; the place of one is the *)
(* number of those ahead of it.                                              *)

QueueOf(c, S) == {s \in S : c[s].wants # {}}

LineOf(c, S) == [i \in 1..Cardinality(QueueOf(c, S)) |->
                   CHOOSE s \in QueueOf(c, S) : Cardinality(c[s].ahead) = i - 1]

\* Who waits behind another has more sessions ahead, and no two have as many.
LEMMA PlacesDiffer ==
  ASSUME NEW S, IsFiniteSet(S), NEW R, NEW c, Sound(c, S, R),
         NEW s \in QueueOf(c, S), NEW t \in QueueOf(c, S)
  PROVE  /\ IsFiniteSet(QueueOf(c, S)) /\ Cardinality(QueueOf(c, S)) \in Nat
         /\ Cardinality(c[s].ahead) \in Nat
         /\ Cardinality(c[s].ahead) < Cardinality(QueueOf(c, S))
         /\ s \in c[t].ahead => Cardinality(c[s].ahead) < Cardinality(c[t].ahead)
         /\ s # t => s \in c[t].ahead \/ t \in c[s].ahead
<1>1. IsFiniteSet(QueueOf(c, S)) /\ Cardinality(QueueOf(c, S)) \in Nat
  BY FS_Subset, FS_CardinalityType DEF QueueOf
<1>2. \A u \in QueueOf(c, S) : c[u].ahead \in SUBSET QueueOf(c, S) /\ u \notin c[u].ahead
  BY DEF Sound, Ordered, QueueOf, ClaimTable
<1>3. \A u \in QueueOf(c, S) : IsFiniteSet(c[u].ahead) /\ Cardinality(c[u].ahead) \in Nat
  BY <1>1, <1>2, FS_Subset, FS_CardinalityType
<1>4. Cardinality(c[s].ahead) < Cardinality(QueueOf(c, S))
  <2>1. c[s].ahead # QueueOf(c, S)
    BY <1>2
  <2>2. Cardinality(c[s].ahead) <= Cardinality(QueueOf(c, S))
        /\ (Cardinality(QueueOf(c, S)) = Cardinality(c[s].ahead) => QueueOf(c, S) = c[s].ahead)
    BY <1>1, <1>2, FS_Subset
  <2> QED BY <1>1, <1>3, <2>1, <2>2
<1>5. ASSUME s \in c[t].ahead PROVE Cardinality(c[s].ahead) < Cardinality(c[t].ahead)
  <2>1. c[s].ahead \in SUBSET c[t].ahead /\ s \notin c[s].ahead
    BY <1>2, <1>5 DEF Sound, Ordered, QueueOf
  <2>2. Cardinality(c[s].ahead) <= Cardinality(c[t].ahead)
        /\ (Cardinality(c[t].ahead) = Cardinality(c[s].ahead) => c[t].ahead = c[s].ahead)
    BY <1>3, <2>1, FS_Subset
  <2> QED BY <1>3, <1>5, <2>1, <2>2
<1>6. s # t => s \in c[t].ahead \/ t \in c[s].ahead
  BY DEF Sound, Ordered, QueueOf
<1> QED BY <1>1, <1>3, <1>4, <1>5, <1>6

\* As many different numbers below n as there are take every value.
LEMMA NumbersOnto ==
  ASSUME NEW Q, IsFiniteSet(Q), NEW n \in Nat, n = Cardinality(Q), NEW f \in [Q -> 0..(n - 1)],
         \A s, t \in Q : f[s] = f[t] => s = t
  PROVE  \A j \in 0..(n - 1) : \E s \in Q : f[s] = j
<1>1. f \in Injection(Q, 0..(n - 1))
  BY Fun_IsInj
<1>2. IsFiniteSet(0..(n - 1)) /\ Cardinality(0..(n - 1)) = n
  <2> DEFINE m == n - 1
  <2>1. m \in Int /\ 0 \in Int /\ (0 > m => n = 0) /\ m - 0 + 1 = n
    OBVIOUS
  <2> HIDE DEF m
  <2>2. IsFiniteSet(0..m) /\ Cardinality(0..m) = IF 0 > m THEN 0 ELSE m - 0 + 1
    BY <2>1, FS_Interval
  <2>3. Cardinality(0..m) = n
    BY <2>1, <2>2
  <2> QED BY <2>2, <2>3 DEF m
<1> DEFINE T == 0..(n - 1)
<1> HIDE DEF T
<1>3. f \in Surjection(Q, T)
  BY <1>1, <1>2, FS_Injection DEF T
<1>4. \A j \in T : \E s \in Q : f[s] = j
  BY <1>3, Fun_SurjectionProperties
<1> QED BY <1>4 DEF T

\* Every place of the line is taken, by the session with as many ahead of it.
LEMMA EveryPlaceTaken ==
  ASSUME NEW S, IsFiniteSet(S), NEW R, NEW c, Sound(c, S, R),
         NEW i \in 1..Cardinality(QueueOf(c, S))
  PROVE  \E s \in QueueOf(c, S) : Cardinality(c[s].ahead) = i - 1
<1> DEFINE Q == QueueOf(c, S)
           n == Cardinality(Q)
           f == [s \in Q |-> Cardinality(c[s].ahead)]
<1>1. IsFiniteSet(Q) /\ n \in Nat
  BY FS_Subset, FS_CardinalityType DEF QueueOf
<1>2. f \in [Q -> 0..(n - 1)]
  BY <1>1, PlacesDiffer
<1>3. \A s, t \in Q : f[s] = f[t] => s = t
  <2> SUFFICES ASSUME NEW s \in Q, NEW t \in Q, f[s] = f[t], s # t PROVE FALSE
    OBVIOUS
  <2>1. /\ Cardinality(c[s].ahead) \in Nat
        /\ s \in c[t].ahead => Cardinality(c[s].ahead) < Cardinality(c[t].ahead)
        /\ s \in c[t].ahead \/ t \in c[s].ahead
    BY PlacesDiffer
  <2>2. /\ Cardinality(c[t].ahead) \in Nat
        /\ t \in c[s].ahead => Cardinality(c[t].ahead) < Cardinality(c[s].ahead)
    BY PlacesDiffer
  <2> QED BY <2>1, <2>2
<1>4. i - 1 \in 0..(n - 1) /\ \A s \in Q : f[s] = Cardinality(c[s].ahead)
  BY <1>1
<1>5. n = Cardinality(Q)
  OBVIOUS
<1> HIDE DEF f, n
<1>6. \A j \in 0..(n - 1) : \E s \in Q : f[s] = j
  BY <1>1, <1>2, <1>3, <1>5, NumbersOnto
<1> QED BY <1>4, <1>6

\* The line is a sequence of those who wait, each after those ahead of it.
LEMMA LineShape ==
  ASSUME NEW S, IsFiniteSet(S), NEW R, NEW c, Sound(c, S, R)
  PROVE  LET l == LineOf(c, S)
             n == Cardinality(QueueOf(c, S))
         IN /\ n \in Nat /\ l \in [1..n -> QueueOf(c, S)] /\ DOMAIN l = 1..n
            /\ \A i \in 1..n : Cardinality(c[l[i]].ahead) = i - 1
            /\ \A s \in QueueOf(c, S) : /\ Cardinality(c[s].ahead) + 1 \in 1..n
                                        /\ l[Cardinality(c[s].ahead) + 1] = s
<1> DEFINE Q == QueueOf(c, S)
           l == LineOf(c, S)
           n == Cardinality(Q)
<1>1. n \in Nat
  BY FS_Subset, FS_CardinalityType DEF QueueOf
<1>2. \A i \in 1..n : l[i] \in Q /\ Cardinality(c[l[i]].ahead) = i - 1
  <2> SUFFICES ASSUME NEW i \in 1..n PROVE l[i] \in Q /\ Cardinality(c[l[i]].ahead) = i - 1
    OBVIOUS
  <2>1. l[i] = CHOOSE s \in Q : Cardinality(c[s].ahead) = i - 1
    BY DEF LineOf
  <2>2. \E s \in Q : Cardinality(c[s].ahead) = i - 1
    BY EveryPlaceTaken
  <2> QED BY <2>1, <2>2
<1>3. l \in [1..n -> Q] /\ DOMAIN l = 1..n
  BY <1>2 DEF LineOf
<1>4. ASSUME NEW s \in Q
      PROVE  Cardinality(c[s].ahead) + 1 \in 1..n /\ l[Cardinality(c[s].ahead) + 1] = s
  <2> DEFINE i == Cardinality(c[s].ahead) + 1
  <2>1. Cardinality(c[s].ahead) \in Nat /\ Cardinality(c[s].ahead) < n
    BY PlacesDiffer
  <2>2. i \in 1..n
    BY <1>1, <2>1
  <2>3. l[i] \in Q /\ Cardinality(c[l[i]].ahead) = Cardinality(c[s].ahead)
    BY <1>2, <2>1, <2>2
  <2>4. l[i] = s
    <3> SUFFICES ASSUME l[i] # s PROVE FALSE
      OBVIOUS
    <3> DEFINE t == l[i]
    <3>1. t \in Q /\ t # s /\ Cardinality(c[t].ahead) = Cardinality(c[s].ahead)
      BY <2>3
    <3> HIDE DEF t
    <3>2. s \in c[t].ahead \/ t \in c[s].ahead
      BY <3>1, PlacesDiffer
    <3>3. s \in c[t].ahead => Cardinality(c[s].ahead) < Cardinality(c[t].ahead)
      BY <3>1, PlacesDiffer
    <3>4. t \in c[s].ahead => Cardinality(c[t].ahead) < Cardinality(c[s].ahead)
      BY <3>1, PlacesDiffer
    <3> QED BY <2>1, <3>1, <3>2, <3>3, <3>4
  <2> QED BY <2>2, <2>4
<1> QED BY <1>1, <1>2, <1>3, <1>4

\* Who stands before whom in the line.
LEMMA LineOrder ==
  ASSUME NEW S, IsFiniteSet(S), NEW R, NEW c, Sound(c, S, R)
  PROVE  LET l == LineOf(c, S)
         IN /\ {l[i] : i \in DOMAIN l} = QueueOf(c, S)
            /\ \A s, t \in S : (\E i, j \in DOMAIN l : i < j /\ l[i] = s /\ l[j] = t)
                                 <=> s \in c[t].ahead
            /\ \A s \in QueueOf(c, S) :
                 QueueOf(c, S) \subseteq c[s].ahead \cup {s} => l[Len(l)] = s
<1> DEFINE Q == QueueOf(c, S)
           l == LineOf(c, S)
           n == Cardinality(Q)
<1>1. n \in Nat /\ l \in [1..n -> Q] /\ DOMAIN l = 1..n
  BY LineShape
<1>2. \A i \in 1..n : l[i] \in Q /\ Cardinality(c[l[i]].ahead) = i - 1
  BY <1>1, LineShape
<1>3. \A s \in Q : Cardinality(c[s].ahead) + 1 \in 1..n /\ l[Cardinality(c[s].ahead) + 1] = s
  BY LineShape
<1> HIDE DEF l, n, Q
<1>4. {l[i] : i \in DOMAIN l} = Q
  BY <1>1, <1>3
<1>5. ASSUME NEW s \in S, NEW t \in S, NEW i \in 1..n, NEW j \in 1..n, i < j, l[i] = s, l[j] = t
      PROVE  s \in c[t].ahead
  <2>1. s \in Q /\ t \in Q /\ Cardinality(c[s].ahead) = i - 1 /\ Cardinality(c[t].ahead) = j - 1
    BY <1>2, <1>5
  <2>2. s # t /\ (s # t => s \in c[t].ahead \/ t \in c[s].ahead)
        /\ (t \in c[s].ahead => Cardinality(c[t].ahead) < Cardinality(c[s].ahead))
    BY <1>5, <2>1, PlacesDiffer DEF Q
  <2> QED BY <1>1, <1>5, <2>1, <2>2
<1>6. ASSUME NEW s \in S, NEW t \in S, s \in c[t].ahead
      PROVE  \E i, j \in 1..n : i < j /\ l[i] = s /\ l[j] = t
  <2>1. s \in Q /\ t \in Q
    BY <1>6 DEF Sound, Ordered, QueueOf, Q
  <2>2. /\ Cardinality(c[s].ahead) < Cardinality(c[t].ahead)
        /\ Cardinality(c[s].ahead) \in Nat /\ Cardinality(c[t].ahead) \in Nat
    BY <1>6, <2>1, PlacesDiffer DEF Q
  <2>3. Cardinality(c[s].ahead) + 1 < Cardinality(c[t].ahead) + 1
    BY <2>2
  <2> QED BY <1>3, <2>1, <2>3
<1>7. ASSUME NEW s \in Q, Q \subseteq c[s].ahead \cup {s} PROVE l[Len(l)] = s
  <2>1. Len(l) = n
    BY <1>1
  <2>2. Cardinality(c[s].ahead) \in Nat /\ c[s].ahead \subseteq Q /\ s \notin c[s].ahead
    BY PlacesDiffer DEF Sound, Ordered, QueueOf, ClaimTable, Q
  <2>3. c[s].ahead = Q \ {s}
    BY <1>7, <2>2
  <2>4. IsFiniteSet(Q) /\ Cardinality(Q \ {s}) = n - 1
    BY FS_Subset, FS_RemoveElement DEF Q, QueueOf, n
  <2>5. Cardinality(c[s].ahead) + 1 = n
    BY <1>1, <2>3, <2>4
  <2>6. l[n] = s
    BY <1>3, <2>5
  <2> QED BY <2>1, <2>6
<1>8. \A s, t \in S : (\E i, j \in DOMAIN l : i < j /\ l[i] = s /\ l[j] = t) <=> s \in c[t].ahead
  BY <1>1, <1>5, <1>6
<1>9. \A s \in Q : Q \subseteq c[s].ahead \cup {s} => l[Len(l)] = s
  BY <1>7
<1> QED BY <1>4, <1>8, <1>9 DEF Q, l

-----------------------------------------------------------------------------
(* What the operations do to the line, seen by the sessions: c is the table  *)
(* before, d after, V the sessions that count then.                          *)

\* s gets the whole of names, and nobody who keeps a place before it in the
\* line, those in M aside, goes on waiting for any of it.
Gets(c, d, V, s, names, M) ==
  /\ names # {} /\ d[s].holds = names /\ d[s].wants = {}
  /\ \A t \in V \ M : t \in c[s].ahead => d[t].wants \cap names = {}

Same(c, d, s) == d[s].holds = c[s].holds /\ d[s].wants = c[s].wants

\* All but the sessions A are left what they have, what they wait for and
\* their places; who counts may be served.
Obeys(c, d, S, V, A, M) ==
  /\ \A s \in V \ A : Same(c, d, s) \/ Gets(c, d, V, s, c[s].wants, M)
  /\ \A s \in S \ (V \cup A) : d[s].wants = c[s].wants
  /\ \A s, t \in S \ A : d[s].wants # {} /\ d[t].wants # {} => (s \in d[t].ahead <=> s \in c[t].ahead)

\* s has the same sessions before and behind it.
KeepsPlace(c, d, S, s) ==
  \A t \in S : d[t].wants # {} => /\ t \in d[s].ahead <=> t \in c[s].ahead
                                  /\ s \in d[t].ahead <=> s \in c[t].ahead

LEMMA GrantingObeys ==
  ASSUME NEW S, NEW R, NEW U \in SUBSET S, NEW c, Sound(c, S, R),
         NEW G \in SUBSET {s \in U : Grantable(c, U, s)}
  PROVE  /\ Obeys(c, Granting(c, G), S, U, {}, {})
         /\ \A s \in G : Gets(c, Granting(c, G), U, s, c[s].wants, {})
         /\ \A s \in S \ G : Same(c, Granting(c, G), s) /\ KeepsPlace(c, Granting(c, G), S, s)
<1> DEFINE d == Granting(c, G)
<1>1. c \in ClaimTable(S, R)
  BY DEF Sound
<1>2. /\ \A s \in S : s \in G => /\ d[s].holds = c[s].wants
                                 /\ d[s].wants = {}
                                 /\ d[s].ahead = {}
      /\ \A s \in S : s \notin G => /\ d[s].holds = c[s].holds
                                    /\ d[s].wants = c[s].wants
                                    /\ d[s].ahead = c[s].ahead \ G
  BY <1>1 DEF ClaimTable, Granting
<1> HIDE DEF d
<1>3. ASSUME NEW s \in G PROVE Gets(c, d, U, s, c[s].wants, {})
  <2>1. s \in S /\ Grantable(c, U, s)
    OBVIOUS
  <2>2. ASSUME NEW t \in U, t \in c[s].ahead PROVE d[t].wants \cap c[s].wants = {}
    <3>1. d[t].wants \subseteq c[t].wants
      BY <1>2, <2>2
    <3>2. c[t].wants # {} /\ t # s
      BY <2>1, <2>2 DEF Sound, Ordered
    <3> QED BY <2>1, <2>2, <3>1, <3>2 DEF Grantable, Waiting
  <2> QED BY <1>2, <2>1, <2>2 DEF Gets, Grantable
<1>4. \A s \in S \ G : Same(c, d, s)
  BY <1>2 DEF Same
<1>5. \A s, t \in S : d[s].wants # {} /\ d[t].wants # {} => (s \in d[t].ahead <=> s \in c[t].ahead)
  BY <1>2
<1>6. ASSUME NEW s \in S \ G PROVE KeepsPlace(c, d, S, s)
  <2>1. ASSUME NEW t \in S, d[t].wants # {} PROVE t \notin G
    BY <1>2, <2>1
  <2> QED BY <1>2, <2>1 DEF KeepsPlace
<1>7. \A s \in S \ U : d[s].wants = c[s].wants
  BY <1>2
<1> QED BY <1>3, <1>4, <1>5, <1>6, <1>7 DEF Obeys, d

\* grant_waiting.
LEMMA OfferQueueObeys ==
  ASSUME NEW S, NEW R, NEW U \in SUBSET S, NEW c, Sound(c, S, R)
  PROVE  /\ Obeys(c, OfferQueue(c, U), S, U, {}, {})
         /\ \A s \in S : \/ s \in U /\ Gets(c, OfferQueue(c, U), U, s, c[s].wants, {})
                         \/ Same(c, OfferQueue(c, U), s) /\ KeepsPlace(c, OfferQueue(c, U), S, s)
BY GrantingObeys DEF OfferQueue

\* grant.
LEMMA GrantObeys ==
  ASSUME NEW S, NEW R, NEW U \in SUBSET S, NEW c, Sound(c, S, R), NEW s \in U
  PROVE  \/ Grant(c, U, s) = c
         \/ /\ Gets(c, Grant(c, U, s), U, s, c[s].wants, {})
            /\ \A t \in S \ {s} : Same(c, Grant(c, U, s), t) /\ KeepsPlace(c, Grant(c, U, s), S, t)
            /\ \A t \in U : c[t].wants \cap c[s].wants # {} => t \notin c[s].ahead
<1>1. CASE Grantable(c, U, s)
  <2>1. {s} \in SUBSET {v \in U : Grantable(c, U, v)}
    BY <1>1
  <2>2. /\ Gets(c, Granting(c, {s}), U, s, c[s].wants, {})
        /\ \A t \in S \ {s} : Same(c, Granting(c, {s}), t) /\ KeepsPlace(c, Granting(c, {s}), S, t)
    BY <2>1, GrantingObeys
  <2>3. Grant(c, U, s) = Granting(c, {s})
    BY <1>1 DEF Grant
  <2>4. \A t \in U : c[t].wants \cap c[s].wants # {} => t \notin c[s].ahead
    BY <1>1 DEF Grantable, Waiting
  <2> QED BY <2>2, <2>3, <2>4
<1>2. CASE ~Grantable(c, U, s)
  BY <1>2 DEF Grant
<1> QED BY <1>1, <1>2

\* What is left after handing something back, for whoever counts.
LEMMA HandBackObeys ==
  ASSUME NEW S, NEW R, NEW c, Sound(c, S, R), NEW s \in S, NEW keep
  PROVE  LET d == HandBack(c, s, keep)
         IN /\ \A t \in S \ {s} : Same(c, d, t)
            /\ d[s].holds = c[s].holds \cap keep /\ d[s].wants = c[s].wants \cap keep
            /\ \A t, u \in S : d[t].wants # {} /\ d[u].wants # {} => (t \in d[u].ahead <=> t \in c[u].ahead)
            /\ \A t \in S \ {s}, u \in S : u # s => (u \in d[t].ahead <=> u \in c[t].ahead)
            /\ d[s].wants # {} => KeepsPlace(c, d, S, s)
<1> DEFINE d == HandBack(c, s, keep)
           wants == c[s].wants \cap keep
<1>a. c \in ClaimTable(S, R)
  BY DEF Sound
<1>1. /\ d[s].holds = c[s].holds \cap keep
      /\ d[s].wants = wants
      /\ d[s].ahead = IF wants = {} THEN {} ELSE c[s].ahead
  BY <1>a DEF HandBack, ClaimTable
<1>2. \A t \in S \ {s} : /\ d[t].holds = c[t].holds
                         /\ d[t].wants = c[t].wants
                         /\ d[t].ahead = IF wants = {} THEN c[t].ahead \ {s} ELSE c[t].ahead
  BY <1>a DEF HandBack, ClaimTable
<1> HIDE DEF d, wants
<1>3. \A t \in S \ {s} : Same(c, d, t)
  BY <1>2 DEF Same
<1>4. \A t, u \in S : d[t].wants # {} /\ d[u].wants # {} => (t \in d[u].ahead <=> t \in c[u].ahead)
  BY <1>1, <1>2
<1>5. \A t \in S \ {s}, u \in S : u # s => (u \in d[t].ahead <=> u \in c[t].ahead)
  BY <1>2
<1>6. d[s].wants # {} => KeepsPlace(c, d, S, s)
  BY <1>1, <1>2 DEF KeepsPlace
<1> QED BY <1>1, <1>3, <1>4, <1>5, <1>6 DEF d, wants

\* release.
LEMMA ReleaseObeys ==
  ASSUME NEW S, NEW R, NEW U \in SUBSET S, NEW c, Sound(c, S, R), NEW s \in U, NEW keep
  PROVE  LET d == Release(c, U, s, keep)
         IN /\ Obeys(c, d, S, U, {s}, {})
            /\ \/ /\ d[s].holds = c[s].holds \cap keep /\ d[s].wants = c[s].wants \cap keep
                  /\ d[s].wants # {} => KeepsPlace(c, d, S, s)
               \/ Gets(c, d, U, s, c[s].wants \cap keep, {})
<1>1. CASE c[s].holds \cup c[s].wants \subseteq keep
  <2>1. Release(c, U, s, keep) = c
    BY <1>1 DEF Release
  <2>2. c[s].holds = c[s].holds \cap keep /\ c[s].wants = c[s].wants \cap keep
    BY <1>1
  <2> QED BY <2>1, <2>2 DEF Obeys, Same, KeepsPlace
<1>2. CASE ~(c[s].holds \cup c[s].wants \subseteq keep)
  <2> DEFINE d == HandBack(c, s, keep)
             e == OfferQueue(d, U)
  <2>0. s \in S
    OBVIOUS
  <2>1. /\ Sound(d, S, R)
        /\ \A t \in S \ {s} : Same(c, d, t)
        /\ d[s].holds = c[s].holds \cap keep /\ d[s].wants = c[s].wants \cap keep
        /\ \A t, u \in S : d[t].wants # {} /\ d[u].wants # {} => (t \in d[u].ahead <=> t \in c[u].ahead)
        /\ d[s].wants # {} => KeepsPlace(c, d, S, s)
    <3>1. Sound(d, S, R)
      BY <2>0, HandBackSound
    <3>2. /\ \A t \in S \ {s} : Same(c, d, t)
          /\ d[s].holds = c[s].holds \cap keep /\ d[s].wants = c[s].wants \cap keep
          /\ \A t, u \in S : d[t].wants # {} /\ d[u].wants # {} => (t \in d[u].ahead <=> t \in c[u].ahead)
          /\ d[s].wants # {} => KeepsPlace(c, d, S, s)
      BY <2>0, HandBackObeys
    <3> QED BY <3>1, <3>2
  <2> HIDE DEF d
  <2>2. \A t \in S : \/ t \in U /\ Gets(d, e, U, t, d[t].wants, {})
                     \/ Same(d, e, t) /\ KeepsPlace(d, e, S, t)
    BY <2>1, OfferQueueObeys
  <2>3. \A t, u \in S : e[t].wants # {} /\ e[u].wants # {} => (t \in e[u].ahead <=> t \in d[u].ahead)
    BY <2>1, OfferQueueObeys DEF Obeys
  <2> HIDE DEF e
  <2>4. \A t \in S : e[t].wants # {} => d[t].wants # {}
    BY <2>2 DEF Gets, Same
  <2>5. ASSUME NEW t \in S, Gets(d, e, U, t, d[t].wants, {}) PROVE Gets(c, e, U, t, d[t].wants, {})
    <3>1. ASSUME NEW v \in U, v \in c[t].ahead PROVE e[v].wants \cap d[t].wants = {}
      <4>1. CASE e[v].wants = {}
        BY <4>1
      <4>2. CASE e[v].wants # {}
        <5>1. d[v].wants # {} /\ d[t].wants # {} /\ v \in S
          BY <2>4, <2>5, <4>2 DEF Gets
        <5>2. v \in d[t].ahead
          BY <2>1, <3>1, <5>1
        <5> QED BY <2>5, <5>2 DEF Gets
      <4> QED BY <4>1, <4>2
    <3> QED BY <2>5, <3>1 DEF Gets
  <2>6. Obeys(c, e, S, U, {s}, {})
    <3>1. ASSUME NEW t \in U \ {s} PROVE Same(c, e, t) \/ Gets(c, e, U, t, c[t].wants, {})
      <4>1. t \in S /\ Same(c, d, t)
        BY <2>1
      <4> QED BY <2>2, <2>5, <4>1 DEF Same
    <3>2. \A t \in S \ (U \cup {s}) : e[t].wants = c[t].wants
      BY <2>1, <2>2 DEF Same
    <3>3. \A t, u \in S \ {s} : e[t].wants # {} /\ e[u].wants # {} => (t \in e[u].ahead <=> t \in c[u].ahead)
      BY <2>1, <2>3, <2>4
    <3> QED BY <3>1, <3>2, <3>3 DEF Obeys
  <2>7. CASE Gets(d, e, U, s, d[s].wants, {})
    <3>1. Gets(c, e, U, s, c[s].wants \cap keep, {})
      BY <2>0, <2>1, <2>5, <2>7
    <3> QED BY <1>2, <2>6, <3>1 DEF Release, d, e
  <2>8. CASE Same(d, e, s) /\ KeepsPlace(d, e, S, s)
    <3>1. e[s].holds = c[s].holds \cap keep /\ e[s].wants = c[s].wants \cap keep
      BY <2>1, <2>8 DEF Same
    <3>2. e[s].wants # {} => KeepsPlace(c, e, S, s)
      BY <2>0, <2>1, <2>4, <2>8 DEF KeepsPlace
    <3> QED BY <1>2, <2>6, <3>1, <3>2 DEF Release, d, e
  <2> QED BY <2>0, <2>2, <2>7, <2>8
<1> QED BY <1>1, <1>2

\* s, which asked, has what no one who counts waits for, or is last in the
\* line with nothing.
Asked(c, d, S, V, s) ==
  \/ d[s].wants = {} /\ \A t \in V : d[t].wants \cap (d[s].holds \ c[s].holds) = {}
  \/ /\ d[s].wants # {} /\ d[s].holds = {}
     /\ \A t \in S \ {s} : d[t].wants # {} => t \in d[s].ahead

\* claim.
LEMMA ClaimObeys ==
  ASSUME NEW S, NEW R, NEW U \in SUBSET S, NEW c, Sound(c, S, R),
         NEW s \in U, NEW names \in SUBSET R, names # {}
  PROVE  /\ Obeys(c, Claim(c, U, s, names), S, U, {s}, {s})
         /\ Asked(c, Claim(c, U, s, names), S, U, s)
<1>1. CASE c[s].holds = names
  <2>1. Claim(c, U, s, names) = c
    BY <1>1 DEF Claim
  <2>2. c[s].wants = {}
    BY <1>1 DEF Sound, Whole
  <2> QED BY <2>1, <2>2 DEF Obeys, Same, Asked
<1>2. CASE c[s].holds # names
  <2> DEFINE d == Release(c, U, s, {})
             e == Ask(d, s, names)
             f == Grant(e, U, s)
  <2>0. s \in S
    OBVIOUS
  <2>1. Sound(d, S, R) /\ d[s].wants = {}
    BY <2>0, ReleaseSound, ReleaseAll
  <2>2. Obeys(c, d, S, U, {s}, {})
    BY ReleaseObeys
  <2> HIDE DEF d
  <2>3. Sound(e, S, R)
    BY <2>0, <2>1, AskSound
  <2>4. /\ e[s].holds = {} /\ e[s].wants = names
        /\ e[s].ahead = {t \in S \ {s} : d[t].wants # {}}
        /\ \A t \in S \ {s} : e[t] = d[t]
    BY <2>0, <2>1 DEF Ask, Sound, ClaimTable
  <2> HIDE DEF e
  <2>5. \/ f = e
        \/ /\ Gets(e, f, U, s, e[s].wants, {})
           /\ \A t \in S \ {s} : Same(e, f, t) /\ KeepsPlace(e, f, S, t)
           /\ \A t \in U : e[t].wants \cap e[s].wants # {} => t \notin e[s].ahead
    BY <2>3, GrantObeys
  <2> HIDE DEF f
  <2>6. \A t \in S \ {s} : f[t].holds = d[t].holds /\ f[t].wants = d[t].wants
    BY <2>4, <2>5 DEF Same
  <2>7. \A t, u \in S \ {s} : f[t].wants # {} /\ f[u].wants # {} => (t \in f[u].ahead <=> t \in d[u].ahead)
    BY <2>4, <2>5 DEF KeepsPlace
  <2>8. Obeys(c, f, S, U, {s}, {s})
    <3>1. ASSUME NEW t \in U \ {s} PROVE Same(c, f, t) \/ Gets(c, f, U, t, c[t].wants, {s})
      <4>1. t \in S \ {s} /\ U \subseteq S
        OBVIOUS
      <4>2. Same(c, d, t) \/ Gets(c, d, U, t, c[t].wants, {})
        BY <2>2 DEF Obeys
      <4> QED BY <2>6, <4>1, <4>2 DEF Same, Gets
    <3>2. \A t \in S \ (U \cup {s}) : f[t].wants = c[t].wants
      BY <2>2, <2>6 DEF Obeys
    <3>3. \A t, u \in S \ {s} : f[t].wants # {} /\ f[u].wants # {} => (t \in f[u].ahead <=> t \in c[u].ahead)
      BY <2>2, <2>6, <2>7 DEF Obeys
    <3> QED BY <3>1, <3>2, <3>3 DEF Obeys
  <2>9. CASE f = e
    <3>1. f[s].wants # {} /\ f[s].holds = {} /\ \A t \in S \ {s} : f[t].wants # {} => t \in f[s].ahead
      BY <2>4, <2>9
    <3> QED BY <1>2, <2>8, <3>1 DEF Asked, Claim, d, e, f
  <2>10. CASE /\ Gets(e, f, U, s, e[s].wants, {})
              /\ \A t \in U : e[t].wants \cap e[s].wants # {} => t \notin e[s].ahead
    <3>1. f[s].wants = {} /\ f[s].holds = names
      BY <2>4, <2>10 DEF Gets
    <3>2. ASSUME NEW t \in U PROVE f[t].wants \cap names = {}
      <4>1. CASE t = s
        BY <3>1, <4>1
      <4>2. CASE t # s
        <5>1. t \in S \ {s} /\ f[t].wants = e[t].wants /\ e[t] = d[t]
          BY <2>4, <2>6, <4>2
        <5>2. e[t].wants \cap names # {} => d[t].wants # {} /\ t \notin e[s].ahead
          BY <2>4, <2>10, <5>1
        <5> QED BY <2>4, <5>1, <5>2
      <4> QED BY <4>1, <4>2
    <3>3. \A t \in U : f[t].wants \cap (f[s].holds \ c[s].holds) = {}
      BY <3>1, <3>2
    <3> QED BY <1>2, <2>8, <3>1, <3>3 DEF Asked, Claim, d, e, f
  <2> QED BY <2>5, <2>9, <2>10
<1> QED BY <1>1, <1>2

-----------------------------------------------------------------------------
(* The loop of grant_waiting                                               *)

\* Every non-empty set of naturals has a least element.
LEMMA LeastNat ==
  ASSUME NEW T \in SUBSET Nat, T # {}
  PROVE  \E n \in T : \A m \in T : n <= m
<1> DEFINE R == OpToRel(<, Nat)
<1>1. IsWellFoundedOn(R, Nat)
  BY NatLessThanWellFounded
<1>2. \A x, y \in Nat : x < y => <<x, y>> \in R
  BY DEF OpToRel
<1> HIDE DEF R
<1>3. PICK n \in T : \A y \in T : ~(<<y, n>> \in R)
  BY <1>1, WFMin
<1>4. \A m \in T : ~(m < n)
  BY <1>2, <1>3
<1>5. n \in Nat /\ \A m \in T : m \in Nat
  OBVIOUS
<1> QED BY <1>4, <1>5

\* The claims that count and can be granted.
Grantables(c, U) == {s \in U : Grantable(c, U, s)}

\* Granting a claim makes no other grantable, and leaves no other less so.
LEMMA OneGrantLess ==
  ASSUME NEW S, NEW R, NEW U \in SUBSET S, NEW c, Sound(c, S, R),
         NEW s \in U, Grantable(c, U, s)
  PROVE  Grantables(Granting(c, {s}), U) = Grantables(c, U) \ {s}
<1> DEFINE d == Granting(c, {s})
<1>a. c \in ClaimTable(S, R)
  BY DEF Sound
<1>1. /\ d[s].holds = c[s].wants /\ d[s].wants = {}
      /\ \A t \in S \ {s} : /\ d[t].holds = c[t].holds
                            /\ d[t].wants = c[t].wants
                            /\ d[t].ahead = c[t].ahead \ {s}
  BY <1>a DEF ClaimTable, Granting
<1> HIDE DEF d
<1>2. c[s].wants # {} /\ c[s].holds = {}
  BY DEF Grantable, Sound, Whole
<1>3. ~Grantable(d, U, s)
  BY <1>1 DEF Grantable
<1>4. ASSUME NEW t \in U \ {s}
      PROVE  Grantable(d, U, t) <=> Grantable(c, U, t)
  <2>0. s # t /\ s \in S /\ t \in S
    OBVIOUS
  <2>1. Waiting(d, U) \cap d[t].ahead = (Waiting(c, U) \cap c[t].ahead) \ {s}
    BY <1>1 DEF Waiting
  <2>2. \A u \in Waiting(d, U) : d[u].wants = c[u].wants
    BY <1>1 DEF Waiting
  <2>3. HeldByOthers(d, U, t) = HeldByOthers(c, U, t) \cup c[s].wants
    <3>1. \A u \in U \ {t} : d[u].holds = IF u = s THEN c[s].wants ELSE c[u].holds
      BY <1>1
    <3> QED BY <3>1, <1>2, <2>0 DEF HeldByOthers
  <2>4. d[t].wants = c[t].wants
    BY <1>1
  <2>5. ASSUME Grantable(c, U, t) PROVE Grantable(d, U, t)
    <3>1. c[t].wants # {}
      BY <2>5 DEF Grantable
    <3>2. s \in c[t].ahead \/ t \in c[s].ahead
      BY <3>1, <1>2, <2>0 DEF Sound, Ordered
    <3>3. s \in Waiting(c, U) /\ t \in Waiting(c, U)
      BY <3>1, <1>2 DEF Waiting
    <3>4. c[s].wants \cap c[t].wants = {}
      BY <2>5, <3>2, <3>3 DEF Grantable
    <3> QED BY <2>5, <3>4, <2>1, <2>2, <2>3, <2>4 DEF Grantable
  <2>6. ASSUME Grantable(d, U, t) PROVE Grantable(c, U, t)
    <3>1. c[t].wants \cap c[s].wants = {} /\ c[t].wants \cap HeldByOthers(c, U, t) = {} /\ c[t].wants # {}
      BY <2>6, <2>3, <2>4 DEF Grantable
    <3>2. \A u \in (Waiting(c, U) \cap c[t].ahead) \ {s} : c[u].wants \cap c[t].wants = {}
      BY <2>6, <2>1, <2>2, <2>4 DEF Grantable
    <3> QED BY <3>1, <3>2 DEF Grantable
  <2> QED BY <2>5, <2>6
<1> QED BY <1>3, <1>4 DEF Grantables, d

\* From c to d a claim of s was offered: what is left to offer comes to the same.
OfferedTo(c, d, U, s) ==
  /\ Grantables(d, U) = Grantables(c, U) \ {s}
  /\ OfferQueue(d, U) = OfferQueue(c, U)

\* Whether a claim is offered before the others or with them is the same.
LEMMA OfferedLater ==
  ASSUME NEW S, NEW R, NEW U \in SUBSET S, NEW c, Sound(c, S, R), NEW s \in U
  PROVE  OfferedTo(c, Grant(c, U, s), U, s)
<1>1. CASE ~Grantable(c, U, s)
  BY <1>1 DEF Grant, Grantables, OfferedTo
<1>2. CASE Grantable(c, U, s)
  <2> DEFINE d == Granting(c, {s})
             G == Grantables(c, U)
  <2>1. Grantables(d, U) = G \ {s}
    BY <1>2, OneGrantLess
  <2>2. Granting(d, G \ {s}) = Granting(c, G)
    <3>1. s \in G
      BY <1>2 DEF Grantables
    <3> HIDE DEF G
    <3>2. c \in ClaimTable(S, R)
      BY DEF Sound
    <3>3. DOMAIN d = S /\ DOMAIN c = S
      BY <3>2 DEF ClaimTable, Granting
    <3>4. ASSUME NEW t \in S
          PROVE  Granting(d, G \ {s})[t] = Granting(c, G)[t]
      <4>1. CASE t = s
        <5>1. d[s] = [holds |-> c[s].wants, wants |-> {}, ahead |-> {}] /\ s \in DOMAIN d
          BY <3>2 DEF Granting, ClaimTable
        <5>2. Granting(d, G \ {s})[s] = [d[s] EXCEPT !.ahead = @ \ (G \ {s})]
          <6> HIDE DEF d
          <6> QED BY <5>1 DEF Granting
        <5>3. [d[s] EXCEPT !.ahead = @ \ (G \ {s})] = [holds |-> c[s].wants, wants |-> {}, ahead |-> {}]
          <6> HIDE DEF d
          <6> QED BY <5>1
        <5>4. Granting(c, G)[s] = [holds |-> c[s].wants, wants |-> {}, ahead |-> {}]
          BY <3>1, <3>2 DEF Granting, ClaimTable
        <5> QED BY <4>1, <5>2, <5>3, <5>4
      <4>2. CASE t # s /\ t \in G
        BY <4>2, <3>1, <3>2 DEF Granting, ClaimTable
      <4>3. CASE t # s /\ t \notin G
        <5>1. d[t] = [c[t] EXCEPT !.ahead = @ \ {s}] /\ t \in DOMAIN d
          BY <4>3, <3>3 DEF Granting
        <5>2. Granting(d, G \ {s})[t] = [d[t] EXCEPT !.ahead = @ \ (G \ {s})]
          <6> HIDE DEF d
          <6> QED BY <4>3, <5>1 DEF Granting
        <5>3. Granting(c, G)[t] = [c[t] EXCEPT !.ahead = @ \ G]
          BY <4>3, <3>3 DEF Granting
        <5>4. (c[t].ahead \ {s}) \ (G \ {s}) = c[t].ahead \ G
          BY <3>1
        <5>5. c[t] \in [holds : SUBSET R, wants : SUBSET R, ahead : SUBSET S]
          BY <3>2 DEF ClaimTable
        <5> HIDE DEF d
        <5> QED BY <5>1, <5>2, <5>3, <5>4, <5>5
      <4> QED BY <4>1, <4>2, <4>3
    <3> QED BY <3>3, <3>4 DEF Granting
  <2>3. Grant(c, U, s) = d
    BY <1>2 DEF Grant
  <2> HIDE DEF d
  <2>4. OfferQueue(d, U) = Granting(d, Grantables(d, U))
    BY DEF OfferQueue, Grantables
  <2>5. OfferQueue(c, U) = Granting(c, G)
    BY DEF OfferQueue, Grantables
  <2> QED BY <2>1, <2>2, <2>3, <2>4, <2>5 DEF OfferedTo
<1> QED BY <1>1, <1>2

\* A queue with nothing to grant is left as it is.
LEMMA NothingToOffer ==
  ASSUME NEW S, NEW R, NEW U \in SUBSET S, NEW c, Sound(c, S, R), Grantables(c, U) = {}
  PROVE  OfferQueue(c, U) = c
<1>1. c \in ClaimTable(S, R)
  BY DEF Sound
<1>2. OfferQueue(c, U) = [s \in S |-> [c[s] EXCEPT !.ahead = @ \ {}]]
  BY <1>1 DEF OfferQueue, Granting, Grantables, ClaimTable
<1>3. \A s \in S : [c[s] EXCEPT !.ahead = @ \ {}] = c[s]
  BY <1>1 DEF ClaimTable
<1> QED BY <1>1, <1>2, <1>3 DEF ClaimTable

\* One by one, in any order: whoever is offered its claim first, a pass over
\* all that wait grants the claims that were grantable when it began.  So
\* OfferQueue is the loop of grant_waiting, and its order decides nothing
\* (resource_manager.py:532-535).
THEOREM OneByOneIsAtOnce ==
  ASSUME NEW S, NEW R, NEW U \in SUBSET S, NEW c, Sound(c, S, R),
         NEW n \in Nat, NEW queue \in [1..n -> U],
         \A s \in Waiting(c, U) : \E i \in 1..n : queue[i] = s,
         NEW loop, loop[0] = c,
         \A i \in 1..n : loop[i] = Grant(loop[i - 1], U, queue[i])
  PROVE  loop[n] = OfferQueue(c, U)
<1> DEFINE Fine(i) == /\ Sound(loop[i], S, R)
                      /\ OfferQueue(loop[i], U) = OfferQueue(c, U)
                      /\ Grantables(loop[i], U) \subseteq Grantables(c, U)
                      /\ \A j \in 1..i : queue[j] \notin Grantables(loop[i], U)
           Wrong == {i \in 0..n : ~Fine(i)}
<1>1. Fine(0)
  OBVIOUS
<1>2. ASSUME NEW i \in 1..n, Fine(i - 1) PROVE Fine(i)
  <2>1. queue[i] \in U /\ loop[i] = Grant(loop[i - 1], U, queue[i])
    OBVIOUS
  <2>2. Sound(loop[i], S, R)
    BY <1>2, <2>1, GrantSound
  <2>3. /\ Grantables(loop[i], U) = Grantables(loop[i - 1], U) \ {queue[i]}
        /\ OfferQueue(loop[i], U) = OfferQueue(loop[i - 1], U)
    <3>1. OfferedTo(loop[i - 1], loop[i], U, queue[i])
      BY <1>2, <2>1, OfferedLater
    <3> QED BY <3>1 DEF OfferedTo
  <2>4. \A j \in 1..i : j = i \/ j \in 1..(i - 1)
    OBVIOUS
  <2> QED BY <1>2, <2>2, <2>3, <2>4
<1>3. Wrong = {}
  <2> SUFFICES ASSUME Wrong # {} PROVE FALSE
    OBVIOUS
  <2>1. Wrong \in SUBSET Nat
    OBVIOUS
  <2>2. PICK i \in Wrong : \A j \in Wrong : i <= j
    BY <2>1, LeastNat
  <2>3. i \in 0..n /\ ~Fine(i)
    BY <2>2
  <2>4. i # 0
    BY <2>3, <1>1
  <2>5. i \in 1..n /\ i - 1 \in 0..n /\ ~(i <= i - 1)
    BY <2>3, <2>4
  <2>6. Fine(i - 1)
    BY <2>2, <2>5
  <2> QED BY <2>3, <2>5, <2>6, <1>2
<1>4. Fine(n)
  BY <1>3
<1>5. Grantables(loop[n], U) = {}
  <2>1. Grantables(c, U) \subseteq Waiting(c, U)
    BY DEF Grantables, Grantable, Waiting
  <2> QED BY <1>4, <2>1
<1> QED BY <1>4, <1>5, NothingToOffer

-----------------------------------------------------------------------------
(* Who waits for whom                                                      *)

\* t holds, or asked earlier for, some of what s waits for.
Stands(c, t, s) ==
  \/ c[s].wants \cap c[t].holds # {}
  \/ t \in c[s].ahead /\ c[s].wants \cap c[t].wants # {}

\* In a sound queue no sessions wait for one another: of those that wait, the
\* one with the fewest ahead of it waits for none of them.
LEMMA NoCircle ==
  ASSUME NEW S, NEW R, NEW c, Sound(c, S, R), IsFiniteSet(S),
         NEW D \in SUBSET S, D # {}
  PROVE  \E s \in D : \A t \in D : ~Stands(c, t, s)
<1>1. CASE \E s \in D : c[s].wants = {}
  BY <1>1 DEF Stands
<1>2. CASE \A s \in D : c[s].wants # {}
  <2> DEFINE T == {Cardinality(c[s].ahead) : s \in D}
  <2>1. \A s \in S : IsFiniteSet(c[s].ahead) /\ Cardinality(c[s].ahead) \in Nat
    <3>1. \A s \in S : c[s].ahead \subseteq S
      BY DEF Sound, ClaimTable
    <3> QED BY <3>1, FS_Subset, FS_CardinalityType
  <2>2. T \in SUBSET Nat /\ T # {}
    BY <2>1
  <2>3. PICK n \in T : \A m \in T : n <= m
    BY <2>2, LeastNat
  <2>4. PICK s \in D : n = Cardinality(c[s].ahead)
    BY <2>3
  <2>5. \A t \in D : Cardinality(c[s].ahead) <= Cardinality(c[t].ahead)
    BY <2>3, <2>4
  <2>6. ASSUME NEW t \in D, t \in c[s].ahead PROVE FALSE
    <3>1. c[t].ahead \subseteq c[s].ahead /\ t \notin c[t].ahead
      BY <2>6 DEF Sound, Ordered
    <3>2. Cardinality(c[t].ahead) < Cardinality(c[s].ahead)
      BY <3>1, <2>1, <2>6, FS_Subset
    <3> QED BY <3>2, <2>1, <2>5
  <2>7. \A t \in D : c[t].holds = {}
    BY <1>2 DEF Sound, Whole
  <2> QED BY <2>6, <2>7 DEF Stands
<1> QED BY <1>1, <1>2

-----------------------------------------------------------------------------
(* What the operations leave behind that could be granted                  *)

\* Who counts besides can only stand in the way.
LEMMA FewerCount ==
  ASSUME NEW c, NEW U, NEW V, U \subseteq V, NEW t, Grantable(c, V, t)
  PROVE  Grantable(c, U, t)
<1>1. Waiting(c, U) \subseteq Waiting(c, V) /\ HeldByOthers(c, U, t) \subseteq HeldByOthers(c, V, t)
  BY DEF Waiting, HeldByOthers
<1> QED BY <1>1 DEF Grantable

\* grant_waiting leaves nothing that could be granted.
LEMMA NothingLeft ==
  ASSUME NEW S, NEW R, NEW U \in SUBSET S, NEW c, Sound(c, S, R)
  PROVE  Grantables(OfferQueue(c, U), U) = {}
<1> DEFINE G == Grantables(c, U)
           d == OfferQueue(c, U)
<1>a. c \in ClaimTable(S, R)
  BY DEF Sound
<1>1. \A s \in S : /\ s \in G => d[s].holds = c[s].wants /\ d[s].wants = {}
                   /\ s \notin G => /\ d[s].holds = c[s].holds
                                    /\ d[s].wants = c[s].wants
                                    /\ d[s].ahead = c[s].ahead \ G
  BY <1>a DEF OfferQueue, Granting, ClaimTable, Grantables
<1> HIDE DEF d
<1>2. SUFFICES ASSUME NEW s \in U, Grantable(d, U, s) PROVE FALSE
  BY DEF Grantables, d
<1>3. s \notin G /\ d[s].wants = c[s].wants /\ c[s].wants # {} /\ s \in S
  BY <1>1, <1>2 DEF Grantable
<1>4. ~Grantable(c, U, s)
  BY <1>3 DEF Grantables
<1>5. CASE c[s].wants \cap HeldByOthers(c, U, s) # {}
  <2>1. PICK u \in U \ {s} : c[s].wants \cap c[u].holds # {}
    BY <1>5 DEF HeldByOthers
  <2>2. u \in S /\ c[u].wants = {}
    BY <2>1 DEF Sound, Whole
  <2>3. u \notin G
    BY <2>2 DEF Grantables, Grantable
  <2>4. d[u].holds = c[u].holds
    BY <1>1, <2>2, <2>3
  <2> QED BY <1>2, <1>3, <2>1, <2>4 DEF Grantable, HeldByOthers
<1>6. CASE \E t \in Waiting(c, U) \cap c[s].ahead : c[t].wants \cap c[s].wants # {}
  <2>1. PICK t \in Waiting(c, U) \cap c[s].ahead : c[t].wants \cap c[s].wants # {}
    BY <1>6
  <2>2. t \in U /\ t \in S /\ t # s
    BY <1>3, <2>1 DEF Waiting, Sound, Ordered
  <2>3. CASE t \in G
    <3>1. d[t].holds = c[t].wants
      BY <1>1, <2>2, <2>3
    <3> QED BY <1>2, <1>3, <2>1, <2>2, <3>1 DEF Grantable, HeldByOthers
  <2>4. CASE t \notin G
    <3>1. d[t].wants = c[t].wants /\ t \in d[s].ahead
      BY <1>1, <1>3, <2>1, <2>2, <2>4
    <3>2. t \in Waiting(d, U)
      BY <2>1, <2>2, <3>1 DEF Waiting
    <3> QED BY <1>2, <1>3, <2>1, <3>1, <3>2 DEF Grantable
  <2> QED BY <2>3, <2>4
<1> QED BY <1>3, <1>4, <1>5, <1>6 DEF Grantable

\* release offers what it frees.
LEMMA ReleaseLeaves ==
  ASSUME NEW S, NEW R, NEW U \in SUBSET S, NEW c, Sound(c, S, R), NEW s \in S, NEW keep
  PROVE  Grantables(Release(c, U, s, keep), U) \subseteq Grantables(c, U)
<1>1. CASE c[s].holds \cup c[s].wants \subseteq keep
  BY <1>1 DEF Release
<1>2. CASE ~(c[s].holds \cup c[s].wants \subseteq keep)
  <2>1. Sound(HandBack(c, s, keep), S, R)
    BY HandBackSound
  <2> QED BY <1>2, <2>1, NothingLeft DEF Release
<1> QED BY <1>1, <1>2

\* claim lends to nobody but the session that asks, and it asks last.
LEMMA ClaimLeaves ==
  ASSUME NEW S, NEW R, NEW U \in SUBSET S, NEW c, Sound(c, S, R), NEW s \in U,
         NEW names \in SUBSET R, names # {}
  PROVE  Grantables(Claim(c, U, s, names), U) \subseteq Grantables(c, U)
<1>1. CASE c[s].holds = names
  BY <1>1 DEF Claim
<1>2. CASE c[s].holds # names
  <2> DEFINE e == Release(c, U, s, {})
             d == Ask(e, s, names)
  <2>1. Sound(e, S, R) /\ Grantables(e, U) \subseteq Grantables(c, U) /\ e[s].wants = {} /\ e[s].holds = {}
    <3>1. s \in S
      OBVIOUS
    <3>2. Sound(e, S, R) /\ Lends(c, e, S, U)
      BY <3>1, ReleaseSound
    <3>3. Grantables(e, U) \subseteq Grantables(c, U)
      BY <3>1, ReleaseLeaves
    <3>4. e[s].wants = {} /\ e[s].holds = {}
      BY <3>1, ReleaseAll
    <3> QED BY <3>2, <3>3, <3>4
  <2> HIDE DEF e
  <2>2. Sound(d, S, R)
    BY <2>1, AskSound
  <2>3. \A t \in S \ {s} : d[t] = e[t]
    BY <2>1 DEF Ask, Sound, ClaimTable
  <2>4. d[s].holds = {} /\ s \in S
    BY <2>1 DEF Ask, Sound, ClaimTable
  <2> HIDE DEF d
  <2>5. ASSUME NEW t \in U \ {s}, Grantable(d, U, t) PROVE Grantable(e, U, t)
    <3>1. \A u \in U : d[u].holds = e[u].holds
      BY <2>1, <2>3, <2>4
    <3>2. HeldByOthers(d, U, t) = HeldByOthers(e, U, t)
      BY <3>1 DEF HeldByOthers
    <3>3. d[t] = e[t] /\ s \notin e[t].ahead
      BY <2>1, <2>3 DEF Sound, Ordered
    <3>4. \A u \in Waiting(e, U) \cap e[t].ahead : d[u] = e[u] /\ u \in Waiting(d, U)
      BY <2>3, <3>3 DEF Waiting
    <3> QED BY <2>5, <3>2, <3>3, <3>4 DEF Grantable
  <2>6. Grantables(Grant(d, U, s), U) = Grantables(d, U) \ {s}
    BY <2>2, OfferedLater DEF OfferedTo
  <2> QED BY <1>2, <2>1, <2>5, <2>6 DEF Claim, Grantables, d, e
<1> QED BY <1>1, <1>2

=============================================================================

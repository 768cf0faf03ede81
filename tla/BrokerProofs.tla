---------------------------- MODULE BrokerProofs ----------------------------
(***************************************************************************)
(* Theorems about Broker for any number of workers, guests, resources,     *)
(* accounts and attempts.  What each operation of the resource queue       *)
(* preserves is proved in ResourceClaimsProofs; here every action of the   *)
(* broker is shown to apply those operations only where they are sound.    *)
(* The second half is about the workers: which records, sessions and       *)
(* processes there can be at once, on disk and in the copy of a pass.      *)
(***************************************************************************)
EXTENDS Broker, ResourceClaimsProofs, FiniteSetTheorems

USE BrokerAssumption

-----------------------------------------------------------------------------
(* Types.  TypeOK is not inductive: the pool that cools down when a worker is *)
(* replaced is one of Pools only because such a worker has been placed.       *)

\* A worker with a session, or on its way from one to the next, has an account.
Placed == {rec \in Worker : rec.status \in {"starting", "running", "replacing"}
                              => rec.account \in Accounts /\ rec.generation # 0}

TypeInv == TypeOK /\ workers \in [Workers -> Placed] /\ mem \in [Workers -> Placed]

LEMMA PlacedShape ==
  ASSUME NEW f \in [Workers -> Placed]
  PROVE  f \in [Workers -> Worker]
BY DEF Placed

LEMMA WorkerType ==
  ASSUME NEW rec \in Placed
  PROVE  /\ Stopped(rec) \in Placed
         /\ \A a \in Accounts : AttemptsLeft(rec) => Reserved(rec, a) \in Placed
         /\ \A st \in Status :
              (st \in {"starting", "running", "replacing"}
                 => rec.status \in {"starting", "running", "replacing"})
              => \A p \in BOOLEAN :
                   /\ [rec EXCEPT !.status = st] \in Placed
                   /\ [rec EXCEPT !.status = st, !.recent = FALSE] \in Placed
                   /\ [rec EXCEPT !.status = st, !.pid = p, !.recent = FALSE] \in Placed
<1>1. Stopped(rec) \in Placed
  BY DEF Stopped, Placed, Worker, Status, Using, Holding
<1>2. \A a \in Accounts : AttemptsLeft(rec) => Reserved(rec, a) \in Placed
  BY DEF Reserved, AttemptsLeft, Placed, Worker, Status, Using, Holding
<1>3. ASSUME NEW st \in Status, NEW p \in BOOLEAN,
             st \in {"starting", "running", "replacing"}
               => rec.status \in {"starting", "running", "replacing"}
      PROVE  /\ [rec EXCEPT !.status = st] \in Placed
             /\ [rec EXCEPT !.status = st, !.recent = FALSE] \in Placed
             /\ [rec EXCEPT !.status = st, !.pid = p, !.recent = FALSE] \in Placed
  BY <1>3 DEF Placed, Worker
<1> QED BY <1>1, <1>2, <1>3

LEMMA NewWorkerType ==
  /\ Unborn \in Placed /\ Created \in Placed
  /\ \A a \in Accounts : Reserved(Created, a) \in Placed
<1>1. Unborn \in Placed /\ Created \in Placed
  BY DEF Unborn, Created, NeverPlaced, Placed, Worker, Status, Using, Holding
<1>2. \A a \in Accounts : Reserved(Created, a) \in Placed
  BY DEF Reserved, Created, NeverPlaced, Placed, Worker, Status, Using, Holding
<1> QED BY <1>1, <1>2

LEMMA SeatType ==
  ASSUME tmux \in [Workers -> [Attempts -> Seat]], NEW w, NEW g
  PROVE  /\ \A x \in {"none", "shell", "provider"} :
              [tmux EXCEPT ![w][g] = x] \in [Workers -> [Attempts -> Seat]]
         /\ Launched(w, g) \in [Workers -> [Attempts -> Seat]]
BY DEF Launched, Seat

LEMMA TypeInit == Init => TypeInv
<1> SUFFICES ASSUME Init PROVE TypeInv
  OBVIOUS
<1>1. workers \in [Workers -> Placed] /\ mem \in [Workers -> Placed]
  BY NewWorkerType DEF Init
<1>2. claims \in [Sessions -> [holds : SUBSET Resources, wants : SUBSET Resources,
                               ahead : SUBSET Sessions]]
  BY DEF Init, NoClaim
<1>3. tmux \in [Workers -> [Attempts -> Seat]]
  BY DEF Init, Seat
<1>4. at \in 0..(NWorkers + 1) /\ step \in {"look", "kill", "reap", "place", "launch"}
  BY DEF Init
<1>5. guests \subseteq Guests /\ cooling \subseteq Pools
      /\ orphans \subseteq Workers \X Attempts /\ starts \subseteq Workers \X Attempts
  BY DEF Init
<1> QED BY <1>1, <1>2, <1>3, <1>4, <1>5, PlacedShape DEF TypeOK, TypeInv

\* What a command does to the workers keeps their type.
LEMMA TypeWorkerCommand ==
  ASSUME TypeInv
  PROVE  /\ \A w \in Workers : Start(w) \/ Stop(w) \/ Retry(w) => TypeInv'
         /\ \A t \in Tasks : StopTask(t) => TypeInv'
<1> USE DEF unchangedPass, unchangedHost
<1>0. workers \in [Workers -> Placed]
  BY DEF TypeInv
<1>1. ASSUME NEW w \in Workers, Start(w) PROVE TypeInv'
  <2> DEFINE ws == [HandedOver(TaskOf[w]) EXCEPT ![w] = Created]
  <2>1. HandedOver(TaskOf[w]) \in [Workers -> Placed]
    BY <1>0, WorkerType DEF HandedOver
  <2>2. ws \in [Workers -> Placed]
    BY <2>1, NewWorkerType
  <2>3. workers' \in [Workers -> Placed]
    <3>1. CASE workers' = ws
      BY <3>1, <2>2
    <3>2. ASSUME NEW a \in Accounts, workers' = [ws EXCEPT ![w] = Reserved(Created, a)]
          PROVE  workers' \in [Workers -> Placed]
      <4> HIDE DEF ws
      <4> QED BY <3>2, <2>2, NewWorkerType
    <3> QED BY <1>1, <3>1, <3>2 DEF Start
  <2>4. starts' \subseteq Workers \X Attempts
    BY <1>1 DEF Start, TypeInv, TypeOK, Attempts
  <2> QED BY <1>1, <2>3, <2>4, PlacedShape DEF Start, TypeInv, TypeOK
<1>2. ASSUME NEW w \in Workers, Stop(w) PROVE TypeInv'
  <2>1. workers' \in [Workers -> Placed]
    BY <1>2, <1>0, WorkerType DEF Stop
  <2> QED BY <1>2, <2>1, PlacedShape DEF Stop, TypeInv, TypeOK
<1>3. ASSUME NEW w \in Workers, Retry(w) PROVE TypeInv'
  <2>1. [workers[w] EXCEPT !.status = "waiting_for_capacity"] \in Placed
    BY <1>0, WorkerType DEF Status, Using, Holding
  <2>2. workers' \in [Workers -> Placed]
    BY <1>3, <1>0, <2>1 DEF Retry
  <2> QED BY <1>3, <2>2, PlacedShape DEF Retry, TypeInv, TypeOK
<1>4. ASSUME NEW t \in Tasks, StopTask(t) PROVE TypeInv'
  <2>1. workers' \in [Workers -> Placed]
    BY <1>4, <1>0, WorkerType DEF StopTask
  <2> QED BY <1>4, <2>1, PlacedShape DEF StopTask, TypeInv, TypeOK
<1> QED BY <1>1, <1>2, <1>3, <1>4

\* A launch, late or cut short, and the provider that follows it.
LEMMA TypeLaunch ==
  ASSUME TypeInv, NEW w \in Workers, NEW g \in Attempts
  PROVE  LateLaunch(w, g) \/ StartDies(w, g) \/ Exec(w, g) => TypeInv'
<1> USE DEF unchangedPass, unchangedHost
<1>0. workers \in [Workers -> Placed]
  BY DEF TypeInv
<1>1. ASSUME LateLaunch(w, g) PROVE TypeInv'
  BY <1>1, SeatType DEF LateLaunch, TypeInv, TypeOK
<1>2. ASSUME StartDies(w, g) PROVE TypeInv'
  BY <1>2 DEF StartDies, TypeInv, TypeOK
<1>3. ASSUME Exec(w, g) PROVE TypeInv'
  <2> DEFINE rec == [workers[w] EXCEPT !.status = "running", !.pid = TRUE, !.recent = FALSE]
  <2>1. Lease(w, g) => rec \in Placed
    BY <1>0, WorkerType DEF Lease, Status, Using, Holding
  <2>2. CASE Lease(w, g)
    <3>1. workers' = [workers EXCEPT ![w] = rec] /\ tmux' = [tmux EXCEPT ![w][g] = "provider"]
      BY <1>3, <2>2 DEF Exec
    <3>2. workers' \in [Workers -> Placed]
      <4> HIDE DEF rec
      <4> QED BY <1>0, <2>1, <2>2, <3>1
    <3>3. tmux' \in [Workers -> [Attempts -> Seat]]
      BY <3>1, SeatType DEF TypeInv, TypeOK
    <3> QED BY <1>3, <3>2, <3>3, PlacedShape DEF Exec, TypeInv, TypeOK
  <2>3. CASE ~Lease(w, g)
    <3>1. workers' = workers /\ tmux' = [tmux EXCEPT ![w][g] = "none"]
      BY <1>3, <2>3 DEF Exec
    <3>2. tmux' \in [Workers -> [Attempts -> Seat]]
      BY <3>1, SeatType DEF TypeInv, TypeOK
    <3> QED BY <1>3, <3>1, <3>2 DEF Exec, TypeInv, TypeOK
  <2> QED BY <2>2, <2>3
<1> QED BY <1>1, <1>2, <1>3

\* The steps of a pass, but for the claims that Finish grants.
LEMMA TypePass ==
  ASSUME TypeInv, Pass, ~Finish
  PROVE  TypeInv'
<1> USE DEF unchangedDisk, unchangedHost, Goto, Advance, At
<1>0. mem \in [Workers -> Placed] /\ workers \in [Workers -> Placed]
  BY DEF TypeInv
<1>a. ASSUME at \in Workers, NEW st \in Status, Set(st),
             st \in {"starting", "running", "replacing"}
               => mem[at].status \in {"starting", "running", "replacing"}
      PROVE  mem' \in [Workers -> Placed]
  <2> DEFINE rec == [mem[at] EXCEPT !.status = st, !.recent = FALSE]
  <2>1. rec \in Placed
    BY <1>0, <1>a, WorkerType
  <2>2. mem' = [mem EXCEPT ![at] = rec]
    BY <1>a DEF Set
  <2> HIDE DEF rec
  <2> QED BY <1>0, <2>1, <2>2
<1>b. ASSUME at \in Workers PROVE at + 1 \in 0..(NWorkers + 1)
  BY <1>b DEF Workers
<1>1. CASE BeginPass
  BY <1>1, <1>0, PlacedShape DEF BeginPass, TypeInv, TypeOK
<1>2. CASE LookPast \/ LookUnfinished \/ KillLater \/ ReapLater \/ PlaceLater
  BY <1>2, <1>b DEF LookPast, LookUnfinished, KillLater, ReapLater, PlaceLater, TypeInv, TypeOK
<1>3. CASE LookExhausted \/ LookStarted \/ LookExited
  <2>1. mem' \in [Workers -> Placed]
    BY <1>3, <1>a DEF LookExhausted, LookStarted, LookExited, Status, Using, Holding
  <2> QED BY <1>3, <1>b, <2>1, PlacedShape
          DEF LookExhausted, LookStarted, LookExited, TypeInv, TypeOK
<1>4. CASE LookUnlaunched \/ LaunchPlaced
  <2>1. tmux' \in [Workers -> [Attempts -> Seat]]
    BY <1>4, SeatType DEF LookUnlaunched, LaunchPlaced, TypeInv, TypeOK
  <2> QED BY <1>4, <1>b, <2>1 DEF LookUnlaunched, LaunchPlaced, TypeInv, TypeOK
<1>5. CASE Kill
  <2>1. tmux' \in [Workers -> [Attempts -> Seat]]
    BY <1>5, SeatType DEF Kill, TypeInv, TypeOK
  <2>2. mem[at].generation \in 0..MaxAttempts /\ at \in Workers
    BY <1>5, <1>0 DEF Kill, Placed, Worker
  <2>3. SeatOf(at, mem[at].generation) = "provider" => <<at, mem[at].generation>> \in Workers \X Attempts
    BY <2>2 DEF SeatOf, Attempts
  <2>4. orphans' \subseteq Workers \X Attempts
    BY <1>5, <2>3 DEF Kill, TypeInv, TypeOK
  <2> QED BY <1>5, <2>1, <2>4 DEF Kill, TypeInv, TypeOK
<1>6. CASE ReapStopped
  <2>1. mem' \in [Workers -> Placed]
    BY <1>6, <1>a DEF ReapStopped, Status
  <2> QED BY <1>6, <1>b, <2>1, PlacedShape DEF ReapStopped, TypeInv, TypeOK
<1>7. CASE ReapReplaced
  <2>1. mem' \in [Workers -> Placed]
    BY <1>7, <1>a DEF ReapReplaced, Status, Using, Holding
  <2>2. mem[at] \in Placed
    BY <1>7, <1>0 DEF ReapReplaced
  <2>3. mem[at].account \in Accounts
    BY <1>7, <2>2 DEF ReapReplaced, Placed
  <2>4. cooling' \subseteq Pools
    BY <1>7, <2>3 DEF ReapReplaced, TypeInv, TypeOK
  <2> QED BY <1>7, <1>b, <2>1, <2>4, PlacedShape DEF ReapReplaced, TypeInv, TypeOK
<1>8. ASSUME NEW noPolicy \in BOOLEAN, PlaceBlocked(noPolicy) PROVE TypeInv'
  <2>1. mem' \in [Workers -> Placed]
    BY <1>8, <1>a DEF PlaceBlocked, Status
  <2> QED BY <1>8, <1>b, <2>1, PlacedShape DEF PlaceBlocked, TypeInv, TypeOK
<1>9. ASSUME NEW a \in Accounts, Place(a) PROVE TypeInv'
  <2>1. mem' \in [Workers -> Placed]
    BY <1>9, <1>0, WorkerType DEF Place
  <2> QED BY <1>9, <2>1, PlacedShape DEF Place, TypeInv, TypeOK
<1> QED BY <1>1, <1>2, <1>3, <1>4, <1>5, <1>6, <1>7, <1>8, <1>9 DEF Pass

LEMMA TypeHost ==
  ASSUME TypeInv, Host \/ PassDies
  PROVE  TypeInv'
<1> USE DEF unchangedDisk, unchangedHost, unchangedPass, unchangedState
<1>0. workers \in [Workers -> Placed] /\ mem \in [Workers -> Placed]
  BY DEF TypeInv
<1>1. CASE PassDies
  <2>1. mem' \in [Workers -> Placed]
    BY <1>1, NewWorkerType DEF PassDies, EndPass
  <2> QED BY <1>1, <2>1, PlacedShape DEF PassDies, EndPass, TypeInv, TypeOK
<1>2. ASSUME NEW w \in Workers, NEW g \in Attempts,
             SessionEnds(w, g) \/ SessionLost(w, g) \/ OrphanExits(w, g)
      PROVE  TypeInv'
  <2>1. tmux' = tmux \/ tmux' = [tmux EXCEPT ![w][g] = "none"]
    BY <1>2 DEF SessionEnds, SessionLost, OrphanExits
  <2>0. tmux \in [Workers -> [Attempts -> Seat]]
    BY DEF TypeInv, TypeOK
  <2>2. tmux' \in [Workers -> [Attempts -> Seat]]
    <3>1. [tmux EXCEPT ![w][g] = "none"] \in [Workers -> [Attempts -> Seat]]
      BY <2>0, SeatType
    <3> QED BY <2>0, <2>1, <3>1
  <2>3. orphans' \subseteq Workers \X Attempts
    BY <1>2 DEF SessionEnds, SessionLost, OrphanExits, TypeInv, TypeOK
  <2> QED BY <1>2, <2>2, <2>3 DEF SessionEnds, SessionLost, OrphanExits, TypeInv, TypeOK
<1>3. ASSUME NEW w \in Workers, Elapsed(w) PROVE TypeInv'
  <2>1. \A rec \in Placed : [rec EXCEPT !.recent = FALSE] \in Placed
    BY DEF Placed, Worker
  <2>2. workers' \in [Workers -> Placed] /\ mem' \in [Workers -> Placed]
    BY <1>0, <1>3, <2>1 DEF Elapsed
  <2> QED BY <1>3, <2>2, PlacedShape DEF Elapsed, TypeInv, TypeOK
<1>4. ASSUME NEW p \in Pools, CooldownEnds(p) PROVE TypeInv'
  BY <1>4 DEF CooldownEnds, TypeInv, TypeOK
<1> QED BY <1>1, <1>2, <1>3, <1>4 DEF Host

-----------------------------------------------------------------------------
(* The queue.  The actions that change claims apply the operators of        *)
(* ResourceClaims, each of which keeps a sound table sound.                 *)

QueueInv == TypeInv /\ Sound(claims, Sessions, Resources)

LEMMA UsingType ==
  ASSUME TypeInv, NEW ws
  PROVE  UsingOf(ws) \subseteq Sessions /\ \A s \in Sessions : UsingOf(ws) \cup {s} \subseteq Sessions
BY DEF UsingOf, Sessions, TypeInv, TypeOK

\* The step of a session or of a guest that ends, and the end of a pass: the
\* table stays sound, and lends nothing twice.
LEMMA QueueCommand ==
  ASSUME QueueInv
  PROVE  /\ \A s \in Sessions, names \in (SUBSET Resources) \ {{}} :
              ClaimResources(s, names) =>
                /\ Sound(claims', Sessions, Resources)
                /\ Lends(claims, claims', Sessions, UsingOf(workers) \cup {s})
         /\ \A s \in Sessions : Poll(s) =>
                /\ Sound(claims', Sessions, Resources)
                /\ Lends(claims, claims', Sessions, UsingOf(workers))
         /\ \A s \in Sessions, keep \in SUBSET Resources : ReleaseResources(s, keep) =>
                /\ Sound(claims', Sessions, Resources)
                /\ Lends(claims, claims', Sessions, UsingOf(workers))
         /\ \A s \in Guests : GuestEnds(s) =>
                /\ Sound(claims', Sessions, Resources)
                /\ Lends(claims, claims', Sessions, UsingOf(workers))
                /\ claims'[s].holds = {}
         /\ Finish =>
                /\ Sound(claims', Sessions, Resources)
                /\ Lends(claims, claims', Sessions, UsingOf(mem))
<1> USE DEF QueueInv
<1>1. ASSUME NEW s \in Sessions, NEW names \in (SUBSET Resources) \ {{}}, ClaimResources(s, names)
      PROVE  /\ Sound(claims', Sessions, Resources)
             /\ Lends(claims, claims', Sessions, UsingOf(workers) \cup {s})
  <2> DEFINE U == UsingOf(workers) \cup {s}
  <2>1. claims' = Claim(claims, U, s, names)
    BY <1>1 DEF ClaimResources
  <2>2. U \in SUBSET Sessions /\ s \in U
    BY UsingType
  <2>3. names \in SUBSET Resources /\ names # {}
    OBVIOUS
  <2> HIDE DEF U
  <2>4. Sound(Claim(claims, U, s, names), Sessions, Resources)
        /\ Lends(claims, Claim(claims, U, s, names), Sessions, U)
    BY <2>2, <2>3, ClaimSound
  <2> QED BY <2>1, <2>4 DEF U
<1>2. ASSUME NEW s \in Sessions, Poll(s)
      PROVE  /\ Sound(claims', Sessions, Resources)
             /\ Lends(claims, claims', Sessions, UsingOf(workers))
  <2>1. UsingOf(workers) \in SUBSET Sessions /\ s \in UsingOf(workers)
    BY <1>2, UsingType DEF Poll
  <2> QED BY <1>2, <2>1, GrantSound DEF Poll
<1>3. ASSUME NEW s \in Sessions, NEW keep \in SUBSET Resources, ReleaseResources(s, keep)
      PROVE  /\ Sound(claims', Sessions, Resources)
             /\ Lends(claims, claims', Sessions, UsingOf(workers))
  <2>1. UsingOf(workers) \in SUBSET Sessions
    BY UsingType
  <2> QED BY <1>3, <2>1, ReleaseSound DEF ReleaseResources
<1>4. ASSUME NEW s \in Guests, GuestEnds(s)
      PROVE  /\ Sound(claims', Sessions, Resources)
             /\ Lends(claims, claims', Sessions, UsingOf(workers))
             /\ claims'[s].holds = {}
  <2>1. UsingOf(workers) \in SUBSET Sessions /\ s \in Sessions
    BY UsingType DEF Sessions
  <2>2. claims' = HandBack(claims, s, {})
    BY <1>4 DEF GuestEnds, Forget
  <2>3. /\ Sound(HandBack(claims, s, {}), Sessions, Resources)
        /\ Lends(claims, HandBack(claims, s, {}), Sessions, UsingOf(workers))
    BY <2>1, HandBackSound
  <2>4. HandBack(claims, s, {})[s].holds = {}
    BY <2>1, HandBackAll DEF Sound
  <2> QED BY <2>2, <2>3, <2>4
<1>5. ASSUME Finish
      PROVE  /\ Sound(claims', Sessions, Resources)
             /\ Lends(claims, claims', Sessions, UsingOf(mem))
  <2>1. UsingOf(mem) \in SUBSET Sessions
    BY UsingType
  <2> QED BY <1>5, <2>1, OfferQueueSound DEF Finish
<1> QED BY <1>1, <1>2, <1>3, <1>4, <1>5

\* No other action touches the claims.
LEMMA ClaimsKept ==
  /\ \A w \in Workers : Start(w) \/ Stop(w) \/ Retry(w) => claims' = claims
  /\ \A w \in Workers, g \in Attempts :
       LateLaunch(w, g) \/ StartDies(w, g) \/ Exec(w, g) => claims' = claims
  /\ \A t \in Tasks : StopTask(t) => claims' = claims
  /\ Pass /\ ~Finish => claims' = claims
  /\ Host \/ PassDies => claims' = claims
<1> USE DEF unchangedDisk, unchangedState
<1>1. \A w \in Workers : Start(w) \/ Stop(w) \/ Retry(w) => claims' = claims
  BY DEF Start, Stop, Retry
<1>2. \A w \in Workers, g \in Attempts :
        LateLaunch(w, g) \/ StartDies(w, g) \/ Exec(w, g) => claims' = claims
  BY DEF LateLaunch, StartDies, Exec
<1>3. \A t \in Tasks : StopTask(t) => claims' = claims
  BY DEF StopTask
<1>4. Pass /\ ~Finish => claims' = claims
  BY DEF Pass, BeginPass, LookPast, LookExhausted, LookStarted, LookUnlaunched, LookExited,
         LookUnfinished, KillLater, Kill, ReapLater, ReapStopped, ReapReplaced, PlaceBlocked,
         PlaceLater, Place, LaunchPlaced
<1>5. Host \/ PassDies => claims' = claims
  BY DEF Host, PassDies, SessionEnds, SessionLost, OrphanExits, Elapsed, CooldownEnds
<1> QED BY <1>1, <1>2, <1>3, <1>4, <1>5

\* The queue stays sound whatever happens.
LEMMA QueueStep == QueueInv /\ [Next]_vars => QueueInv'
<1> SUFFICES ASSUME QueueInv, [Next]_vars PROVE QueueInv'
  OBVIOUS
<1>0. TypeInv /\ Sound(claims, Sessions, Resources)
  BY DEF QueueInv
<1>a. ASSUME Sound(claims', Sessions, Resources), UNCHANGED <<workers, mem, cooling, at, step>>,
             UNCHANGED <<tmux, orphans, starts>>, guests' \subseteq Guests
      PROVE  TypeInv'
  BY <1>0, <1>a, PlacedShape DEF TypeInv, TypeOK, Sound, ClaimTable
<1>b. guests \subseteq Guests
  BY <1>0 DEF TypeInv, TypeOK
<1>1. CASE UNCHANGED vars
  BY <1>0, <1>1 DEF QueueInv, TypeInv, TypeOK, vars
<1>2. ASSUME NEW w \in Workers, Start(w) \/ Stop(w) \/ Retry(w) PROVE QueueInv'
  BY <1>0, <1>2, TypeWorkerCommand, ClaimsKept DEF QueueInv
<1>3. ASSUME NEW w \in Workers, NEW g \in Attempts,
             LateLaunch(w, g) \/ StartDies(w, g) \/ Exec(w, g)
      PROVE  QueueInv'
  BY <1>0, <1>3, TypeLaunch, ClaimsKept DEF QueueInv
<1>4. ASSUME NEW t \in Tasks, StopTask(t) PROVE QueueInv'
  BY <1>0, <1>4, TypeWorkerCommand, ClaimsKept DEF QueueInv
<1>5. ASSUME NEW s \in Sessions, NEW names \in (SUBSET Resources) \ {{}}, ClaimResources(s, names)
      PROVE  QueueInv'
  <2>1. Sound(claims', Sessions, Resources)
    BY <1>5, QueueCommand
  <2> QED BY <1>5, <1>a, <1>b, <2>1 DEF ClaimResources, unchangedPass, unchangedHost, QueueInv
<1>6. ASSUME NEW s \in Sessions, Poll(s) PROVE QueueInv'
  <2>1. Sound(claims', Sessions, Resources)
    BY <1>6, QueueCommand
  <2> QED BY <1>6, <1>a, <1>b, <2>1 DEF Poll, unchangedPass, unchangedHost, QueueInv
<1>7. ASSUME NEW s \in Sessions, NEW keep \in SUBSET Resources, ReleaseResources(s, keep)
      PROVE  QueueInv'
  <2>1. Sound(claims', Sessions, Resources)
    BY <1>7, QueueCommand
  <2> QED BY <1>7, <1>a, <1>b, <2>1 DEF ReleaseResources, unchangedPass, unchangedHost, QueueInv
<1>8. ASSUME NEW s \in Guests, GuestEnds(s) PROVE QueueInv'
  <2>1. Sound(claims', Sessions, Resources)
    BY <1>8, QueueCommand
  <2> QED BY <1>8, <1>a, <1>b, <2>1 DEF GuestEnds, unchangedPass, unchangedHost, QueueInv
<1>9. CASE Finish
  <2>1. Sound(claims', Sessions, Resources)
    BY <1>9, QueueCommand
  <2>2. workers' \in [Workers -> Placed] /\ mem' \in [Workers -> Placed]
    BY <1>0, <1>9, NewWorkerType DEF Finish, EndPass, TypeInv
  <2>3. TypeInv'
    BY <1>0, <1>9, <2>1, <2>2, PlacedShape
       DEF Finish, EndPass, unchangedHost, TypeInv, TypeOK, Sound, ClaimTable
  <2> QED BY <2>1, <2>3 DEF QueueInv
<1>10. CASE Pass /\ ~Finish
  BY <1>0, <1>10, TypePass, ClaimsKept DEF QueueInv
<1>11. CASE Host \/ PassDies
  BY <1>0, <1>11, TypeHost, ClaimsKept DEF QueueInv
<1> QED BY <1>1, <1>2, <1>3, <1>4, <1>5, <1>6, <1>7, <1>8, <1>9, <1>10, <1>11 DEF Next, Command

LEMMA QueueInit == Init => QueueInv
<1> SUFFICES ASSUME Init PROVE QueueInv
  OBVIOUS
<1>1. TypeInv
  BY TypeInit
<1>2. Sound(claims, Sessions, Resources)
  BY DEF Init, NoClaim, Sound, ClaimTable, Whole, Ordered
<1> QED BY <1>1, <1>2 DEF QueueInv

LEMMA QueueAlways == Spec => []QueueInv
BY QueueInit, QueueStep, PTL DEF Spec

\* The shape of the state: every worker, claim, session and step of a pass
\* stays of its type.
THEOREM TypeCorrect == Spec => []TypeOK
<1>1. QueueInv => TypeOK
  BY DEF QueueInv, TypeInv
<1> QED BY <1>1, QueueAlways, PTL

\* claim's "a worker never sits on one resource waiting for another", whoever
\* claims, polls, releases, dies or is replaced.
THEOREM NeverHoldsAndWaits == Spec => []AllOrNothing
<1>1. QueueInv => AllOrNothing
  BY DEF QueueInv, Sound, Whole, AllOrNothing
<1> QED BY <1>1, QueueAlways, PTL

\* The queue is one line: of two sessions that wait, exactly one asked first,
\* and whoever stands ahead of another waits too.
THEOREM OneQueue == Spec => []QueueOrdered
<1>1. QueueInv => QueueOrdered
  BY DEF QueueInv, Sound, Ordered, QueueOrdered
<1> QED BY <1>1, QueueAlways, PTL

-----------------------------------------------------------------------------
(* One holder at a time.  Apart speaks of the sessions that count, so it can *)
(* break where a session comes to count again: a worker is created or a     *)
(* guest registered (Idle: they hold nothing), a pass writes back an older  *)
(* copy of the workers (Behind: no more of them count in it than on disk),  *)
(* or a blocked worker is retried (the operator looked: retry_free).        *)

Idle == /\ \A w \in Workers : workers[w].status = "unborn" => claims[w].holds = {}
        /\ \A s \in Guests \ guests : claims[s].holds = {}

Behind == at # 0 =>
  /\ \A w \in Workers : /\ mem[w].status \in Using => workers[w].status \in Using
                        /\ mem[w].status = "unborn" => workers[w].status = "unborn"
  /\ at \in Workers /\ step = "place" => mem[at].status \in Using

ExclusiveInv == QueueInv /\ Idle /\ Behind /\ Apart(claims, UsingOf(workers))

\* A step that leaves the claims alone and lets nobody new count.
LEMMA NobodyNew ==
  ASSUME ExclusiveInv, QueueInv', Behind', claims' = claims, guests' = guests,
         \A w \in Workers : /\ workers'[w].status \in Using => workers[w].status \in Using
                            /\ workers'[w].status = "unborn" => workers[w].status = "unborn"
  PROVE  ExclusiveInv'
BY DEF ExclusiveInv, Idle, Apart, UsingOf

LEMMA StoppedCounts ==
  ASSUME NEW rec \in Placed, rec.status # "unborn"
  PROVE  /\ Stopped(rec).status \in Using => rec.status \in Using
         /\ Stopped(rec).status # "unborn"
BY DEF Stopped, Placed, Worker, Status, Using, Holding

\* Creating a worker, and handing its task over.
LEMMA ExclusiveStart ==
  ASSUME ExclusiveInv, QueueInv', NEW w \in Workers, Start(w)
  PROVE  ExclusiveInv'
<1>0. workers \in [Workers -> Placed]
  BY DEF ExclusiveInv, QueueInv, TypeInv
<1> DEFINE ho == HandedOver(TaskOf[w])
<1>1. ho \in [Workers -> Placed]
  BY <1>0, WorkerType DEF HandedOver
<1>2. \A v \in Workers : /\ ho[v].status \in Using => workers[v].status \in Using
                         /\ ho[v].status = "unborn" => workers[v].status = "unborn"
  BY <1>0, StoppedCounts DEF HandedOver, HoldersOf, Holding
<1> HIDE DEF ho
<1>3. \A v \in Workers \ {w} : workers'[v] = ho[v]
  BY <1>1 DEF Start, ho
<1>4. workers'[w].status # "unborn"
  BY <1>1 DEF Start, ho, Reserved, Created, NeverPlaced
<1>5. claims[w].holds = {} /\ claims' = claims /\ guests' = guests
  BY DEF Start, ExclusiveInv, Idle
<1>6. Apart(claims', UsingOf(workers)')
  BY <1>2, <1>3, <1>5 DEF ExclusiveInv, Apart, UsingOf
<1>7. Idle'
  BY <1>2, <1>3, <1>4, <1>5 DEF ExclusiveInv, Idle
<1>8. Behind'
  BY DEF Start, NoPass, unchangedPass, Behind
<1> QED BY <1>6, <1>7, <1>8 DEF ExclusiveInv

\* Retrying a worker whose resources nobody took meanwhile.
LEMMA ExclusiveRetry ==
  ASSUME "retry_free" \in Trust, ExclusiveInv, QueueInv', NEW w \in Workers, Retry(w)
  PROVE  ExclusiveInv'
<1>0. workers \in [Workers -> Placed]
  BY DEF ExclusiveInv, QueueInv, TypeInv
<1>1. workers'[w].status = "waiting_for_capacity" /\ \A v \in Workers \ {w} : workers'[v] = workers[v]
  BY <1>0 DEF Retry
<1>2. claims' = claims /\ guests' = guests /\ w \notin Guests
  BY DEF Retry
<1>3. \A t \in UsingOf(workers) \ {w} : claims[w].holds \cap claims[t].holds = {}
  BY DEF Retry, Retriable, HeldByOthers
<1>4. UsingOf(workers)' \subseteq UsingOf(workers) \cup {w}
  BY <1>1, <1>2 DEF UsingOf
<1>5. Apart(claims', UsingOf(workers)')
  BY <1>2, <1>3, <1>4 DEF ExclusiveInv, Apart
<1>6. Idle'
  BY <1>1, <1>2 DEF ExclusiveInv, Idle
<1>7. Behind'
  BY DEF Retry, NoPass, unchangedPass, Behind
<1> QED BY <1>5, <1>6, <1>7 DEF ExclusiveInv

\* A step of a session: it lends nothing twice, and nothing to whom does not
\* count.
LEMMA ExclusiveClaims ==
  ASSUME ExclusiveInv, QueueInv', NEW s \in Sessions, NoPass, unchangedPass, workers' = workers,
         Lends(claims, claims', Sessions, UsingOf(workers) \cup {s}),
         UsingOf(workers)' = UsingOf(workers) \cup {s},
         guests \subseteq guests',
         s \in Workers => workers[s].status \in Using
  PROVE  ExclusiveInv'
<1>1. Apart(claims, UsingOf(workers) \cup {s})
  BY DEF ExclusiveInv, Idle, Apart, UsingOf, Sessions
<1>2. Apart(claims', UsingOf(workers)')
  BY <1>1 DEF Lends
<1>3. guests \subseteq Guests /\ guests' \subseteq Guests
  BY DEF ExclusiveInv, QueueInv, TypeInv, TypeOK
<1>4. ASSUME NEW w \in Workers, workers[w].status = "unborn" PROVE claims'[w].holds = {}
  <2>1. w \in Sessions \ (UsingOf(workers) \cup {s})
    BY <1>3, <1>4 DEF UsingOf, Sessions, Using, Holding
  <2> QED BY <1>4, <2>1 DEF ExclusiveInv, Idle, Lends
<1>5. ASSUME NEW t \in Guests \ guests' PROVE claims'[t].holds = {}
  <2>1. t \in Sessions \ (UsingOf(workers) \cup {s})
    BY <1>5 DEF UsingOf, Sessions
  <2> QED BY <1>5, <2>1 DEF ExclusiveInv, Idle, Lends
<1>6. Idle'
  BY <1>4, <1>5 DEF Idle
<1>7. Behind'
  BY DEF NoPass, unchangedPass, Behind
<1> QED BY <1>2, <1>6, <1>7 DEF ExclusiveInv

\* What a step of a pass does to the workers on disk and in memory.
LEMMA ExclusivePass ==
  ASSUME ExclusiveInv, QueueInv', Pass, ~Finish
  PROVE  ExclusiveInv'
<1> USE DEF unchangedDisk, unchangedHost, Goto, Advance, At
<1>0. workers \in [Workers -> Placed] /\ mem \in [Workers -> Placed]
  BY DEF ExclusiveInv, QueueInv, TypeInv
<1>a. Behind
  BY DEF ExclusiveInv
<1>b. 0 \notin Workers
  BY DEF Workers
<1>c. claims' = claims
  BY ClaimsKept
<1>d. ASSUME guests' = guests, workers' = workers, Behind' PROVE ExclusiveInv'
  BY <1>c, <1>d, NobodyNew
<1>e. ASSUME NEW st, Set(st), at \in Workers
      PROVE  mem'[at].status = st /\ \A w \in Workers \ {at} : mem'[w] = mem[w]
  BY <1>0, <1>e DEF Set
<1>1. CASE BeginPass
  <2>1. Behind'
    BY <1>1 DEF BeginPass, Behind
  <2> QED BY <1>1, <1>d, <2>1 DEF BeginPass
<1>2. CASE LookPast \/ LookUnlaunched \/ KillLater \/ Kill \/ ReapLater \/ PlaceLater \/ LaunchPlaced
  <2>1. mem' = mem /\ workers' = workers /\ guests' = guests /\ at \in Workers /\ step' # "place"
    BY <1>2 DEF LookPast, LookUnlaunched, KillLater, Kill, ReapLater, PlaceLater, LaunchPlaced
  <2>2. Behind'
    BY <1>a, <1>b, <2>1 DEF Behind
  <2> QED BY <1>d, <2>1, <2>2
<1>3. CASE LookUnfinished
  <2>1. mem' = mem /\ workers' = workers /\ guests' = guests /\ at \in Workers /\ at' = at
    BY <1>3 DEF LookUnfinished
  <2>2. step' = "place" => mem'[at].status \in Using
    BY <1>3 DEF LookUnfinished, Using, Holding
  <2>3. Behind'
    BY <1>a, <1>b, <2>1, <2>2 DEF Behind
  <2> QED BY <1>d, <2>1, <2>3
<1>4. ASSUME NEW st \in {"replacing", "running", "blocked"}, Set(st), at \in Workers,
             mem[at].status # "unborn",
             st # "blocked" => mem[at].status \in Using,
             workers' = workers, guests' = guests, step' # "place"
      PROVE  ExclusiveInv'
  <2>1. mem'[at].status = st /\ \A w \in Workers \ {at} : mem'[w] = mem[w]
    BY <1>4, <1>e
  <2>2. Behind'
    BY <1>4, <1>a, <1>b, <2>1 DEF Behind, Using, Holding
  <2> QED BY <1>4, <1>d, <2>2
<1>5. CASE LookExhausted \/ LookStarted \/ LookExited
  BY <1>4, <1>5 DEF LookExhausted, LookStarted, LookExited, Using, Holding
<1>6. ASSUME NEW noPolicy \in BOOLEAN, PlaceBlocked(noPolicy) PROVE ExclusiveInv'
  <2>1. mem[at].status \in Using
    BY <1>6, <1>a, <1>b DEF Behind, PlaceBlocked
  <2> QED BY <1>4, <1>6, <2>1 DEF PlaceBlocked, Using, Holding
\* A save: the disk takes what the pass has in memory.
<1>7. ASSUME at \in Workers, workers' = mem', guests' = guests, mem[at].status \in Using,
             mem'[at].status # "unborn", \A w \in Workers \ {at} : mem'[w] = mem[w],
             step' = "place" => at' = at /\ mem'[at].status \in Using
      PROVE  ExclusiveInv'
  <2>1. Behind'
    BY <1>7 DEF Behind
  <2>2. \A w \in Workers : /\ workers'[w].status \in Using => workers[w].status \in Using
                           /\ workers'[w].status = "unborn" => workers[w].status = "unborn"
    BY <1>7, <1>a, <1>b DEF Behind
  <2> QED BY <1>7, <1>c, <2>1, <2>2, NobodyNew
<1>8. CASE ReapStopped \/ ReapReplaced
  <2>1. \A w \in Workers \ {at} : mem'[w] = mem[w]
    BY <1>8, <1>e DEF ReapStopped, ReapReplaced
  <2>2. mem'[at].status \in {"stopped", "waiting_for_capacity"}
    BY <1>8, <1>e DEF ReapStopped, ReapReplaced
  <2>3. mem[at].status \in Using /\ at \in Workers
    BY <1>8 DEF ReapStopped, ReapReplaced, Using, Holding
  <2>4. step' = "place" => at' = at /\ mem'[at].status \in Using
    BY <1>8, <1>e DEF ReapStopped, ReapReplaced, Using, Holding
  <2> QED BY <1>7, <1>8, <2>1, <2>2, <2>3, <2>4 DEF ReapStopped, ReapReplaced
<1>9. ASSUME NEW a \in Accounts, Place(a) PROVE ExclusiveInv'
  <2>1. mem[at].status \in Using /\ at \in Workers
    BY <1>9, <1>a, <1>b DEF Behind, Place
  <2>2. mem'[at].status = "starting" /\ \A w \in Workers \ {at} : mem'[w] = mem[w]
    BY <1>0, <1>9 DEF Place, Reserved
  <2> QED BY <1>7, <1>9, <2>1, <2>2 DEF Place, Using, Holding
<1> QED BY <1>1, <1>2, <1>3, <1>5, <1>6, <1>8, <1>9 DEF Pass

\* The end of a pass: what came free is offered to those who count in memory,
\* and the memory becomes the disk.
LEMMA ExclusiveFinish ==
  ASSUME ExclusiveInv, QueueInv', Finish
  PROVE  ExclusiveInv'
<1>1. \A w \in Workers : /\ mem[w].status \in Using => workers[w].status \in Using
                         /\ mem[w].status = "unborn" => workers[w].status = "unborn"
  BY DEF ExclusiveInv, Behind, Finish
<1>2. UsingOf(mem) \subseteq UsingOf(workers)
  BY <1>1 DEF UsingOf
<1>3. Lends(claims, claims', Sessions, UsingOf(mem))
  BY QueueCommand DEF ExclusiveInv
<1>4. workers' = mem /\ guests' = guests
  BY DEF Finish
<1>5. UsingOf(workers)' = UsingOf(mem)
  BY <1>4 DEF UsingOf
<1>6. Apart(claims', UsingOf(workers)')
  BY <1>2, <1>3, <1>5 DEF Lends, Apart, ExclusiveInv
<1>7. guests \subseteq Guests
  BY DEF ExclusiveInv, QueueInv, TypeInv, TypeOK
<1>8. ASSUME NEW w \in Workers, workers'[w].status = "unborn" PROVE claims'[w].holds = {}
  <2>1. w \in Sessions \ UsingOf(mem)
    BY <1>4, <1>7, <1>8 DEF UsingOf, Sessions, Using, Holding
  <2> QED BY <1>1, <1>3, <1>4, <1>8, <2>1 DEF ExclusiveInv, Idle, Lends
<1>9. ASSUME NEW s \in Guests \ guests' PROVE claims'[s].holds = {}
  <2>1. s \in Sessions \ UsingOf(mem)
    BY <1>4, <1>9 DEF UsingOf, Sessions
  <2> QED BY <1>3, <1>4, <1>9, <2>1 DEF ExclusiveInv, Idle, Lends
<1>10. Behind'
  BY DEF Finish, EndPass, Behind
<1> QED BY <1>6, <1>8, <1>9, <1>10 DEF ExclusiveInv, Idle

LEMMA ExclusiveStep ==
  ASSUME "retry_free" \in Trust
  PROVE  ExclusiveInv /\ [Next]_vars => ExclusiveInv'
<1> SUFFICES ASSUME ExclusiveInv, [Next]_vars PROVE ExclusiveInv'
  OBVIOUS
<1>0. QueueInv' /\ workers \in [Workers -> Placed] /\ mem \in [Workers -> Placed]
  BY QueueStep DEF ExclusiveInv, QueueInv, TypeInv
<1>a. QueueInv /\ Behind /\ guests \subseteq Guests
  BY DEF ExclusiveInv, QueueInv, TypeInv, TypeOK
<1>b. ASSUME NoPass, unchangedPass PROVE Behind'
  BY <1>b DEF NoPass, unchangedPass, Behind
<1>1. CASE UNCHANGED vars
  BY <1>1 DEF vars, ExclusiveInv, QueueInv, TypeInv, TypeOK, Idle, Behind, UsingOf
<1>2. ASSUME NEW w \in Workers, Start(w) PROVE ExclusiveInv'
  BY <1>0, <1>2, ExclusiveStart
<1>3. ASSUME NEW w \in Workers, Stop(w) PROVE ExclusiveInv'
  <2>1. workers'[w] = Stopped(workers[w]) /\ \A v \in Workers \ {w} : workers'[v] = workers[v]
    BY <1>0, <1>3 DEF Stop
  <2>2. \A v \in Workers : /\ workers'[v].status \in Using => workers[v].status \in Using
                           /\ workers'[v].status = "unborn" => workers[v].status = "unborn"
    BY <1>0, <1>3, <2>1, StoppedCounts DEF Stop
  <2> QED BY <1>0, <1>b, <1>3, <2>2, NobodyNew DEF Stop
<1>4. ASSUME NEW t \in Tasks, StopTask(t) PROVE ExclusiveInv'
  <2>1. \A v \in Workers : /\ workers'[v].status \in Using => workers[v].status \in Using
                           /\ workers'[v].status = "unborn" => workers[v].status = "unborn"
    BY <1>0, <1>4, StoppedCounts DEF StopTask
  <2> QED BY <1>0, <1>b, <1>4, <2>1, NobodyNew DEF StopTask
<1>5. ASSUME NEW w \in Workers, Retry(w) PROVE ExclusiveInv'
  BY <1>0, <1>5, ExclusiveRetry
<1>6. ASSUME NEW w \in Workers, NEW g \in Attempts, LateLaunch(w, g) \/ StartDies(w, g)
      PROVE  ExclusiveInv'
  <2>1. UNCHANGED <<workers, claims, guests, at, step, mem>>
    BY <1>6 DEF LateLaunch, StartDies, unchangedPass
  <2>2. Behind'
    BY <1>a, <2>1 DEF Behind
  <2> QED BY <1>0, <2>1, <2>2, NobodyNew
<1>7. ASSUME NEW w \in Workers, NEW g \in Attempts, Exec(w, g) PROVE ExclusiveInv'
  <2>1. UNCHANGED <<claims, guests>> /\ Behind'
    BY <1>b, <1>7 DEF Exec
  <2>2. CASE Lease(w, g)
    <3>1. workers[w].status \in Using
      BY <2>2 DEF Lease, Using, Holding
    <3>2. workers' = [workers EXCEPT ![w].status = "running", ![w].pid = TRUE, ![w].recent = FALSE]
      BY <1>7, <2>2 DEF Exec
    <3>3. workers'[w].status = "running" /\ \A v \in Workers \ {w} : workers'[v] = workers[v]
      BY <1>0, <3>2 DEF Placed, Worker
    <3> QED BY <1>0, <2>1, <3>1, <3>3, NobodyNew
  <2>3. CASE ~Lease(w, g)
    BY <1>0, <1>7, <2>1, <2>3, NobodyNew DEF Exec
  <2> QED BY <2>2, <2>3
<1>8. ASSUME NEW s \in Sessions, NEW names \in (SUBSET Resources) \ {{}}, ClaimResources(s, names)
      PROVE  ExclusiveInv'
  <2>1. Lends(claims, claims', Sessions, UsingOf(workers) \cup {s})
    BY <1>a, <1>8, QueueCommand
  <2>2. s \in Workers => workers[s].status \in Using
    BY <1>8 DEF ClaimResources, Acting, Using, Holding
  <2>3. workers' = workers /\ guests' = guests \cup (Guests \cap {s})
    BY <1>8 DEF ClaimResources
  <2>4. UsingOf(workers)' = UsingOf(workers) \cup {s}
    BY <2>2, <2>3 DEF UsingOf, Sessions
  <2> QED BY <1>0, <1>8, <2>1, <2>2, <2>3, <2>4, ExclusiveClaims DEF ClaimResources
<1>9. ASSUME NEW s \in Sessions, Poll(s) PROVE ExclusiveInv'
  <2>1. UsingOf(workers) \cup {s} = UsingOf(workers)
    BY <1>9 DEF Poll
  <2>2. Lends(claims, claims', Sessions, UsingOf(workers) \cup {s})
    BY <1>a, <1>9, <2>1, QueueCommand
  <2>3. workers' = workers /\ guests' = guests /\ UsingOf(workers)' = UsingOf(workers) \cup {s}
    BY <1>9, <2>1 DEF Poll, UsingOf
  <2>4. s \in Workers => workers[s].status \in Using
    BY <1>9 DEF Poll, Acting, Using, Holding
  <2> QED BY <1>0, <1>9, <2>2, <2>3, <2>4, ExclusiveClaims DEF Poll
<1>10. ASSUME NEW s \in Sessions, NEW keep \in SUBSET Resources, ReleaseResources(s, keep)
       PROVE  ExclusiveInv'
  <2>1. UsingOf(workers) \cup {s} = UsingOf(workers)
    BY <1>10 DEF ReleaseResources
  <2>2. Lends(claims, claims', Sessions, UsingOf(workers) \cup {s})
    BY <1>a, <1>10, <2>1, QueueCommand
  <2>3. workers' = workers /\ guests' = guests /\ UsingOf(workers)' = UsingOf(workers) \cup {s}
    BY <1>10, <2>1 DEF ReleaseResources, UsingOf
  <2>4. s \in Workers => workers[s].status \in Using
    BY <1>10 DEF ReleaseResources, Acting, Using, Holding
  <2> QED BY <1>0, <1>10, <2>2, <2>3, <2>4, ExclusiveClaims DEF ReleaseResources
<1>11. ASSUME NEW s \in Guests, GuestEnds(s) PROVE ExclusiveInv'
  <2>1. Lends(claims, claims', Sessions, UsingOf(workers)) /\ claims'[s].holds = {}
    BY <1>a, <1>11, QueueCommand
  <2>2. workers' = workers /\ guests' = guests \ {s} /\ s \in Guests
    BY <1>11 DEF GuestEnds
  <2>3. Apart(claims', UsingOf(workers))
    BY <2>1 DEF ExclusiveInv, Lends
  <2>4. UsingOf(workers)' \subseteq UsingOf(workers)
    BY <2>2 DEF UsingOf
  <2>5. Apart(claims', UsingOf(workers)')
    BY <2>3, <2>4 DEF Apart
  <2>6. ASSUME NEW w \in Workers, workers'[w].status = "unborn" PROVE claims'[w].holds = {}
    <3>1. w \in Sessions \ UsingOf(workers)
      BY <1>a, <2>2, <2>6 DEF UsingOf, Sessions, Using, Holding
    <3> QED BY <2>1, <2>2, <2>6, <3>1 DEF ExclusiveInv, Idle, Lends
  <2>7. ASSUME NEW t \in Guests \ guests' PROVE claims'[t].holds = {}
    <3>1. CASE t = s
      BY <2>1, <3>1
    <3>2. CASE t # s
      <4>1. t \in Sessions \ UsingOf(workers) /\ t \in Guests \ guests
        BY <2>2, <2>7, <3>2 DEF UsingOf, Sessions
      <4> QED BY <2>1, <4>1 DEF ExclusiveInv, Idle, Lends
    <3> QED BY <3>1, <3>2
  <2>8. Behind'
    BY <1>b, <1>11 DEF GuestEnds
  <2> QED BY <1>0, <2>5, <2>6, <2>7, <2>8 DEF ExclusiveInv, Idle
<1>12. CASE Finish
  BY <1>0, <1>12, ExclusiveFinish
<1>13. CASE Pass /\ ~Finish
  BY <1>0, <1>13, ExclusivePass
<1>14. CASE PassDies
  <2>1. UNCHANGED <<workers, claims, guests>> /\ Behind'
    BY <1>14 DEF PassDies, EndPass, unchangedDisk, Behind
  <2> QED BY <1>0, <2>1, NobodyNew
<1>15. ASSUME NEW w \in Workers, Elapsed(w) PROVE ExclusiveInv'
  <2>1. UNCHANGED <<claims, guests, at, step>>
    BY <1>15, ClaimsKept DEF Elapsed
  <2>2. \A v \in Workers : workers'[v].status = workers[v].status /\ mem'[v].status = mem[v].status
    BY <1>0, <1>15 DEF Elapsed, Placed, Worker
  <2>3. Behind'
    BY <1>a, <2>1, <2>2 DEF Behind
  <2> QED BY <1>0, <2>1, <2>2, <2>3, NobodyNew
<1>16. CASE Host /\ ~\E w \in Workers : Elapsed(w)
  <2>1. UNCHANGED <<workers, claims, guests, at, step, mem>>
    BY <1>16 DEF Host, SessionEnds, SessionLost, OrphanExits, CooldownEnds,
                 unchangedState, unchangedDisk, unchangedPass
  <2>2. Behind'
    BY <1>a, <2>1 DEF Behind
  <2> QED BY <1>0, <2>1, <2>2, NobodyNew
<1> QED BY <1>1, <1>2, <1>3, <1>4, <1>5, <1>6, <1>7, <1>8, <1>9, <1>10, <1>11, <1>12, <1>13,
           <1>14, <1>15, <1>16 DEF Next, Command

LEMMA ExclusiveInit == Init => ExclusiveInv
<1> SUFFICES ASSUME Init PROVE ExclusiveInv
  OBVIOUS
<1>1. \A s \in Sessions : claims[s].holds = {}
  BY DEF Init, NoClaim
<1>2. UsingOf(workers) \subseteq Sessions
  BY QueueInit, UsingType DEF QueueInv
<1> QED BY <1>1, <1>2, QueueInit DEF ExclusiveInv, Idle, Behind, Apart, Init, Sessions

\* One resource is held by one session at a time, as long as nobody retries a
\* worker whose resources another session took meanwhile: across claims,
\* releases, replacements, exits, hand-overs and crashes of the supervisor.
THEOREM ExclusiveHolding ==
  ASSUME "retry_free" \in Trust
  PROVE  Spec => []Exclusive
<1>1. Init => ExclusiveInv
  BY ExclusiveInit
<1>2. ExclusiveInv /\ [Next]_vars => ExclusiveInv'
  BY ExclusiveStep
<1>3. ExclusiveInv => Exclusive
  BY DEF ExclusiveInv, Apart, Exclusive
<1> QED BY <1>1, <1>2, <1>3, PTL DEF Spec

-----------------------------------------------------------------------------
(* First come, first served.  Only three actions and the end of a pass lend  *)
(* anything, and none of them lends what an earlier claim waits for.        *)

LEMMA OvertakingStep ==
  ASSUME QueueInv, [Next]_vars, NEW s \in Sessions, NEW t \in Sessions, Overtakes(s, t)
  PROVE  AsksAgain(t)
<1>1. Jumps(claims, claims', s, t) /\ t \in UsingOf(workers) /\ t \in UsingOf(workers)'
  BY DEF Overtakes, Jumps
<1>2. Sound(claims, Sessions, Resources) /\ UsingOf(workers) \in SUBSET Sessions
  BY UsingType DEF QueueInv
<1>3. claims' # claims
  BY <1>1 DEF Jumps
<1>4. ASSUME NEW u \in Sessions, NEW names \in (SUBSET Resources) \ {{}}, ClaimResources(u, names)
      PROVE  AsksAgain(t)
  <2> DEFINE U == UsingOf(workers) \cup {u}
  <2>1. claims' = Claim(claims, U, u, names) /\ U \in SUBSET Sessions /\ u \in U /\ t \in U
    BY <1>1, <1>2, <1>4 DEF ClaimResources
  <2>2. names \in SUBSET Resources /\ names # {}
    OBVIOUS
  <2> HIDE DEF U
  <2>3. CASE t # u
    BY <1>1, <1>2, <2>1, <2>2, <2>3, ClaimFair
  <2>4. CASE t = u
    <3>1. claims[t].wants # {}
      BY <1>1 DEF Jumps
    <3> QED BY <1>4, <2>4, <3>1 DEF AsksAgain
  <2> QED BY <2>3, <2>4
<1>5. ASSUME NEW u \in Sessions, Poll(u) PROVE FALSE
  BY <1>1, <1>2, <1>5, GrantFair DEF Poll
<1>6. ASSUME NEW u \in Sessions, NEW keep \in SUBSET Resources, ReleaseResources(u, keep) PROVE FALSE
  BY <1>1, <1>2, <1>6, ReleaseFair DEF ReleaseResources
<1>7. ASSUME NEW u \in Guests, GuestEnds(u) PROVE FALSE
  <2>1. claims' = HandBack(claims, u, {}) /\ u \in Sessions
    BY <1>7 DEF GuestEnds, Forget, Sessions
  <2>2. claims'[s].holds \subseteq claims[s].holds
    BY <1>2, <2>1, HandBackShape DEF Sound
  <2> QED BY <1>1, <2>2 DEF Jumps
<1>8. CASE Finish
  <2>1. claims' = OfferQueue(claims, UsingOf(mem)) /\ t \in UsingOf(mem)
    BY <1>1, <1>8 DEF Finish, UsingOf
  <2>2. UsingOf(mem) \in SUBSET Sessions
    BY UsingType DEF QueueInv
  <2>3. ~Jumps(claims, OfferQueue(claims, UsingOf(mem)), s, t)
    BY <1>2, <2>1, <2>2, OfferQueueFair
  <2> QED BY <1>1, <2>1, <2>3
<1> QED BY <1>3, <1>4, <1>5, <1>6, <1>7, <1>8, ClaimsKept DEF Next, Command, vars

\* First come, first served: whatever the others claim, release, lose or die
\* of, a session that waits is not overtaken unless it asks again itself.
THEOREM FirstComeFirstServed == Spec => NoOvertaking
<1>1. QueueInv /\ [Next]_vars => [\A s, t \in Sessions : Overtakes(s, t) => AsksAgain(t)]_vars
  BY OvertakingStep
<1> QED BY <1>1, QueueAlways, PTL DEF Spec, NoOvertaking

-----------------------------------------------------------------------------
(* One worker of a task.  Where the supervisor has a copy, that too has one. *)

OneHolder(ws) ==
  \A v, w \in Workers : v # w /\ TaskOf[v] = TaskOf[w] =>
    ~(ws[v].status \in Holding /\ ws[w].status \in Holding)

\* A worker that is to be placed is one of those.
HolderInv ==
  /\ QueueInv /\ OneHolder(workers) /\ OneHolder(mem)
  /\ At("place") => mem[at].status \in Holding

\* Fewer workers that hold are no more than one.
LEMMA FewerHolders ==
  ASSUME NEW ws, NEW xs, OneHolder(ws),
         \A w \in Workers : xs[w].status \in Holding => ws[w].status \in Holding
  PROVE  OneHolder(xs)
BY DEF OneHolder

-----------------------------------------------------------------------------
(* Who sits in a tmux session.                                             *)

\* The provider in it is of the generation a record has, which is watched.
Seated(r, g) == r.generation = g /\ r.pid /\ r.status \in {"running", "replacing", "stopping"}

WatchInv ==
  /\ QueueInv
  /\ \A w \in Workers, g \in Attempts : tmux[w][g] = "provider" =>
       Seated(workers[w], g) /\ (at # 0 => Seated(mem[w], g))
  /\ At("reap") => \A g \in Attempts : tmux[at][g] # "provider"
  /\ At("place") => mem[at].status = "waiting_for_capacity"

-----------------------------------------------------------------------------
LEMMA HolderInit == Init => HolderInv
<1> SUFFICES ASSUME Init PROVE HolderInv
  OBVIOUS
<1>1. \A w \in Workers : workers[w].status = "unborn" /\ mem[w].status = "unborn"
  BY DEF Init, Unborn, NeverPlaced
<1>2. "unborn" \notin Holding /\ ~At("place")
  BY DEF Holding, Init, At
<1> QED BY <1>1, <1>2, QueueInit DEF HolderInv, OneHolder

\* Whoever is stopped holds the task no more.
LEMMA StoppedHoldsNot ==
  ASSUME NEW rec \in Placed, rec.status # "unborn"
  PROVE  Stopped(rec).status \notin Holding
BY DEF Stopped, Holding, Placed, Worker

\* A hand-over leaves the task to the worker that starts.
LEMMA HolderStart ==
  ASSUME HolderInv, NEW w \in Workers, Start(w)
  PROVE  OneHolder(workers')
<1> DEFINE t == TaskOf[w]
           ws == [HandedOver(t) EXCEPT ![w] = Created]
<1>1. workers \in [Workers -> Placed] /\ OneHolder(workers) /\ workers[w].status = "unborn"
  BY DEF HolderInv, QueueInv, TypeInv, Start
<1>2. ASSUME NEW v \in Workers, v # w
      PROVE  /\ ws[v].status \in Holding => workers[v].status \in Holding
             /\ TaskOf[v] = t => ws[v].status \notin Holding
  <2>1. ws[v] = HandedOver(t)[v]
    BY <1>2 DEF HandedOver
  <2>2. CASE v \in HoldersOf(workers, t)
    <3>1. \A u \in HoldersOf(workers, t) : u = v
      BY <1>1, <2>2 DEF HoldersOf, OneHolder
    <3>2. v <= v
      BY DEF Workers
    <3>3. ws[v] = Stopped(workers[v])
      BY <2>1, <2>2, <3>1, <3>2 DEF HandedOver
    <3>4. workers[v].status \in Holding /\ workers[v].status # "unborn"
      BY <2>2 DEF HoldersOf, Holding
    <3> QED BY <1>1, <3>3, <3>4, StoppedHoldsNot
  <2>3. CASE v \notin HoldersOf(workers, t)
    BY <2>1, <2>3 DEF HandedOver, HoldersOf
  <2> QED BY <2>2, <2>3
<1>3. \A v \in Workers \ {w} : workers'[v] = ws[v]
  BY DEF Start, HandedOver
<1> HIDE DEF ws
<1> QED BY <1>1, <1>2, <1>3 DEF OneHolder

LEMMA HolderPass ==
  ASSUME HolderInv, Pass \/ PassDies
  PROVE  OneHolder(workers') /\ OneHolder(mem') /\ (At("place")' => mem'[at'].status \in Holding)
<1> USE DEF unchangedDisk, Advance, Goto, At
<1>1. /\ workers \in [Workers -> Placed] /\ mem \in [Workers -> Placed]
      /\ OneHolder(workers) /\ OneHolder(mem) /\ (At("place") => mem[at].status \in Holding)
  BY DEF HolderInv, QueueInv, TypeInv
<1>2. \A w \in Workers : Unborn.status \notin Holding
  BY DEF Unborn, NeverPlaced, Holding
<1>3. ASSUME EndPass, workers' \in {workers, mem}
      PROVE  OneHolder(workers') /\ OneHolder(mem') /\ ~At("place")'
  BY <1>1, <1>2, <1>3 DEF EndPass, OneHolder
<1>4. ASSUME at \in Workers, NEW st, Set(st), st \in Holding => mem[at].status \in Holding
      PROVE  OneHolder(mem') /\ mem'[at].status = st
  <2>1. \A w \in Workers : mem'[w].status = IF w = at THEN st ELSE mem[w].status
    BY <1>1, <1>4 DEF Set, Placed, Worker
  <2>2. \A w \in Workers : mem'[w].status \in Holding => mem[w].status \in Holding
    BY <1>4, <2>1
  <2> QED BY <1>1, <1>4, <2>1, <2>2 DEF OneHolder
<1>5. CASE BeginPass
  BY <1>1, <1>5 DEF BeginPass
<1>6. CASE LookPast \/ LookUnlaunched \/ LookUnfinished \/ KillLater \/ Kill \/ ReapLater
           \/ PlaceLater \/ LaunchPlaced
  BY <1>1, <1>6
     DEF LookPast, LookUnlaunched, LookUnfinished, KillLater, Kill, ReapLater, PlaceLater,
         LaunchPlaced, Holding
<1>7. CASE LookExhausted \/ LookStarted \/ LookExited
  BY <1>1, <1>4, <1>7 DEF LookExhausted, LookStarted, LookExited, Holding
<1>8. CASE ReapStopped \/ \E noPolicy \in BOOLEAN : PlaceBlocked(noPolicy)
  BY <1>1, <1>4, <1>8 DEF ReapStopped, PlaceBlocked, Holding
<1>9. CASE ReapReplaced
  <2>1. at \in Workers /\ Set("waiting_for_capacity") /\ mem[at].status \in Holding
        /\ workers' = mem' /\ at' = at
    BY <1>9 DEF ReapReplaced, Holding
  <2> QED BY <1>4, <2>1 DEF Holding
<1>10. ASSUME NEW a \in Accounts, Place(a)
       PROVE  OneHolder(workers') /\ OneHolder(mem') /\ ~At("place")'
  <2>1. /\ at \in Workers /\ mem[at].status \in Holding /\ workers' = mem' /\ step' = "launch"
        /\ mem' = [mem EXCEPT ![at] = Reserved(mem[at], a)]
    BY <1>1, <1>10 DEF Place
  <2>2. \A w \in Workers : mem'[w].status \in Holding => mem[w].status \in Holding
    BY <1>1, <2>1
  <2> QED BY <1>1, <2>1, <2>2 DEF OneHolder
<1>11. CASE Finish \/ PassDies
  BY <1>3, <1>11 DEF Finish, PassDies
<1> QED BY <1>5, <1>6, <1>7, <1>8, <1>9, <1>10, <1>11 DEF Pass

LEMMA HolderStep ==
  ASSUME "retry_task" \in Trust, HolderInv, [Next]_vars
  PROVE  HolderInv'
<1> USE DEF unchangedPass, unchangedHost, unchangedDisk, unchangedState
<1>1. /\ QueueInv' /\ workers \in [Workers -> Placed] /\ mem \in [Workers -> Placed]
      /\ OneHolder(workers) /\ OneHolder(mem) /\ (At("place") => mem[at].status \in Holding)
  BY QueueStep DEF HolderInv, QueueInv, TypeInv
<1>2. ASSUME UNCHANGED <<mem, at, step>>, OneHolder(workers') PROVE HolderInv'
  BY <1>1, <1>2 DEF HolderInv, At
<1>3. ASSUME NEW w \in Workers, Start(w) PROVE HolderInv'
  BY <1>2, <1>3, HolderStart DEF Start
<1>4. ASSUME NEW w \in Workers, Stop(w) PROVE HolderInv'
  <2>1. workers'[w] = Stopped(workers[w]) /\ \A v \in Workers \ {w} : workers'[v] = workers[v]
    BY <1>1, <1>4 DEF Stop
  <2>2. \A v \in Workers : workers'[v].status \in Holding => workers[v].status \in Holding
    BY <1>1, <1>4, <2>1, StoppedHoldsNot DEF Stop
  <2>3. OneHolder(workers')
    BY <1>1, <2>2, FewerHolders
  <2> QED BY <1>2, <1>4, <2>3 DEF Stop
<1>5. ASSUME NEW t \in Tasks, StopTask(t) PROVE HolderInv'
  <2>1. \A v \in Workers : workers'[v].status \in Holding => workers[v].status \in Holding
    BY <1>1, <1>5, StoppedHoldsNot DEF StopTask
  <2>2. OneHolder(workers')
    BY <1>1, <2>1, FewerHolders
  <2> QED BY <1>2, <1>5, <2>2 DEF StopTask
<1>6. ASSUME NEW w \in Workers, Retry(w) PROVE HolderInv'
  <2>1. HoldersOf(workers, TaskOf[w]) = {}
    BY <1>6 DEF Retry, Retriable
  <2>2. \A v \in Workers : TaskOf[v] = TaskOf[w] => workers[v].status \notin Holding
    BY <2>1 DEF HoldersOf
  <2>3. \A v \in Workers \ {w} : workers'[v] = workers[v]
    BY <1>1, <1>6 DEF Retry
  <2>4. OneHolder(workers')
    BY <1>1, <2>2, <2>3 DEF OneHolder
  <2> QED BY <1>2, <1>6, <2>4 DEF Retry
<1>7. ASSUME NEW w \in Workers, NEW g \in Attempts, LateLaunch(w, g) \/ StartDies(w, g) \/ Exec(w, g)
      PROVE  HolderInv'
  <2>1. \A v \in Workers : workers'[v].status \in Holding => workers[v].status \in Holding
    BY <1>1, <1>7 DEF LateLaunch, StartDies, Exec, Lease, Holding, Placed, Worker
  <2> QED BY <1>1, <1>2, <1>7, <2>1, FewerHolders DEF LateLaunch, StartDies, Exec
<1>8. ASSUME \/ \E s \in Sessions, names \in (SUBSET Resources) \ {{}} : ClaimResources(s, names)
             \/ \E s \in Sessions : Poll(s)
             \/ \E s \in Sessions, keep \in SUBSET Resources : ReleaseResources(s, keep)
             \/ \E s \in Guests : GuestEnds(s)
             \/ \E w \in Workers, g \in Attempts :
                  SessionEnds(w, g) \/ SessionLost(w, g) \/ OrphanExits(w, g)
             \/ \E p \in Pools : CooldownEnds(p)
             \/ UNCHANGED vars
      PROVE  HolderInv'
  BY <1>1, <1>2, <1>8
     DEF ClaimResources, Poll, ReleaseResources, GuestEnds, SessionEnds, SessionLost, OrphanExits,
         CooldownEnds, vars
<1>9. ASSUME NEW w \in Workers, Elapsed(w) PROVE HolderInv'
  <2>1. \A v \in Workers : workers'[v].status = workers[v].status /\ mem'[v].status = mem[v].status
    BY <1>1, <1>9 DEF Elapsed, Placed, Worker
  <2>2. OneHolder(workers') /\ OneHolder(mem')
    BY <1>1, <2>1 DEF OneHolder
  <2> QED BY <1>1, <1>9, <2>1, <2>2 DEF Elapsed, HolderInv, At
<1>10. ASSUME Pass \/ PassDies PROVE HolderInv'
  BY <1>1, <1>10, HolderPass DEF HolderInv
<1> QED BY <1>3, <1>4, <1>5, <1>6, <1>7, <1>8, <1>9, <1>10 DEF Next, Command, Host

\* "A task has one worker at a time": across hand-overs, replacements, blocked
\* workers and dying passes, if nobody retries a worker whose task has another.
THEOREM OneWorkerOfATask ==
  ASSUME "retry_task" \in Trust
  PROVE  Spec => []OneWorkerPerTask
<1>1. HolderInv => OneWorkerPerTask
  BY DEF HolderInv, OneHolder, OneWorkerPerTask
<1>2. HolderInv /\ [Next]_vars => HolderInv'
  BY HolderStep
<1> QED BY <1>1, <1>2, HolderInit, PTL DEF Spec

-----------------------------------------------------------------------------
\* What a step may leave in tmux: providers that were there and are still
\* watched, by the copy of a pass as well.
LEMMA WatchKept ==
  ASSUME WatchInv, QueueInv',
         \A w \in Workers, g \in Attempts : tmux'[w][g] = "provider" =>
           Seated(workers'[w], g) /\ (at' # 0 => Seated(mem'[w], g)),
         At("reap")' => \A g \in Attempts : tmux'[at'][g] # "provider",
         At("place")' => mem'[at'].status = "waiting_for_capacity"
  PROVE  WatchInv'
BY DEF WatchInv

LEMMA WatchInit == Init => WatchInv
BY QueueInit DEF WatchInv, Init, At

LEMMA SeatedStopped ==
  ASSUME NEW rec \in Placed, NEW g \in Attempts, Seated(rec, g) PROVE Seated(Stopped(rec), g)
BY DEF Stopped, Seated, Placed, Worker, Attempts

\* A launch starts a shell, not a provider.
LEMMA LaunchSeats ==
  ASSUME tmux \in [Workers -> [Attempts -> Seat]], NEW w \in Workers, NEW g
  PROVE  \A v \in Workers, h \in Attempts :
           /\ Launched(w, g)[v][h] = "provider" => tmux[v][h] = "provider"
           /\ v # w \/ h # g => Launched(w, g)[v][h] = tmux[v][h]
BY DEF Launched

LEMMA WatchPass ==
  ASSUME WatchInv, QueueInv', Pass PROVE WatchInv'
<1> USE DEF unchangedDisk, unchangedHost, Advance, Goto, At
<1>1. /\ workers \in [Workers -> Placed] /\ mem \in [Workers -> Placed]
      /\ tmux \in [Workers -> [Attempts -> Seat]]
  BY DEF WatchInv, QueueInv, TypeInv, TypeOK
<1>2. /\ \A w \in Workers, g \in Attempts : tmux[w][g] = "provider" =>
           Seated(workers[w], g) /\ (at # 0 => Seated(mem[w], g))
      /\ At("reap") => \A g \in Attempts : tmux[at][g] # "provider"
      /\ At("place") => mem[at].status = "waiting_for_capacity"
  BY DEF WatchInv
<1>3. at \in Workers => at # 0 /\ at + 1 # 0
  BY DEF Workers
<1>4. ASSUME at \in Workers, NEW st, Set(st)
      PROVE  /\ \A w \in Workers : mem'[w].generation = mem[w].generation /\ mem'[w].pid = mem[w].pid
             /\ \A w \in Workers : mem'[w].status = IF w = at THEN st ELSE mem[w].status
             /\ \A w \in Workers, g \in Attempts :
                  Seated(mem[w], g) /\ (w = at => st \in {"running", "replacing", "stopping"}) =>
                    Seated(mem'[w], g)
  <2>1. \A w \in Workers : /\ mem'[w].generation = mem[w].generation /\ mem'[w].pid = mem[w].pid
                           /\ mem'[w].status = IF w = at THEN st ELSE mem[w].status
    BY <1>1, <1>4 DEF Set, Placed, Worker
  <2> QED BY <2>1 DEF Seated
<1>5. CASE BeginPass
  BY <1>1, <1>2, <1>5, WatchKept DEF BeginPass
<1>6. CASE LookPast \/ LookUnfinished \/ KillLater \/ ReapLater \/ PlaceLater
  BY <1>2, <1>3, <1>6, WatchKept
     DEF LookPast, LookUnfinished, KillLater, ReapLater, PlaceLater
<1>7. CASE LookUnlaunched \/ LaunchPlaced
  BY <1>1, <1>2, <1>3, <1>7, LaunchSeats, WatchKept DEF LookUnlaunched, LaunchPlaced
<1>8. CASE LookExhausted \/ LookStarted
  BY <1>2, <1>3, <1>4, <1>8, WatchKept DEF LookExhausted, LookStarted
<1>9. CASE LookExited
  <2>1. \A g \in Attempts : tmux[at][g] # "provider"
    BY <1>2, <1>3, <1>9 DEF LookExited, SeatOf, Seated, Attempts
  <2> QED BY <1>2, <1>3, <1>4, <1>9, <2>1, WatchKept DEF LookExited
<1>10. CASE Kill
  <2>1. /\ at \in Workers /\ UNCHANGED <<mem, workers>> /\ at' = at /\ step' = "reap"
        /\ tmux' = IF mem[at].generation = 0 THEN tmux
                   ELSE [tmux EXCEPT ![at][mem[at].generation] = "none"]
    BY <1>10 DEF Kill
  <2>2. \A w \in Workers, g \in Attempts : tmux'[w][g] = "provider" =>
          tmux[w][g] = "provider" /\ (w # at \/ g # mem[at].generation)
    <3>1. CASE mem[at].generation = 0
      BY <2>1, <3>1 DEF Attempts
    <3>2. CASE mem[at].generation # 0
      <4>1. tmux' = [tmux EXCEPT ![at][mem[at].generation] = "none"]
        BY <2>1, <3>2
      <4> QED BY <1>1, <2>1, <4>1
    <3> QED BY <3>1, <3>2
  <2>3. ASSUME NEW g \in Attempts, tmux'[at][g] = "provider" PROVE FALSE
    <3>1. tmux[at][g] = "provider" /\ g # mem[at].generation
      BY <2>1, <2>2, <2>3
    <3>2. Seated(mem[at], g)
      BY <1>2, <1>3, <2>1, <3>1
    <3> QED BY <3>1, <3>2 DEF Seated
  <2> QED BY <1>2, <2>1, <2>2, <2>3, WatchKept
<1>11. CASE ReapStopped \/ ReapReplaced
  <2>1. at \in Workers /\ step = "reap" /\ tmux' = tmux /\ workers' = mem'
        /\ \E st \in {"stopped", "waiting_for_capacity"} :
             Set(st) /\ (At("place")' => at' = at /\ st = "waiting_for_capacity")
        /\ ~At("reap")'
    BY <1>11 DEF ReapStopped, ReapReplaced
  <2> QED BY <1>2, <1>3, <1>4, <2>1, WatchKept
<1>12. ASSUME NEW noPolicy \in BOOLEAN, PlaceBlocked(noPolicy) PROVE WatchInv'
  <2>1. \A g \in Attempts : tmux[at][g] # "provider"
    BY <1>2, <1>3, <1>12 DEF PlaceBlocked, Seated
  <2> QED BY <1>2, <1>3, <1>4, <1>12, <2>1, WatchKept DEF PlaceBlocked
<1>13. ASSUME NEW a \in Accounts, Place(a) PROVE WatchInv'
  <2>1. \A g \in Attempts : tmux[at][g] # "provider"
    BY <1>2, <1>3, <1>13 DEF Place, Seated
  <2>2. /\ at \in Workers /\ workers' = mem' /\ tmux' = tmux /\ at' = at /\ step' = "launch"
        /\ \A w \in Workers \ {at} : mem'[w] = mem[w]
    BY <1>1, <1>13 DEF Place
  <2> QED BY <1>2, <1>3, <2>1, <2>2, WatchKept
<1>14. CASE Finish
  <2>1. at # 0
    BY <1>14, BrokerAssumption DEF Finish
  <2>2. workers' = mem /\ tmux' = tmux /\ at' = 0
    BY <1>14 DEF Finish, EndPass
  <2>3. ~At("reap")' /\ ~At("place")'
    BY <2>2 DEF Workers
  <2> QED BY <1>2, <2>1, <2>2, <2>3, WatchKept
<1> QED BY <1>5, <1>6, <1>7, <1>8, <1>9, <1>10, <1>11, <1>12, <1>13, <1>14 DEF Pass

LEMMA WatchStep ==
  ASSUME WatchInv, [Next]_vars
  PROVE  WatchInv'
<1> USE DEF unchangedPass, unchangedHost, unchangedDisk, unchangedState
<1>1. /\ QueueInv' /\ workers \in [Workers -> Placed] /\ mem \in [Workers -> Placed]
      /\ tmux \in [Workers -> [Attempts -> Seat]]
  BY QueueStep DEF WatchInv, QueueInv, TypeInv, TypeOK
<1>2. /\ \A w \in Workers, g \in Attempts : tmux[w][g] = "provider" =>
           Seated(workers[w], g) /\ (at # 0 => Seated(mem[w], g))
      /\ At("reap") => \A g \in Attempts : tmux[at][g] # "provider"
      /\ At("place") => mem[at].status = "waiting_for_capacity"
  BY DEF WatchInv
\* A command changes records, and no pass has a copy of them.
<1>3. ASSUME NoPass, UNCHANGED <<mem, at, step, tmux>>,
             \A w \in Workers, g \in Attempts :
               tmux[w][g] = "provider" /\ Seated(workers[w], g) => Seated(workers'[w], g)
      PROVE  WatchInv'
  BY <1>1, <1>2, <1>3, WatchKept DEF NoPass, At, Workers
<1>4. ASSUME NEW w \in Workers, Start(w) PROVE WatchInv'
  <2>1. \A v \in Workers \ {w} : workers'[v] \in {workers[v], Stopped(workers[v])}
    BY <1>4 DEF Start, HandedOver
  <2>2. \A g \in Attempts : ~Seated(workers[w], g)
    BY <1>4 DEF Start, Seated
  <2> QED BY <1>1, <1>3, <1>4, <2>1, <2>2, SeatedStopped DEF Start
<1>5. ASSUME \/ \E w \in Workers : Stop(w)
             \/ \E t \in Tasks : StopTask(t)
      PROVE  WatchInv'
  <2>1. \A v \in Workers : workers'[v] \in {workers[v], Stopped(workers[v])}
    BY <1>1, <1>5 DEF Stop, StopTask
  <2> QED BY <1>1, <1>3, <1>5, <2>1, SeatedStopped DEF Stop, StopTask
<1>6. ASSUME NEW w \in Workers, Retry(w) PROVE WatchInv'
  <2>1. \A v \in Workers \ {w} : workers'[v] = workers[v]
    BY <1>1, <1>6 DEF Retry
  <2>2. \A g \in Attempts : ~Seated(workers[w], g)
    BY <1>6 DEF Retry, Seated
  <2> QED BY <1>3, <1>6, <2>1, <2>2 DEF Retry
\* Processes end, shells start, and a pass sees none of it in its copy.
<1>7. ASSUME UNCHANGED <<workers, mem, at, step>>,
             \A w \in Workers, g \in Attempts :
               tmux'[w][g] = "provider" => tmux[w][g] = "provider"
      PROVE  WatchInv'
  BY <1>1, <1>2, <1>7, WatchKept DEF At
<1>8. ASSUME NEW w \in Workers, NEW g \in Attempts, LateLaunch(w, g) PROVE WatchInv'
  BY <1>1, <1>7, <1>8, LaunchSeats DEF LateLaunch
<1>9. ASSUME NEW w \in Workers, NEW g \in Attempts,
             StartDies(w, g) \/ SessionEnds(w, g) \/ SessionLost(w, g) \/ OrphanExits(w, g)
      PROVE  WatchInv'
  <2>1. tmux' = tmux \/ tmux' = [tmux EXCEPT ![w][g] = "none"]
    BY <1>9 DEF StartDies, SessionEnds, SessionLost, OrphanExits
  <2>2. \A v \in Workers, h \in Attempts : tmux'[v][h] = "provider" => tmux[v][h] = "provider"
    BY <1>1, <2>1
  <2> QED BY <1>7, <1>9, <2>2 DEF StartDies, SessionEnds, SessionLost, OrphanExits
<1>10. ASSUME NEW w \in Workers, NEW g \in Attempts, Exec(w, g) PROVE WatchInv'
  <2>1. CASE ~Lease(w, g)
    BY <1>1, <1>7, <1>10, <2>1 DEF Exec
  <2>2. CASE Lease(w, g)
    <3>1. /\ NoPass /\ UNCHANGED <<mem, at, step>>
          /\ workers' = [workers EXCEPT ![w].status = "running", ![w].pid = TRUE, ![w].recent = FALSE]
          /\ tmux' = [tmux EXCEPT ![w][g] = "provider"]
          /\ workers[w].generation = g
      BY <1>10, <2>2 DEF Exec, Lease
    <3>2. /\ \A v \in Workers \ {w} : workers'[v] = workers[v]
          /\ Seated(workers'[w], g)
      BY <1>1, <3>1 DEF Seated, Placed, Worker
    <3>3. \A v \in Workers, h \in Attempts : tmux'[v][h] = "provider" =>
            (v = w /\ h = g) \/ tmux[v][h] = "provider"
      BY <1>1, <3>1
    <3>4. \A v \in Workers, h \in Attempts : tmux'[v][h] = "provider" => Seated(workers'[v], h)
      <4> SUFFICES ASSUME NEW v \in Workers, NEW h \in Attempts, tmux'[v][h] = "provider"
                   PROVE  Seated(workers'[v], h)
        OBVIOUS
      <4>1. CASE v # w
        BY <1>2, <3>2, <3>3, <4>1
      <4>2. CASE v = w /\ h = g
        BY <3>2, <4>2
      <4>3. CASE v = w /\ h # g
        BY <1>2, <3>1, <3>3, <4>3 DEF Seated
      <4> QED BY <4>1, <4>2, <4>3
    <3> QED BY <1>1, <3>1, <3>4, WatchKept DEF NoPass, At, Workers
  <2> QED BY <2>1, <2>2
<1>11. ASSUME \/ \E s \in Sessions, names \in (SUBSET Resources) \ {{}} : ClaimResources(s, names)
              \/ \E s \in Sessions : Poll(s)
              \/ \E s \in Sessions, keep \in SUBSET Resources : ReleaseResources(s, keep)
              \/ \E s \in Guests : GuestEnds(s)
              \/ \E p \in Pools : CooldownEnds(p)
              \/ UNCHANGED vars
       PROVE  WatchInv'
  BY <1>7, <1>11
     DEF ClaimResources, Poll, ReleaseResources, GuestEnds, CooldownEnds, vars
<1>12. ASSUME NEW w \in Workers, Elapsed(w) PROVE WatchInv'
  <2>1. \A v \in Workers :
          /\ workers'[v].status = workers[v].status /\ mem'[v].status = mem[v].status
          /\ workers'[v].generation = workers[v].generation /\ mem'[v].generation = mem[v].generation
          /\ workers'[v].pid = workers[v].pid /\ mem'[v].pid = mem[v].pid
    BY <1>1, <1>12 DEF Elapsed, Placed, Worker
  <2> QED BY <1>1, <1>2, <1>12, <2>1, WatchKept DEF Elapsed, At, Seated
<1>13. CASE PassDies
  BY <1>1, <1>2, <1>13, WatchKept DEF PassDies, EndPass, At
<1>14. CASE Pass
  BY <1>1, <1>14, WatchPass
<1> QED BY <1>4, <1>5, <1>6, <1>8, <1>9, <1>10, <1>11, <1>12, <1>13, <1>14 DEF Next, Command, Host

\* No session outlives its lease: whatever is stopped, replaced, launched late or
\* retried, what runs in tmux is the present generation of a watched worker.
THEOREM SessionsAreWatched == Spec => []NoLeakedSession
<1>1. WatchInv => NoLeakedSession
  BY DEF WatchInv, Seated, NoLeakedSession
<1>2. WatchInv /\ [Next]_vars => WatchInv'
  BY WatchStep
<1> QED BY <1>1, <1>2, WatchInit, PTL DEF Spec

-----------------------------------------------------------------------------
(* One process of a worker.                                                *)

\* What a record r says of its worker's tmux sessions (seats), of the providers
\* that outlived theirs (alone) and of the launches still owed (owed): no process
\* outlives a record that may be placed again, nobody launches beside one that
\* runs, and nothing of a generation that is to come is there.
Owned(r, seats, alone, owed) ==
  /\ \A g \in alone :
       /\ r.generation = g /\ r.pid
       /\ r.status \in {"running", "replacing", "stopping", "blocked", "stopped"}
       /\ r.status = "running" => seats[g] = "none"
       /\ \A h \in Attempts : seats[h] # "provider"
  /\ \A g \in owed : r.generation = g /\ r.status \in {"starting", "running"} =>
       r.status = "starting" /\ r.recent /\ seats[g] = "none"
  /\ \A g \in Attempts : r.generation < g => seats[g] = "none" /\ g \notin owed
  /\ r.status = "unborn" => r.generation = 0

Alone(w) == {g \in Attempts : <<w, g>> \in orphans}
Owed(w)  == {g \in Attempts : <<w, g>> \in starts}

\* The copy of a pass is of the generations on disk.
Copied ==
  at # 0 => \A w \in Workers :
    /\ mem[w].generation = workers[w].generation /\ mem[w].pid = workers[w].pid
    /\ mem[w].status = "starting" => workers[w].status = "starting"

OwnerInv ==
  /\ WatchInv /\ Copied
  /\ \A w \in Workers : /\ Owned(workers[w], tmux[w], Alone(w), Owed(w))
                        /\ at # 0 => Owned(mem[w], tmux[w], Alone(w), Owed(w))
  /\ At("launch") => mem[at].status = "starting" /\ mem[at].generation \notin Owed(at)

\* What happens to the processes of a worker whose record stays as it is.
LEMMA HostOwned ==
  ASSUME NEW r \in Placed, NEW seats \in [Attempts -> Seat], NEW alone \in SUBSET Attempts,
         NEW owed \in SUBSET Attempts, Owned(r, seats, alone, owed), NEW g \in Attempts
  PROVE  /\ Owned(r, [seats EXCEPT ![g] = "none"], alone, owed)
         /\ \A fewer \in SUBSET alone : Owned(r, seats, fewer, owed)
         /\ \A fewer \in SUBSET owed : Owned(r, seats, alone, fewer)
         /\ \A fewer \in SUBSET owed :
              g <= r.generation /\ g \notin fewer /\ ~(r.status = "running" /\ g \in alone) =>
                Owned(r, [seats EXCEPT ![g] = "shell"], alone, fewer)
         /\ seats[g] = "provider" /\ (\A h \in Attempts : seats[h] = "provider" => Seated(r, h)) =>
              Owned(r, [seats EXCEPT ![g] = "none"], alone \cup {g}, owed)
<1>0. r.generation \in Nat /\ g \in Nat /\ Attempts \subseteq Nat
  BY BrokerAssumption DEF Placed, Worker, Attempts
<1>1. Owned(r, [seats EXCEPT ![g] = "none"], alone, owed)
  BY DEF Owned
<1>2. \A fewer \in SUBSET alone : Owned(r, seats, fewer, owed)
  BY DEF Owned
<1>3. \A fewer \in SUBSET owed : Owned(r, seats, alone, fewer)
  BY DEF Owned
<1>4. ASSUME NEW fewer \in SUBSET owed, g <= r.generation, g \notin fewer,
             ~(r.status = "running" /\ g \in alone)
      PROVE  Owned(r, [seats EXCEPT ![g] = "shell"], alone, fewer)
  BY <1>0, <1>4 DEF Owned
<1>5. ASSUME seats[g] = "provider", \A h \in Attempts : seats[h] = "provider" => Seated(r, h)
      PROVE  Owned(r, [seats EXCEPT ![g] = "none"], alone \cup {g}, owed)
  <2>1. Seated(r, g) /\ \A h \in Attempts : seats[h] = "provider" => h = g
    BY <1>5 DEF Seated
  <2>2. alone = {}
    BY <1>5 DEF Owned
  <2> QED BY <2>1, <2>2 DEF Owned, Seated
<1> QED BY <1>1, <1>2, <1>3, <1>4, <1>5

\* What happens to the record of a worker whose processes stay as they are.
LEMMA RecordOwned ==
  ASSUME NEW r \in Placed, NEW seats \in [Attempts -> Seat], NEW alone \in SUBSET Attempts,
         NEW owed \in SUBSET Attempts, Owned(r, seats, alone, owed)
  PROVE  /\ r.status # "unborn" => Owned(Stopped(r), seats, alone, owed)
         /\ \A q \in Placed :
              /\ q.generation = r.generation /\ q.pid = r.pid /\ q.status \notin {"unborn", "starting"}
              /\ alone # {} => q.status \in {"running", "replacing", "stopping", "blocked", "stopped"}
              /\ q.status = "running" => alone = {} /\ r.generation \notin owed
              => Owned(q, seats, alone, owed)
         /\ \A a \in Accounts : AttemptsLeft(r) /\ alone = {} =>
              /\ Owned(Reserved(r, a), seats, alone, owed)
              /\ Owned(Reserved(r, a), seats, alone, owed \cup {r.generation + 1})
              /\ r.generation + 1 \notin owed
         /\ ~(r.status = "starting" /\ r.generation \in owed) =>
              Owned([r EXCEPT !.recent = FALSE], seats, alone, owed)
<1>0. r.generation \in Nat /\ Attempts \subseteq Nat
  BY BrokerAssumption DEF Placed, Worker, Attempts
<1>1. r.status # "unborn" => Owned(Stopped(r), seats, alone, owed)
  BY DEF Owned, Stopped, Placed, Worker
<1>2. ASSUME NEW q \in Placed, q.generation = r.generation, q.pid = r.pid,
             q.status \notin {"unborn", "starting"},
             alone # {} => q.status \in {"running", "replacing", "stopping", "blocked", "stopped"},
             q.status = "running" => alone = {} /\ r.generation \notin owed
      PROVE  Owned(q, seats, alone, owed)
  BY <1>2 DEF Owned
<1>3. ASSUME NEW a \in Accounts, AttemptsLeft(r), alone = {}
      PROVE  /\ Owned(Reserved(r, a), seats, alone, owed)
             /\ Owned(Reserved(r, a), seats, alone, owed \cup {r.generation + 1})
             /\ r.generation + 1 \notin owed
  <2>1. r.generation + 1 \in Attempts /\ r.generation < r.generation + 1
    BY <1>0, <1>3, BrokerAssumption DEF AttemptsLeft, Attempts
  <2>2. seats[r.generation + 1] = "none" /\ r.generation + 1 \notin owed
    BY <2>1 DEF Owned
  <2>3. \A h \in Attempts : r.generation + 1 < h => r.generation < h /\ h # r.generation + 1
    BY <1>0
  <2>4. /\ Reserved(r, a).generation = r.generation + 1 /\ Reserved(r, a).status = "starting"
        /\ Reserved(r, a).recent = TRUE
    BY DEF Reserved
  <2> QED BY <1>3, <2>1, <2>2, <2>3, <2>4 DEF Owned
<1>4. ASSUME ~(r.status = "starting" /\ r.generation \in owed)
      PROVE  Owned([r EXCEPT !.recent = FALSE], seats, alone, owed)
  BY <1>4 DEF Owned, Placed, Worker
<1> QED BY <1>1, <1>2, <1>3, <1>4

\* A shell that finds its lease becomes the one process of its worker.
LEMMA ExecOwned ==
  ASSUME NEW r \in Placed, NEW seats \in [Attempts -> Seat], NEW alone \in SUBSET Attempts,
         NEW owed \in SUBSET Attempts, Owned(r, seats, alone, owed), NEW g \in Attempts,
         seats[g] = "shell", r.generation = g, r.status \in {"starting", "running"}
  PROVE  Owned([r EXCEPT !.status = "running", !.pid = TRUE, !.recent = FALSE],
               [seats EXCEPT ![g] = "provider"], alone, owed)
<1>1. alone = {} /\ g \notin owed
  BY DEF Owned
<1>2. \A h \in Attempts : g < h => h # g
  BY BrokerAssumption DEF Attempts
<1> QED BY <1>1, <1>2 DEF Owned, Placed, Worker

LEMMA OwnerInit == Init => OwnerInv
<1> SUFFICES ASSUME Init PROVE OwnerInv
  OBVIOUS
<1>1. \A w \in Workers : /\ workers[w].status = "unborn" /\ workers[w].generation = 0
                         /\ \A g \in Attempts : tmux[w][g] = "none"
                         /\ Alone(w) = {} /\ Owed(w) = {}
  BY DEF Init, Unborn, NeverPlaced, Alone, Owed
<1>2. at = 0 /\ ~At("launch")
  BY DEF Init, At
<1> QED BY <1>1, <1>2, WatchInit DEF OwnerInv, Copied, Owned

LEMMA OwnedType ==
  ASSUME QueueInv, NEW w \in Workers
  PROVE  /\ workers[w] \in Placed /\ mem[w] \in Placed /\ tmux[w] \in [Attempts -> Seat]
         /\ Alone(w) \in SUBSET Attempts /\ Owed(w) \in SUBSET Attempts
BY DEF QueueInv, TypeInv, TypeOK, Alone, Owed

\* What a step has to leave of each worker.
LEMMA OwnedKept ==
  ASSUME WatchInv', Copied',
         \A w \in Workers : /\ Owned(workers'[w], tmux'[w], Alone(w)', Owed(w)')
                            /\ at' # 0 => Owned(mem'[w], tmux'[w], Alone(w)', Owed(w)'),
         At("launch")' => mem'[at'].status = "starting" /\ mem'[at'].generation \notin Owed(at)'
  PROVE  OwnerInv'
BY DEF OwnerInv

\* A launch of a generation that is owed, or that nobody owes.
LEMMA LaunchOwned ==
  ASSUME QueueInv, NEW w \in Workers, NEW r \in Placed, Owned(r, tmux[w], Alone(w), Owed(w)),
         NEW g \in Attempts, NEW fewer \in SUBSET Owed(w), g \notin fewer,
         g <= r.generation, ~(r.status = "running" /\ g \in Alone(w))
  PROVE  Owned(r, Launched(w, g)[w], Alone(w), fewer)
<1>1. /\ tmux \in [Workers -> [Attempts -> Seat]]
      /\ Alone(w) \in SUBSET Attempts /\ Owed(w) \in SUBSET Attempts /\ tmux[w] \in [Attempts -> Seat]
  BY OwnedType DEF QueueInv, TypeInv, TypeOK
<1>2. CASE tmux[w][g] = "none"
  <2>1. Launched(w, g)[w] = [tmux[w] EXCEPT ![g] = "shell"]
    BY <1>1, <1>2 DEF Launched
  <2>2. Owned(r, [tmux[w] EXCEPT ![g] = "shell"], Alone(w), fewer)
    BY <1>1, HostOwned
  <2> QED BY <2>1, <2>2
<1>3. CASE tmux[w][g] # "none"
  BY <1>1, <1>3, HostOwned DEF Launched
<1> QED BY <1>2, <1>3

\* The commands: no pass has a copy.
LEMMA OwnerCommand ==
  ASSUME OwnerInv, WatchInv', NEW w \in Workers,
         "retry_exited" \in Trust,
         \/ Start(w) \/ Stop(w) \/ Retry(w) \/ \E t \in Tasks : StopTask(t)
         \/ \E g \in Attempts : Exec(w, g)
  PROVE  OwnerInv'
<1> USE DEF unchangedPass, unchangedHost
<1>1. /\ QueueInv /\ workers \in [Workers -> Placed] /\ tmux \in [Workers -> [Attempts -> Seat]]
      /\ \A v \in Workers : Owned(workers[v], tmux[v], Alone(v), Owed(v))
  BY DEF OwnerInv, WatchInv, QueueInv, TypeInv, TypeOK
<1>2. ASSUME NoPass, unchangedPass,
             \A v \in Workers : Owned(workers'[v], tmux'[v], Alone(v)', Owed(v)')
      PROVE  OwnerInv'
  <2>1. at' = 0 /\ ~At("launch")' /\ Copied'
    BY <1>2 DEF NoPass, At, Workers, Copied
  <2> QED BY <1>2, <2>1, OwnedKept
<1>3. \A v \in Workers : workers[v].status # "unborn" =>
        Owned(Stopped(workers[v]), tmux[v], Alone(v), Owed(v))
  BY <1>1, OwnedType, RecordOwned
<1>4. CASE Start(w)
  <2>1. /\ NoPass /\ UNCHANGED <<at, step, mem, tmux, orphans>> /\ workers[w].status = "unborn"
        /\ \/ workers' = [HandedOver(TaskOf[w]) EXCEPT ![w] = Created] /\ starts' = starts
           \/ \E a \in Accounts :
                /\ workers' = [HandedOver(TaskOf[w]) EXCEPT ![w] = Reserved(Created, a)]
                /\ starts' = starts \cup {<<w, 1>>}
    BY <1>4 DEF Start
  <2>2. ASSUME NEW v \in Workers, v # w
        PROVE  Owned(workers'[v], tmux'[v], Alone(v)', Owed(v)')
    <3>1. /\ workers'[v] = HandedOver(TaskOf[w])[v] /\ tmux' = tmux /\ Alone(v)' = Alone(v)
          /\ Owed(v)' = Owed(v)
      BY <2>1, <2>2 DEF HandedOver, Alone, Owed
    <3>2. \/ HandedOver(TaskOf[w])[v] = workers[v]
          \/ HandedOver(TaskOf[w])[v] = Stopped(workers[v]) /\ workers[v].status # "unborn"
      BY DEF HandedOver, HoldersOf, Holding
    <3> QED BY <1>1, <1>3, <3>1, <3>2
  <2>3. Owned(workers'[w], tmux'[w], Alone(w)', Owed(w)')
    <3>1. workers[w].generation = 0 /\ workers[w].status = "unborn" /\ tmux' = tmux /\ Alone(w)' = Alone(w)
      BY <1>1, <2>1 DEF Owned, Alone
    <3>2. Alone(w) = {} /\ \A g \in Attempts : tmux[w][g] = "none" /\ g \notin Owed(w)
      BY <1>1, <3>1, BrokerAssumption DEF Owned, Attempts
    <3>3. CASE workers'[w] = Created /\ starts' = starts
      <4>1. Owed(w)' = Owed(w)
        BY <3>3 DEF Owed
      <4> QED BY <3>1, <3>2, <3>3, <4>1 DEF Owned, Created, NeverPlaced
    <3>4. ASSUME NEW a \in Accounts, workers'[w] = Reserved(Created, a), starts' = starts \cup {<<w, 1>>}
          PROVE  Owned(workers'[w], tmux'[w], Alone(w)', Owed(w)')
      <4>1. /\ workers'[w].generation = 1 /\ workers'[w].status = "starting"
            /\ workers'[w].recent = TRUE
        BY <3>4 DEF Reserved, Created, NeverPlaced
      <4>2. \A g \in Owed(w)' : g = 1
        BY <3>2, <3>4 DEF Owed
      <4>3. \A g \in Attempts : 1 < g => g # 1
        OBVIOUS
      <4> QED BY <3>1, <3>2, <4>1, <4>2, <4>3 DEF Owned, Owed
    <3>5. w \in DOMAIN HandedOver(TaskOf[w])
      BY DEF HandedOver
    <3> QED BY <2>1, <3>3, <3>4, <3>5
  <2> QED BY <1>2, <2>1, <2>2, <2>3
<1>5. CASE Stop(w) \/ \E t \in Tasks : StopTask(t)
  <2>1. \A v \in Workers : \/ workers'[v] = workers[v]
                           \/ workers[v].status # "unborn" /\ workers'[v] = Stopped(workers[v])
    BY <1>1, <1>5 DEF Stop, StopTask
  <2>2. UNCHANGED <<at, step, mem, tmux, orphans, starts>> /\ NoPass
    BY <1>5 DEF Stop, StopTask
  <2> QED BY <1>1, <1>2, <1>3, <2>1, <2>2 DEF Alone, Owed
\* The operator saw that the old process has ended.
<1>6. CASE Retry(w)
  <2>1. /\ NoPass /\ UNCHANGED <<at, step, mem, tmux, orphans, starts>>
        /\ workers' = [workers EXCEPT ![w].status = "waiting_for_capacity"]
        /\ Alone(w) = {}
    BY <1>6 DEF Retry, Retriable, Alone
  <2>2. Owned(workers'[w], tmux[w], Alone(w), Owed(w))
    <3>1. workers'[w] = [workers[w] EXCEPT !.status = "waiting_for_capacity"]
      BY <1>1, <2>1
    <3>2. /\ workers'[w].generation = workers[w].generation
          /\ workers'[w].status = "waiting_for_capacity"
      BY <1>1, <3>1 DEF Placed, Worker
    <3> QED BY <1>1, <2>1, <3>2 DEF Owned
  <2>3. \A v \in Workers \ {w} : workers'[v] = workers[v]
    BY <1>1, <2>1
  <2> QED BY <1>1, <1>2, <2>1, <2>2, <2>3 DEF Alone, Owed
<1>7. ASSUME NEW g \in Attempts, Exec(w, g) PROVE OwnerInv'
  <2>1. /\ NoPass /\ UNCHANGED <<at, step, mem, orphans, starts>> /\ tmux[w][g] = "shell"
        /\ \A v \in Workers : Alone(v)' = Alone(v) /\ Owed(v)' = Owed(v)
    BY <1>7 DEF Exec, Alone, Owed
  <2>2. CASE Lease(w, g)
    <3>1. /\ workers' = [workers EXCEPT ![w].status = "running", ![w].pid = TRUE, ![w].recent = FALSE]
          /\ tmux' = [tmux EXCEPT ![w][g] = "provider"]
          /\ workers[w].generation = g /\ workers[w].status \in {"starting", "running"}
      BY <1>7, <2>2 DEF Exec, Lease
    <3>2. /\ workers'[w] = [workers[w] EXCEPT !.status = "running", !.pid = TRUE, !.recent = FALSE]
          /\ tmux'[w] = [tmux[w] EXCEPT ![g] = "provider"]
          /\ \A v \in Workers \ {w} : workers'[v] = workers[v] /\ tmux'[v] = tmux[v]
      BY <1>1, <3>1
    <3>3. Owned(workers'[w], tmux'[w], Alone(w), Owed(w))
      BY <1>1, <2>1, <3>1, <3>2, OwnedType, ExecOwned
    <3> QED BY <1>1, <1>2, <2>1, <3>2, <3>3
  <2>3. CASE ~Lease(w, g)
    <3>1. /\ workers' = workers
          /\ tmux' = [tmux EXCEPT ![w][g] = "none"]
      BY <1>7, <2>3 DEF Exec
    <3>2. /\ tmux'[w] = [tmux[w] EXCEPT ![g] = "none"]
          /\ \A v \in Workers \ {w} : tmux'[v] = tmux[v]
      BY <1>1, <3>1
    <3>3. Owned(workers[w], [tmux[w] EXCEPT ![g] = "none"], Alone(w), Owed(w))
      BY <1>1, OwnedType, HostOwned
    <3> QED BY <1>1, <1>2, <2>1, <3>1, <3>2, <3>3
  <2> QED BY <2>2, <2>3
<1> QED BY <1>4, <1>5, <1>6, <1>7

\* A pass: on disk and in its copy.
LEMMA OwnerPass ==
  ASSUME OwnerInv, WatchInv', Pass PROVE OwnerInv'
<1> USE DEF unchangedDisk, unchangedHost, Advance, Goto
<1>1. /\ QueueInv /\ workers \in [Workers -> Placed] /\ mem \in [Workers -> Placed]
      /\ tmux \in [Workers -> [Attempts -> Seat]] /\ Copied /\ 0 \notin Workers
      /\ \A v \in Workers : Owned(workers[v], tmux[v], Alone(v), Owed(v))
      /\ at # 0 => \A v \in Workers : Owned(mem[v], tmux[v], Alone(v), Owed(v))
      /\ At("launch") => mem[at].status = "starting" /\ mem[at].generation \notin Owed(at)
  BY DEF OwnerInv, WatchInv, QueueInv, TypeInv, TypeOK, Workers
<1>2. mem' \in [Workers -> Placed]
  BY DEF WatchInv, QueueInv, TypeInv
<1>3. \A v \in Workers, g \in Attempts : tmux[v][g] = "provider" =>
        Seated(workers[v], g) /\ (at # 0 => Seated(mem[v], g))
  BY DEF OwnerInv, WatchInv
<1>4. at \in Workers => at # 0 /\ at + 1 # 0
  BY DEF Workers
\* Steps that leave the host alone.
<1>5. ASSUME UNCHANGED <<tmux, orphans, starts>>, Copied',
             \A v \in Workers : /\ Owned(workers'[v], tmux[v], Alone(v), Owed(v))
                                /\ at' # 0 => Owned(mem'[v], tmux[v], Alone(v), Owed(v)),
             ~At("launch")'
      PROVE  OwnerInv'
  BY <1>5, OwnedKept DEF Alone, Owed
<1>6. CASE BeginPass
  <2>1. ~At("launch")' /\ Copied'
    BY <1>6 DEF BeginPass, At, Copied
  <2> QED BY <1>1, <1>5, <1>6, <2>1 DEF BeginPass
<1>7. CASE LookPast \/ LookUnfinished \/ KillLater \/ ReapLater \/ PlaceLater
  <2>1. /\ UNCHANGED <<workers, mem, tmux, orphans, starts>> /\ at # 0
        /\ step' # "launch"
    BY <1>4, <1>7 DEF LookPast, LookUnfinished, KillLater, ReapLater, PlaceLater, At
  <2>2. Copied' /\ ~At("launch")'
    BY <1>1, <2>1 DEF Copied, At
  <2> QED BY <1>1, <1>5, <2>1, <2>2
\* What the pass notes in its copy, and whether it saves it.
<1>8. ASSUME at \in Workers, NEW st \in Status \ {"unborn", "starting"}, Set(st),
             Alone(at) # {} => st \in {"running", "replacing", "stopping", "blocked", "stopped"},
             st = "running" => Alone(at) = {} /\ mem[at].generation \notin Owed(at),
             UNCHANGED <<tmux, orphans, starts>>, step' # "launch",
             workers' = workers \/ workers' = mem'
      PROVE  OwnerInv'
  <2>1. /\ mem'[at].generation = mem[at].generation /\ mem'[at].pid = mem[at].pid
        /\ mem'[at].status = st
        /\ \A v \in Workers \ {at} : mem'[v] = mem[v]
    BY <1>1, <1>8 DEF Set, Placed, Worker
  <2>2. Owned(mem'[at], tmux[at], Alone(at), Owed(at))
    BY <1>1, <1>2, <1>4, <1>8, <2>1, OwnedType, RecordOwned
  <2>3. Copied'
    BY <1>1, <1>4, <1>8, <2>1 DEF Copied
  <2> QED BY <1>1, <1>4, <1>5, <1>8, <2>1, <2>2, <2>3 DEF At
<1>9. CASE LookExhausted \/ LookExited
  BY <1>8, <1>9 DEF LookExhausted, LookExited, At, Status, Using, Holding
\* Who starts has no process yet, and whoever has a session owes no launch.
<1>10. CASE LookStarted
  <2>1. /\ at \in Workers /\ mem[at].status = "starting" /\ mem[at].generation # 0
        /\ tmux[at][mem[at].generation] # "none"
    BY <1>1, <1>10 DEF LookStarted, At, SeatOf
  <2>2. Owned(mem[at], tmux[at], Alone(at), Owed(at))
    BY <1>1, <1>4, <2>1
  <2>3. Alone(at) = {} /\ mem[at].generation \notin Owed(at)
    BY <2>1, <2>2 DEF Owned
  <2> QED BY <1>8, <1>10, <2>1, <2>3 DEF LookStarted, At, Status, Using, Holding
<1>11. ASSUME NEW noPolicy \in BOOLEAN, PlaceBlocked(noPolicy) PROVE OwnerInv'
  BY <1>8, <1>11 DEF PlaceBlocked, At, Status
<1>12. CASE ReapStopped
  BY <1>8, <1>12 DEF ReapStopped, At, Status
\* The process has ended: the worker may be placed again.
<1>13. CASE ReapReplaced
  <2>1. at \in Workers /\ ~StillThere
    BY <1>13 DEF ReapReplaced, At
  <2>2. Owned(mem[at], tmux[at], Alone(at), Owed(at))
    BY <1>1, <1>4, <2>1
  <2>3. Alone(at) = {}
    BY <2>1, <2>2 DEF Owned, StillThere, Alive, Alone
  <2> QED BY <1>8, <1>13, <2>1, <2>3 DEF ReapReplaced, Status, Using, Holding
<1>14. ASSUME NEW a \in Accounts, Place(a) PROVE OwnerInv'
  <2>1. /\ at \in Workers /\ AttemptsLeft(mem[at]) /\ mem'[at] = Reserved(mem[at], a)
        /\ \A v \in Workers \ {at} : mem'[v] = mem[v]
        /\ workers' = mem' /\ at' = at /\ UNCHANGED <<tmux, orphans, starts>>
    BY <1>1, <1>14 DEF Place, At
  <2>2. mem[at].status = "waiting_for_capacity"
    BY <1>14 DEF Place, OwnerInv, WatchInv
  <2>3. Owned(mem[at], tmux[at], Alone(at), Owed(at))
    BY <1>1, <1>4, <2>1
  <2>4. Alone(at) = {}
    BY <2>2, <2>3 DEF Owned
  <2>5. /\ Owned(mem'[at], tmux[at], Alone(at), Owed(at))
        /\ mem[at].generation + 1 \notin Owed(at)
    <3>1. /\ Owned(Reserved(mem[at], a), tmux[at], Alone(at), Owed(at))
          /\ mem[at].generation + 1 \notin Owed(at)
      <4>1. /\ mem[at] \in Placed /\ tmux[at] \in [Attempts -> Seat]
            /\ Alone(at) \in SUBSET Attempts /\ Owed(at) \in SUBSET Attempts
        BY <1>1, <2>1, OwnedType
      <4> QED BY <2>1, <2>3, <2>4, <4>1, RecordOwned
    <3> QED BY <2>1, <3>1
  <2>6. mem'[at].status = "starting" /\ mem'[at].generation = mem[at].generation + 1
    BY <2>1 DEF Reserved
  <2>7. \A v \in Workers : Owned(mem'[v], tmux[v], Alone(v), Owed(v))
    BY <1>1, <1>4, <2>1, <2>5
  <2>8. Copied' /\ Owed(at)' = Owed(at) /\ \A v \in Workers : Alone(v)' = Alone(v) /\ Owed(v)' = Owed(v)
    BY <2>1 DEF Copied, Alone, Owed
  <2> QED BY <2>1, <2>5, <2>6, <2>7, <2>8, OwnedKept
\* Launched: on disk the worker starts with the same generation.
<1>15. CASE LookUnlaunched \/ LaunchPlaced
  <2> DEFINE g == mem[at].generation
  <2>1. /\ at \in Workers /\ mem[at].status = "starting" /\ g \in Attempts
        /\ tmux' = Launched(at, g) /\ UNCHANGED <<workers, mem, orphans, starts>> /\ at' = at + 1
        /\ step' = "look"
    <3>1. at \in Workers /\ mem[at].status = "starting"
      BY <1>1, <1>15 DEF LookUnlaunched, LaunchPlaced, At
    <3>2. g \in Attempts
      BY <1>1, <3>1 DEF Placed, Worker, Attempts
    <3> QED BY <1>15, <3>1, <3>2 DEF LookUnlaunched, LaunchPlaced
  <2>2. g \notin Owed(at)
    <3>1. CASE LookUnlaunched
      <4>1. ~mem[at].recent /\ Owned(mem[at], tmux[at], Alone(at), Owed(at))
        BY <1>1, <1>4, <2>1, <3>1 DEF LookUnlaunched
      <4> QED BY <2>1, <4>1 DEF Owned
    <3>2. CASE LaunchPlaced
      BY <1>1, <3>2 DEF LaunchPlaced
    <3> QED BY <1>15, <3>1, <3>2
  <2>3. workers[at].status = "starting" /\ workers[at].generation = g
    BY <1>1, <1>4, <2>1 DEF Copied
  <2>4. g <= g
    BY <2>1, BrokerAssumption DEF Attempts
  <2> HIDE DEF g
  <2>5. /\ Owned(workers[at], tmux'[at], Alone(at), Owed(at))
        /\ Owned(mem[at], tmux'[at], Alone(at), Owed(at))
    <3>1. workers[at] \in Placed /\ mem[at] \in Placed /\ mem[at].generation = g
      BY <1>1, <2>1 DEF g
    <3>2. Owned(workers[at], Launched(at, g)[at], Alone(at), Owed(at))
      BY <1>1, <2>1, <2>2, <2>3, <2>4, <3>1, LaunchOwned
    <3>3. Owned(mem[at], Launched(at, g)[at], Alone(at), Owed(at))
      BY <1>1, <1>4, <2>1, <2>2, <2>4, <3>1, LaunchOwned
    <3> QED BY <2>1, <3>2, <3>3
  <2>6. \A v \in Workers : v # at => tmux'[v] = tmux[v]
    BY <1>1, <2>1 DEF Launched
  <2>7. /\ Copied' /\ ~At("launch")'
        /\ \A v \in Workers : Alone(v)' = Alone(v) /\ Owed(v)' = Owed(v)
    BY <1>1, <1>4, <2>1 DEF Copied, At, Alone, Owed
  <2> QED BY <1>1, <1>4, <2>1, <2>5, <2>6, <2>7, OwnedKept
\* The provider of a session that is killed may outlive it.
<1>16. CASE Kill
  <2> DEFINE g == mem[at].generation
  <2>1. /\ at \in Workers /\ UNCHANGED <<workers, mem, starts, at>> /\ step' = "reap"
        /\ tmux' = IF g = 0 THEN tmux ELSE [tmux EXCEPT ![at][g] = "none"]
        /\ orphans' = IF SeatOf(at, g) = "provider" THEN orphans \cup {<<at, g>>} ELSE orphans
    BY <1>16 DEF Kill, At
  <2>2. /\ Copied' /\ ~At("launch")'
        /\ \A v \in Workers : Owed(v)' = Owed(v)
    BY <1>1, <2>1 DEF Copied, At, Owed
  <2>3. CASE g = 0
    <3>1. tmux' = tmux /\ orphans' = orphans
      BY <2>1, <2>3 DEF SeatOf
    <3> QED BY <1>1, <1>4, <1>5, <2>1, <2>2, <3>1
  <2>4. CASE g # 0
    <3>1. g \in Attempts /\ SeatOf(at, g) = tmux[at][g]
      BY <1>1, <2>1, <2>4 DEF Placed, Worker, Attempts, SeatOf
    <3> HIDE DEF g
    <3>2. /\ tmux'[at] = [tmux[at] EXCEPT ![g] = "none"]
          /\ \A v \in Workers \ {at} : tmux'[v] = tmux[v] /\ Alone(v)' = Alone(v)
          /\ Alone(at)' = IF tmux[at][g] = "provider" THEN Alone(at) \cup {g} ELSE Alone(at)
      BY <1>1, <2>1, <2>4, <3>1 DEF Alone
    <3>3. ASSUME NEW r \in {workers[at], mem[at]}
          PROVE  Owned(r, tmux'[at], Alone(at)', Owed(at))
      <4>1. /\ r \in Placed /\ Owned(r, tmux[at], Alone(at), Owed(at))
            /\ \A h \in Attempts : tmux[at][h] = "provider" => Seated(r, h)
        <5>1. CASE r = workers[at]
          BY <1>1, <1>3, <2>1, <5>1
        <5>2. CASE r = mem[at]
          BY <1>1, <1>3, <1>4, <2>1, <5>2
        <5> QED BY <5>1, <5>2
      <4>2. /\ Owned(r, [tmux[at] EXCEPT ![g] = "none"], Alone(at), Owed(at))
            /\ tmux[at][g] = "provider" =>
                 Owned(r, [tmux[at] EXCEPT ![g] = "none"], Alone(at) \cup {g}, Owed(at))
        <5>1. /\ tmux[at] \in [Attempts -> Seat]
              /\ Alone(at) \in SUBSET Attempts /\ Owed(at) \in SUBSET Attempts
          BY <1>1, <2>1, OwnedType
        <5> QED BY <3>1, <4>1, <5>1, HostOwned
      <4> QED BY <3>2, <4>2
    <3>4. \A v \in Workers : /\ Owned(workers'[v], tmux'[v], Alone(v)', Owed(v)')
                             /\ at' # 0 => Owned(mem'[v], tmux'[v], Alone(v)', Owed(v)')
      <4> TAKE v \in Workers
      <4>1. CASE v = at
        BY <2>1, <2>2, <3>3, <4>1
      <4>2. CASE v # at
        BY <1>1, <1>4, <2>1, <2>2, <3>2, <4>2
      <4> QED BY <4>1, <4>2
    <3> QED BY <2>2, <3>4, OwnedKept
  <2> QED BY <2>3, <2>4
<1>17. CASE Finish
  <2>1. at # 0 /\ workers' = mem /\ at' = 0 /\ UNCHANGED <<tmux, orphans, starts>>
    BY <1>17, BrokerAssumption DEF Finish, EndPass
  <2>2. Copied' /\ ~At("launch")'
    BY <1>1, <2>1 DEF Copied, At
  <2> QED BY <1>1, <1>5, <2>1, <2>2
<1> QED BY <1>6, <1>7, <1>9, <1>10, <1>11, <1>12, <1>13, <1>14, <1>15, <1>16, <1>17 DEF Pass

\* The host, and launches that come late: whether or not a pass runs.
LEMMA OwnerHost ==
  ASSUME OwnerInv, WatchInv', NEW w \in Workers,
         "prompt_start" \in Trust,
         \/ Elapsed(w)
         \/ \E g \in Attempts : \/ SessionEnds(w, g) \/ SessionLost(w, g) \/ OrphanExits(w, g)
                                \/ LateLaunch(w, g) \/ StartDies(w, g)
  PROVE  OwnerInv'
<1> USE DEF unchangedPass, unchangedHost, unchangedDisk, unchangedState
<1>1. /\ QueueInv /\ workers \in [Workers -> Placed] /\ mem \in [Workers -> Placed]
      /\ tmux \in [Workers -> [Attempts -> Seat]] /\ Copied /\ 0 \notin Workers
      /\ \A v \in Workers : Owned(workers[v], tmux[v], Alone(v), Owed(v))
      /\ at # 0 => \A v \in Workers : Owned(mem[v], tmux[v], Alone(v), Owed(v))
      /\ At("launch") => mem[at].status = "starting" /\ mem[at].generation \notin Owed(at)
  BY DEF OwnerInv, WatchInv, QueueInv, TypeInv, TypeOK, Workers
<1>2. \A v \in Workers, g \in Attempts : tmux[v][g] = "provider" =>
        Seated(workers[v], g) /\ (at # 0 => Seated(mem[v], g))
  BY DEF OwnerInv, WatchInv
\* The processes of one worker change, under a record that stays.
<1>3. ASSUME UNCHANGED <<workers, mem, at, step>>,
             \A v \in Workers \ {w} : tmux'[v] = tmux[v] /\ Alone(v)' = Alone(v) /\ Owed(v)' = Owed(v),
             Owed(w)' \subseteq Owed(w),
             \A r \in Placed :
               /\ r \in {workers[w], mem[w]} /\ Owned(r, tmux[w], Alone(w), Owed(w))
               /\ \A h \in Attempts : tmux[w][h] = "provider" => Seated(r, h)
               => Owned(r, tmux'[w], Alone(w)', Owed(w)')
      PROVE  OwnerInv'
  <2>1. Copied' /\ (At("launch")' => At("launch"))
    BY <1>1, <1>3 DEF Copied, At
  <2>2. At("launch")' => mem'[at'].status = "starting" /\ mem'[at'].generation \notin Owed(at)'
    <3>1. Owed(at)' = {g \in Attempts : <<at', g>> \in starts'} /\ at' = at
      BY <1>3 DEF Owed
    <3>2. at = w \/ at \in Workers \ {w} => Owed(at)' \subseteq Owed(at)
      BY <1>3
    <3> QED BY <1>1, <1>3, <2>1, <3>2 DEF At
  <2>3. \A v \in Workers : /\ Owned(workers'[v], tmux'[v], Alone(v)', Owed(v)')
                           /\ at' # 0 => Owned(mem'[v], tmux'[v], Alone(v)', Owed(v)')
    BY <1>1, <1>2, <1>3
  <2> QED BY <2>1, <2>2, <2>3, OwnedKept
<1>4. ASSUME NEW g \in Attempts, SessionEnds(w, g) PROVE OwnerInv'
  <2>1. /\ UNCHANGED <<workers, mem, at, step, orphans, starts>>
        /\ tmux'[w] = [tmux[w] EXCEPT ![g] = "none"]
        /\ \A v \in Workers \ {w} : tmux'[v] = tmux[v]
        /\ \A v \in Workers : Alone(v)' = Alone(v) /\ Owed(v)' = Owed(v)
    BY <1>1, <1>4 DEF SessionEnds, Alone, Owed
  <2>2. \A r \in Placed : Owned(r, tmux[w], Alone(w), Owed(w)) =>
          Owned(r, [tmux[w] EXCEPT ![g] = "none"], Alone(w), Owed(w))
    BY <1>1, OwnedType, HostOwned
  <2> QED BY <1>3, <2>1, <2>2
<1>5. ASSUME NEW g \in Attempts, SessionLost(w, g) PROVE OwnerInv'
  <2>1. /\ UNCHANGED <<workers, mem, at, step, starts>> /\ tmux[w][g] = "provider"
        /\ tmux'[w] = [tmux[w] EXCEPT ![g] = "none"] /\ Alone(w)' = Alone(w) \cup {g}
        /\ \A v \in Workers \ {w} : tmux'[v] = tmux[v] /\ Alone(v)' = Alone(v)
        /\ \A v \in Workers : Owed(v)' = Owed(v)
    BY <1>1, <1>5 DEF SessionLost, Alone, Owed
  <2>2. \A r \in Placed :
          /\ Owned(r, tmux[w], Alone(w), Owed(w))
          /\ \A h \in Attempts : tmux[w][h] = "provider" => Seated(r, h)
          => Owned(r, [tmux[w] EXCEPT ![g] = "none"], Alone(w) \cup {g}, Owed(w))
    BY <1>1, <2>1, OwnedType, HostOwned
  <2> QED BY <1>3, <2>1, <2>2
<1>6. ASSUME NEW g \in Attempts, OrphanExits(w, g) PROVE OwnerInv'
  <2>1. /\ UNCHANGED <<workers, mem, at, step, tmux, starts>> /\ Alone(w)' \subseteq Alone(w)
        /\ \A v \in Workers \ {w} : Alone(v)' = Alone(v)
        /\ \A v \in Workers : Owed(v)' = Owed(v)
    BY <1>6 DEF OrphanExits, Alone, Owed
  <2>2. \A r \in Placed : Owned(r, tmux[w], Alone(w), Owed(w)) =>
          \A fewer \in SUBSET Alone(w) : Owned(r, tmux[w], fewer, Owed(w))
    BY DEF Owned
  <2> QED BY <1>3, <2>1, <2>2
<1>7. ASSUME NEW g \in Attempts, StartDies(w, g) PROVE OwnerInv'
  <2>1. /\ UNCHANGED <<workers, mem, at, step, tmux, orphans>> /\ Owed(w)' \subseteq Owed(w)
        /\ \A v \in Workers \ {w} : Owed(v)' = Owed(v)
        /\ \A v \in Workers : Alone(v)' = Alone(v)
    BY <1>7 DEF StartDies, Alone, Owed
  <2>2. \A r \in Placed : Owned(r, tmux[w], Alone(w), Owed(w)) =>
          \A fewer \in SUBSET Owed(w) : Owned(r, tmux[w], Alone(w), fewer)
    BY DEF Owned
  <2> QED BY <1>3, <2>1, <2>2
\* However much has happened since: a generation that is owed is no later than
\* the present one, and if it is that one, nothing of it has run.
<1>8. ASSUME NEW g \in Attempts, LateLaunch(w, g) PROVE OwnerInv'
  <2>1. /\ UNCHANGED <<workers, mem, at, step, orphans>> /\ tmux' = Launched(w, g)
        /\ g \in Owed(w) /\ Owed(w)' = Owed(w) \ {g}
        /\ \A v \in Workers \ {w} : Owed(v)' = Owed(v)
        /\ \A v \in Workers : Alone(v)' = Alone(v)
    BY <1>8 DEF LateLaunch, Alone, Owed
  <2>2. ASSUME NEW r \in Placed, Owned(r, tmux[w], Alone(w), Owed(w))
        PROVE  Owned(r, Launched(w, g)[w], Alone(w), Owed(w) \ {g})
    <3>1. r.generation \in Nat /\ g \in Nat
      BY BrokerAssumption DEF Placed, Worker, Attempts
    <3>2. g <= r.generation
      BY <2>1, <2>2, <3>1 DEF Owned
    <3>3. ~(r.status = "running" /\ g \in Alone(w))
      BY <2>1, <2>2 DEF Owned
    <3> QED BY <1>1, <2>2, <3>2, <3>3, LaunchOwned
  <2>3. \A v \in Workers \ {w} : tmux'[v] = tmux[v]
    BY <1>1, <2>1 DEF Launched
  <2> QED BY <1>3, <2>1, <2>2, <2>3
\* The 30 seconds of a start end only after its launch.
<1>9. CASE Elapsed(w)
  <2>1. /\ UNCHANGED <<at, step, tmux, orphans, starts>>
        /\ workers'[w] = [workers[w] EXCEPT !.recent = FALSE]
        /\ mem'[w] = [mem[w] EXCEPT !.recent = FALSE]
        /\ \A v \in Workers \ {w} : workers'[v] = workers[v] /\ mem'[v] = mem[v]
        /\ \A v \in Workers : Alone(v)' = Alone(v) /\ Owed(v)' = Owed(v)
        /\ ~(workers[w].status = "starting" /\ workers[w].generation \in Owed(w))
    BY <1>1, <1>9 DEF Elapsed, Alone, Owed
  <2>2. \A v \in Workers : /\ workers'[v].generation = workers[v].generation
                           /\ workers'[v].pid = workers[v].pid
                           /\ workers'[v].status = workers[v].status
                           /\ mem'[v].generation = mem[v].generation
                           /\ mem'[v].pid = mem[v].pid /\ mem'[v].status = mem[v].status
    BY <1>1, <2>1 DEF Placed, Worker
  <2>3. Copied'
    BY <1>1, <2>1, <2>2 DEF Copied
  <2>4. \A r \in Placed :
          /\ Owned(r, tmux[w], Alone(w), Owed(w))
          /\ ~(r.status = "starting" /\ r.generation \in Owed(w))
          => Owned([r EXCEPT !.recent = FALSE], tmux[w], Alone(w), Owed(w))
    BY <1>1, OwnedType, RecordOwned
  <2>5. at # 0 => ~(mem[w].status = "starting" /\ mem[w].generation \in Owed(w))
    BY <1>1, <2>1 DEF Copied
  <2>6. \A v \in Workers : /\ Owned(workers'[v], tmux'[v], Alone(v)', Owed(v)')
                           /\ at' # 0 => Owned(mem'[v], tmux'[v], Alone(v)', Owed(v)')
    BY <1>1, <2>1, <2>4, <2>5
  <2>7. At("launch")' => mem'[at'].status = "starting" /\ mem'[at'].generation \notin Owed(at)'
    <3>1. At("launch")' => At("launch") /\ Owed(at)' = Owed(at)
      BY <2>1 DEF At, Owed
    <3> QED BY <1>1, <2>1, <2>2, <3>1 DEF At
  <2> QED BY <2>3, <2>6, <2>7, OwnedKept
<1> QED BY <1>4, <1>5, <1>6, <1>7, <1>8, <1>9

LEMMA OwnerStep ==
  ASSUME "retry_exited" \in Trust, "prompt_start" \in Trust, OwnerInv, [Next]_vars
  PROVE  OwnerInv'
<1>1. WatchInv'
  BY WatchStep DEF OwnerInv
<1>2. ASSUME UNCHANGED <<workers, at, step, mem, tmux, orphans, starts>> PROVE OwnerInv'
  BY <1>1, <1>2 DEF OwnerInv, Copied, Owned, Alone, Owed, At
<1>3. CASE \/ \E s \in Sessions, names \in (SUBSET Resources) \ {{}} : ClaimResources(s, names)
           \/ \E s \in Sessions : Poll(s)
           \/ \E s \in Sessions, keep \in SUBSET Resources : ReleaseResources(s, keep)
           \/ \E s \in Guests : GuestEnds(s)
           \/ \E p \in Pools : CooldownEnds(p)
           \/ UNCHANGED vars
  BY <1>2, <1>3 DEF ClaimResources, Poll, ReleaseResources, GuestEnds, CooldownEnds, vars,
                    unchangedPass, unchangedHost
<1>4. CASE PassDies
  <2>1. at' = 0 /\ UNCHANGED <<workers, tmux, orphans, starts>>
    BY <1>4 DEF PassDies, EndPass, unchangedDisk, unchangedHost
  <2>2. Copied' /\ ~At("launch")'
    BY <2>1 DEF Copied, At, Workers
  <2> QED BY <1>1, <2>1, <2>2, OwnedKept DEF OwnerInv, Alone, Owed
<1>5. CASE Pass
  BY <1>1, <1>5, OwnerPass
<1>6. CASE \/ \E w \in Workers : Start(w) \/ Stop(w) \/ Retry(w)
           \/ \E t \in Tasks : StopTask(t)
           \/ \E w \in Workers, g \in Attempts : Exec(w, g)
  <2>1. ASSUME NEW w \in Workers, \/ Start(w) \/ Stop(w) \/ Retry(w)
                                  \/ \E t \in Tasks : StopTask(t)
                                  \/ \E g \in Attempts : Exec(w, g)
        PROVE  OwnerInv'
    BY <1>1, <2>1, OwnerCommand
  <2>2. ASSUME NEW t \in Tasks, StopTask(t), Workers = {} PROVE OwnerInv'
    BY <1>1, <2>2 DEF StopTask, unchangedPass, unchangedHost, OwnerInv, Copied, At
  <2> QED BY <1>6, <2>1, <2>2
<1>7. CASE \/ \E w \in Workers : Elapsed(w)
           \/ \E w \in Workers, g \in Attempts :
                \/ SessionEnds(w, g) \/ SessionLost(w, g) \/ OrphanExits(w, g)
                \/ LateLaunch(w, g) \/ StartDies(w, g)
  <2>1. ASSUME NEW w \in Workers,
               \/ Elapsed(w)
               \/ \E g \in Attempts : \/ SessionEnds(w, g) \/ SessionLost(w, g) \/ OrphanExits(w, g)
                                      \/ LateLaunch(w, g) \/ StartDies(w, g)
        PROVE  OwnerInv'
    BY <1>1, <2>1, OwnerHost
  <2> QED BY <1>7, <2>1
<1> QED BY <1>3, <1>4, <1>5, <1>6, <1>7 DEF Next, Command, Host

\* At most one provider of a worker runs, in its session or beyond it, whatever
\* dies and however late a launch comes, as long as nobody retries a worker whose
\* process still runs and `start` launches before the supervisor does so for it.
THEOREM OneProviderOfAWorker ==
  ASSUME "retry_exited" \in Trust, "prompt_start" \in Trust
  PROVE  Spec => []SingleOwner
<1>1. OwnerInv /\ [Next]_vars => OwnerInv'
  BY OwnerStep
<1>2. OwnerInv => SingleOwner
  <2> SUFFICES ASSUME OwnerInv, NEW w \in Workers
               PROVE  Cardinality({g \in Attempts : tmux[w][g] = "provider"})
                        + Cardinality({g \in Attempts : <<w, g>> \in orphans}) <= 1
    BY DEF SingleOwner
  <2> DEFINE inTmux == {g \in Attempts : tmux[w][g] = "provider"}
             beyond == {g \in Attempts : <<w, g>> \in orphans}
  <2>1. inTmux \subseteq {workers[w].generation}
    BY DEF OwnerInv, WatchInv, Seated
  <2>2. beyond \subseteq {workers[w].generation} /\ (beyond # {} => inTmux = {})
    BY DEF OwnerInv, Owned, Alone
  <2> HIDE DEF inTmux, beyond
  <2>3. inTmux = {} \/ inTmux = {workers[w].generation}
    BY <2>1
  <2>4. beyond = {} \/ beyond = {workers[w].generation}
    BY <2>2
  <2>5. Cardinality(inTmux) + Cardinality(beyond) <= 1
    <3>1. Cardinality({}) = 0 /\ Cardinality({workers[w].generation}) = 1
      BY FS_EmptySet, FS_Singleton
    <3>2. CASE inTmux = {} /\ beyond = {}
      BY <3>1, <3>2
    <3>3. CASE inTmux = {workers[w].generation} /\ beyond = {}
      BY <3>1, <3>3
    <3>4. CASE inTmux = {} /\ beyond = {workers[w].generation}
      BY <3>1, <3>4
    <3> QED BY <2>2, <2>3, <2>4, <3>2, <3>3, <3>4
  <2> QED BY <2>5 DEF inTmux, beyond
<1> QED BY <1>1, <1>2, OwnerInit, PTL DEF Spec

-----------------------------------------------------------------------------
(* No pool carries more than its most generous account allows.             *)

\* Worker w, with record r, takes its place in the pool p.
Takes(r, w, p) ==
  /\ r.account # NoAccount /\ PoolOf[r.account] = p
  /\ r.status \in {"starting", "running", "replacing"} \/ SeatOf(w, r.generation) = "provider"

Carried(ws, p) == {w \in Workers : Takes(ws[w], w, p)}

Fits(S, p) == S # {} => \E a \in Accounts : PoolOf[a] = p /\ Cardinality(S) <= MaxWorkers[a]

\* On disk, and in the copy of a pass, from which it places.
PoolInv ==
  /\ WatchInv
  /\ \A p \in Pools : Fits(Carried(workers, p), p) /\ (at # 0 => Fits(Carried(mem, p), p))

LEMMA PoolFinite ==
  ASSUME NEW S \in SUBSET Workers
  PROVE  IsFiniteSet(S) /\ Cardinality(S) \in Nat
<1>1. IsFiniteSet(Workers)
  BY FS_Interval DEF Workers
<1>2. IsFiniteSet(S)
  BY <1>1, FS_Subset
<1> QED BY <1>2, FS_CardinalityType

LEMMA FewerFit ==
  ASSUME NEW p \in Pools, NEW S \in SUBSET Workers, NEW T \in SUBSET S, Fits(S, p)
  PROVE  Fits(T, p)
<1>1. Cardinality(T) \in Nat /\ Cardinality(S) \in Nat /\ Cardinality(T) <= Cardinality(S)
  BY PoolFinite, FS_Subset
<1> SUFFICES ASSUME T # {} PROVE \E a \in Accounts : PoolOf[a] = p /\ Cardinality(T) <= MaxWorkers[a]
  BY DEF Fits
<1>2. PICK a \in Accounts : PoolOf[a] = p /\ Cardinality(S) <= MaxWorkers[a]
  BY DEF Fits
<1>3. MaxWorkers[a] \in Nat
  BY BrokerAssumption
<1> QED BY <1>1, <1>2, <1>3

\* One more, where there was room for one.
LEMMA OneMoreFits ==
  ASSUME NEW p \in Pools, NEW S \in SUBSET Workers, NEW T \in SUBSET Workers, NEW w \in Workers,
         T \subseteq S \cup {w}, NEW a \in Accounts, PoolOf[a] = p, Cardinality(S) < MaxWorkers[a]
  PROVE  Fits(T, p)
<1>1. IsFiniteSet(S) /\ Cardinality(S) \in Nat /\ Cardinality(T) \in Nat /\ MaxWorkers[a] \in Nat
  BY PoolFinite, BrokerAssumption
<1>2. IsFiniteSet(S \cup {w}) /\ Cardinality(S \cup {w}) <= Cardinality(S) + 1
  <2>1. IsFiniteSet(S \cup {w})
    BY <1>1, FS_AddElement
  <2>2. CASE w \in S
    <3>1. S \cup {w} = S
      BY <2>2
    <3> QED BY <2>1, <3>1, <1>1
  <2>3. CASE w \notin S
    <3>1. Cardinality(S \cup {w}) = Cardinality(S) + 1
      BY <1>1, <2>3, FS_AddElement
    <3> QED BY <2>1, <3>1, <1>1
  <2> QED BY <2>2, <2>3
<1>3. Cardinality(S \cup {w}) \in Nat /\ Cardinality(T) <= Cardinality(S \cup {w})
  BY <1>2, PoolFinite, FS_Subset
<1>4. Cardinality(T) <= MaxWorkers[a]
  BY <1>1, <1>2, <1>3
<1> QED BY <1>4 DEF Fits

\* A step after which nobody takes a place that did not before.
LEMMA PoolKept ==
  ASSUME PoolInv, WatchInv',
         \/ \A w \in Workers, p \in Pools : Takes(workers[w], w, p)' => Takes(workers[w], w, p)
         \/ at # 0 /\ \A w \in Workers, p \in Pools : Takes(workers[w], w, p)' => Takes(mem[w], w, p),
         at' # 0 =>
           \/ \A w \in Workers, p \in Pools : Takes(mem[w], w, p)' => Takes(workers[w], w, p)
           \/ at # 0 /\ \A w \in Workers, p \in Pools : Takes(mem[w], w, p)' => Takes(mem[w], w, p)
  PROVE  PoolInv'
<1> SUFFICES ASSUME NEW p \in Pools
             PROVE  Fits(Carried(workers, p)', p) /\ (at' # 0 => Fits(Carried(mem, p)', p))
  BY DEF PoolInv, Fits
<1>1. /\ Fits(Carried(workers, p), p) /\ (at # 0 => Fits(Carried(mem, p), p))
      /\ Carried(workers, p) \in SUBSET Workers /\ Carried(mem, p) \in SUBSET Workers
  BY DEF PoolInv, Carried
<1>2. \/ Carried(workers, p)' \subseteq Carried(workers, p)
      \/ at # 0 /\ Carried(workers, p)' \subseteq Carried(mem, p)
  BY DEF Carried
<1>3. at' # 0 => \/ Carried(mem, p)' \subseteq Carried(workers, p)
                 \/ at # 0 /\ Carried(mem, p)' \subseteq Carried(mem, p)
  BY DEF Carried
<1>4. Fits(Carried(workers, p)', p)
  BY <1>1, <1>2, FewerFit
<1>5. at' # 0 => Fits(Carried(mem, p)', p)
  BY <1>1, <1>3, FewerFit
<1> QED BY <1>4, <1>5

\* Whoever takes a place is one the choice of an account counts: a provider is
\* that of a live worker.
LEMMA CarriedCount ==
  ASSUME WatchInv, NEW p \in Pools
  PROVE  /\ Carried(workers, p) \subseteq InPool(workers, p)
         /\ at # 0 => Carried(mem, p) \subseteq InPool(mem, p)
<1>1. ASSUME NEW w \in Workers, NEW r \in Placed, SeatOf(w, r.generation) = "provider"
      PROVE  r.generation \in Attempts /\ tmux[w][r.generation] = "provider"
  BY <1>1 DEF SeatOf, Placed, Worker, Attempts
<1>2. workers \in [Workers -> Placed] /\ mem \in [Workers -> Placed]
  BY DEF WatchInv, QueueInv, TypeInv
<1>3. \A w \in Workers : SeatOf(w, workers[w].generation) = "provider" => workers[w].status \in Live
  BY <1>1, <1>2 DEF WatchInv, Seated, Live
<1>4. at # 0 => \A w \in Workers : SeatOf(w, mem[w].generation) = "provider" => mem[w].status \in Live
  BY <1>1, <1>2 DEF WatchInv, Seated, Live
<1> QED BY <1>3, <1>4 DEF Carried, Takes, InPool, Live

LEMMA StoppedTakes ==
  ASSUME NEW rec \in Placed, rec.status # "unborn", NEW w \in Workers, NEW p \in Pools,
         Takes(Stopped(rec), w, p)
  PROVE  Takes(rec, w, p)
BY DEF Takes, Stopped, Placed, Worker

LEMMA PoolPass ==
  ASSUME PoolInv, WatchInv', Pass PROVE PoolInv'
<1> USE DEF unchangedDisk, unchangedHost, Advance, Goto, At
<1>1. /\ workers \in [Workers -> Placed] /\ mem \in [Workers -> Placed]
      /\ tmux \in [Workers -> [Attempts -> Seat]]
  BY DEF PoolInv, WatchInv, QueueInv, TypeInv, TypeOK
<1>2. at \in Workers => at # 0 /\ at + 1 # 0
  BY DEF Workers
\* What the pass notes in its copy, and whether it saves it.
<1>3. ASSUME at \in Workers, NEW st, Set(st), tmux' = tmux,
             \/ st \notin {"starting", "running", "replacing"}
             \/ mem[at].status \in {"starting", "running", "replacing"},
             workers' = workers \/ workers' = mem'
      PROVE  PoolInv'
  <2>1. \A w \in Workers : /\ mem'[w].account = mem[w].account
                           /\ mem'[w].generation = mem[w].generation
                           /\ mem'[w].status = IF w = at THEN st ELSE mem[w].status
    BY <1>1, <1>3 DEF Set, Placed, Worker
  <2>2. \A w \in Workers, p \in Pools : Takes(mem[w], w, p)' => Takes(mem[w], w, p)
    BY <1>3, <2>1 DEF Takes, SeatOf
  <2>3. workers' = workers =>
          \A w \in Workers, p \in Pools : Takes(workers[w], w, p)' => Takes(workers[w], w, p)
    BY <1>3 DEF Takes, SeatOf
  <2>4. workers' = mem' =>
          \A w \in Workers, p \in Pools : Takes(workers[w], w, p)' => Takes(mem[w], w, p)
    BY <2>2 DEF Takes, SeatOf
  <2> QED BY <1>2, <1>3, <2>2, <2>3, <2>4, PoolKept
\* Sessions that start and end, under records that stay.
<1>4. ASSUME UNCHANGED <<workers, mem>>, at # 0,
             \A w \in Workers, g \in Attempts : tmux'[w][g] = "provider" => tmux[w][g] = "provider"
      PROVE  PoolInv'
  <2>1. \A w \in Workers, r \in Placed :
          r.generation # 0 /\ tmux'[w][r.generation] = "provider" => tmux[w][r.generation] = "provider"
    BY <1>4 DEF Placed, Worker, Attempts
  <2>2. \A w \in Workers, p \in Pools : /\ Takes(mem[w], w, p)' => Takes(mem[w], w, p)
                                        /\ Takes(workers[w], w, p)' => Takes(workers[w], w, p)
    BY <1>1, <1>4, <2>1 DEF Takes, SeatOf
  <2> QED BY <1>4, <2>2, PoolKept
<1>5. CASE BeginPass
  <2>1. workers' = workers /\ mem' = workers /\ tmux' = tmux
    BY <1>5 DEF BeginPass
  <2>2. \A w \in Workers, p \in Pools : /\ Takes(mem[w], w, p)' => Takes(workers[w], w, p)
                                        /\ Takes(workers[w], w, p)' => Takes(workers[w], w, p)
    BY <2>1 DEF Takes, SeatOf
  <2> QED BY <2>2, PoolKept
<1>6. CASE LookPast \/ LookUnfinished \/ KillLater \/ ReapLater \/ PlaceLater
  BY <1>2, <1>4, <1>6 DEF LookPast, LookUnfinished, KillLater, ReapLater, PlaceLater
<1>7. CASE LookUnlaunched \/ LaunchPlaced
  BY <1>1, <1>2, <1>4, <1>7, LaunchSeats DEF LookUnlaunched, LaunchPlaced
<1>8. CASE LookExhausted \/ LookStarted \/ LookExited
  BY <1>3, <1>8 DEF LookExhausted, LookStarted, LookExited
<1>9. CASE Kill
  <2>1. /\ at \in Workers /\ UNCHANGED <<mem, workers>>
        /\ tmux' = tmux \/ tmux' = [tmux EXCEPT ![at][mem[at].generation] = "none"]
    BY <1>9 DEF Kill
  <2>2. \A w \in Workers, g \in Attempts : tmux'[w][g] = "provider" => tmux[w][g] = "provider"
    BY <1>1, <2>1
  <2> QED BY <1>2, <1>4, <2>1, <2>2
<1>10. CASE ReapStopped \/ ReapReplaced
  BY <1>3, <1>10 DEF ReapStopped, ReapReplaced
<1>11. ASSUME NEW noPolicy \in BOOLEAN, PlaceBlocked(noPolicy) PROVE PoolInv'
  BY <1>3, <1>11 DEF PlaceBlocked
\* An account is taken only while the sessions of its pool, those on their way
\* out included, leave room.
<1>12. ASSUME NEW a \in Accounts, Place(a) PROVE PoolInv'
  <2>1. /\ at \in Workers /\ CanTake(mem, a) /\ mem'[at].account = a
        /\ \A w \in Workers \ {at} : mem'[w] = mem[w]
        /\ workers' = mem' /\ tmux' = tmux /\ at' = at
    BY <1>1, <1>12 DEF Place, Reserved
  <2>2. \A w \in Workers \ {at}, p \in Pools : Takes(mem[w], w, p)' => Takes(mem[w], w, p)
    BY <2>1 DEF Takes, SeatOf
  <2>3. ASSUME NEW p \in Pools PROVE Fits(Carried(mem, p)', p)
    <3>1. /\ Carried(mem, p)' \in SUBSET Workers /\ Carried(mem, p) \in SUBSET Workers
          /\ InPool(mem, p) \in SUBSET Workers
          /\ Carried(mem, p)' \subseteq Carried(mem, p) \cup {at}
      BY <2>2 DEF Carried, InPool
    <3>2. CASE p = PoolOf[a]
      <4>1. Carried(mem, p) \subseteq InPool(mem, p)
        BY <1>2, <2>1, CarriedCount DEF PoolInv
      <4>2. Carried(mem, p)' \subseteq InPool(mem, p) \cup {at}
        BY <3>1, <4>1
      <4> QED BY <2>1, <3>1, <3>2, <4>2, OneMoreFits DEF CanTake
    <3>3. CASE p # PoolOf[a]
      <4>1. at \notin Carried(mem, p)'
        BY <2>1, <3>3 DEF Carried, Takes
      <4>2. Fits(Carried(mem, p), p)
        BY <1>2, <2>1 DEF PoolInv
      <4> QED BY <3>1, <4>1, <4>2, FewerFit
    <3> QED BY <3>2, <3>3
  <2>4. \A p \in Pools : Carried(workers, p)' = Carried(mem, p)'
    BY <2>1 DEF Carried, Takes, SeatOf
  <2> QED BY <2>3, <2>4 DEF PoolInv, Fits
<1>13. CASE Finish
  <2>1. at # 0 /\ workers' = mem /\ tmux' = tmux /\ at' = 0
    BY <1>13, BrokerAssumption DEF Finish, EndPass
  <2>2. \A w \in Workers, p \in Pools : Takes(workers[w], w, p)' => Takes(mem[w], w, p)
    BY <2>1 DEF Takes, SeatOf
  <2> QED BY <2>1, <2>2, PoolKept
<1> QED BY <1>5, <1>6, <1>7, <1>8, <1>9, <1>10, <1>11, <1>12, <1>13 DEF Pass

LEMMA PoolStep ==
  ASSUME PoolInv, [Next]_vars
  PROVE  PoolInv'
<1> USE DEF unchangedPass, unchangedHost, unchangedDisk, unchangedState
<1>1. /\ WatchInv' /\ workers \in [Workers -> Placed] /\ mem \in [Workers -> Placed]
      /\ tmux \in [Workers -> [Attempts -> Seat]]
  BY WatchStep DEF PoolInv, WatchInv, QueueInv, TypeInv, TypeOK
\* A command on records that are not in a pass's copy.
<1>2. ASSUME NoPass, unchangedPass,
             \A w \in Workers, p \in Pools : Takes(workers[w], w, p)' => Takes(workers[w], w, p)
      PROVE  PoolInv'
  BY <1>1, <1>2, PoolKept DEF NoPass
\* A slot is taken while there is room: a session that is handed over or stopped
\* counts until it is gone.
<1>3. ASSUME NEW w \in Workers, Start(w) PROVE PoolInv'
  <2>1. /\ NoPass /\ UNCHANGED <<at, step, mem, tmux>>
        /\ \/ workers' = [HandedOver(TaskOf[w]) EXCEPT ![w] = Created]
           \/ \E a \in Accounts :
                /\ CanTake(workers, a)
                /\ workers' = [HandedOver(TaskOf[w]) EXCEPT ![w] = Reserved(Created, a)]
    BY <1>3 DEF Start
  <2>2. \A v \in Workers \ {w} : \/ workers'[v] = workers[v]
                                 \/ workers[v].status # "unborn" /\ workers'[v] = Stopped(workers[v])
    BY <2>1 DEF HandedOver, HoldersOf, Holding
  <2>3. \A v \in Workers \ {w}, p \in Pools : Takes(workers[v], v, p)' => Takes(workers[v], v, p)
    <3> TAKE v \in Workers \ {w}, p \in Pools
    <3>1. Takes(workers[v], v, p)' => Takes(workers'[v], v, p)
      BY <2>1 DEF Takes, SeatOf
    <3>2. Takes(Stopped(workers[v]), v, p) /\ workers[v].status # "unborn" => Takes(workers[v], v, p)
      BY <1>1, StoppedTakes
    <3> QED BY <2>2, <3>1, <3>2
  <2>4. w \in DOMAIN HandedOver(TaskOf[w])
    BY DEF HandedOver
  <2>5. CASE workers'[w] = Created
    <3>1. \A p \in Pools : ~Takes(workers[w], w, p)'
      BY <2>5 DEF Takes, Created, NeverPlaced
    <3> QED BY <1>2, <2>1, <2>3, <3>1
  <2>6. ASSUME NEW a \in Accounts, CanTake(workers, a), workers'[w] = Reserved(Created, a)
        PROVE  PoolInv'
    <3>1. ASSUME NEW p \in Pools PROVE Fits(Carried(workers, p)', p)
      <4>1. /\ Carried(workers, p)' \in SUBSET Workers /\ Carried(workers, p) \in SUBSET Workers
            /\ InPool(workers, p) \in SUBSET Workers
            /\ Carried(workers, p)' \subseteq Carried(workers, p) \cup {w}
        BY <2>3 DEF Carried, InPool
      <4>2. CASE p = PoolOf[a]
        <5>1. Carried(workers, p) \subseteq InPool(workers, p)
          BY CarriedCount DEF PoolInv
        <5>2. Carried(workers, p)' \subseteq InPool(workers, p) \cup {w}
          BY <4>1, <5>1
        <5> QED BY <2>6, <4>1, <4>2, <5>2, OneMoreFits DEF CanTake
      <4>3. CASE p # PoolOf[a]
        <5>1. w \notin Carried(workers, p)'
          BY <2>6, <4>3 DEF Carried, Takes, Reserved
        <5>2. Fits(Carried(workers, p), p)
          BY DEF PoolInv
        <5> QED BY <4>1, <5>1, <5>2, FewerFit
      <4> QED BY <4>2, <4>3
    <3>2. at' = 0
      BY <2>1 DEF NoPass
    <3> QED BY <1>1, <3>1, <3>2 DEF PoolInv, Fits
  <2> QED BY <2>1, <2>4, <2>5, <2>6
<1>4. CASE (\E w \in Workers : Stop(w)) \/ \E t \in Tasks : StopTask(t)
  <2>1. /\ NoPass /\ UNCHANGED <<at, step, mem, tmux>>
        /\ \A v \in Workers : \/ workers'[v] = workers[v]
                              \/ workers[v].status # "unborn" /\ workers'[v] = Stopped(workers[v])
    BY <1>1, <1>4 DEF Stop, StopTask
  <2>2. \A v \in Workers, p \in Pools : Takes(workers[v], v, p)' => Takes(workers[v], v, p)
    <3> TAKE v \in Workers, p \in Pools
    <3>1. Takes(workers[v], v, p)' => Takes(workers'[v], v, p)
      BY <2>1 DEF Takes, SeatOf
    <3>2. Takes(Stopped(workers[v]), v, p) /\ workers[v].status # "unborn" => Takes(workers[v], v, p)
      BY <1>1, StoppedTakes
    <3> QED BY <2>1, <3>1, <3>2
  <2> QED BY <1>2, <2>1, <2>2
\* Status, perhaps, but neither account nor generation; no provider is new but
\* that of a worker that starts or runs.
<1>5. ASSUME \A w \in Workers :
               /\ workers'[w].account = workers[w].account /\ mem'[w].account = mem[w].account
               /\ workers'[w].generation = workers[w].generation
               /\ mem'[w].generation = mem[w].generation,
             \A w \in Workers :
               workers'[w].status \in {"starting", "running", "replacing"} =>
                 workers[w].status \in {"starting", "running", "replacing"},
             \A w \in Workers, g \in Attempts : tmux'[w][g] = "provider" =>
               \/ tmux[w][g] = "provider"
               \/ workers[w].status \in {"starting", "running"} /\ at' = 0,
             \A w \in Workers : mem'[w].status = mem[w].status, at' = at
      PROVE  PoolInv'
  <2>1. \A w \in Workers : \A r \in Placed :
          r.generation # 0 /\ tmux'[w][r.generation] = "provider" =>
            \/ tmux[w][r.generation] = "provider"
            \/ workers[w].status \in {"starting", "running"} /\ at' = 0
    BY <1>5 DEF Placed, Worker, Attempts
  <2>2. \A w \in Workers, p \in Pools : Takes(workers[w], w, p)' => Takes(workers[w], w, p)
    BY <1>1, <1>5, <2>1 DEF Takes, SeatOf
  <2>3. at' # 0 => \A w \in Workers, p \in Pools : Takes(mem[w], w, p)' => Takes(mem[w], w, p)
    BY <1>1, <1>5, <2>1 DEF Takes, SeatOf
  <2> QED BY <1>1, <1>5, <2>2, <2>3, PoolKept
<1>6. ASSUME NEW w \in Workers, Retry(w) PROVE PoolInv'
  <2>1. /\ UNCHANGED <<mem, at, tmux>> /\ workers' = [workers EXCEPT ![w].status = "waiting_for_capacity"]
    BY <1>6 DEF Retry
  <2>2. \A v \in Workers : /\ workers'[v].account = workers[v].account
                           /\ workers'[v].generation = workers[v].generation
                           /\ workers'[v].status \in {workers[v].status, "waiting_for_capacity"}
    BY <1>1, <2>1 DEF Placed, Worker
  <2> QED BY <1>5, <2>1, <2>2
<1>7. ASSUME NEW w \in Workers, NEW g \in Attempts, Exec(w, g) PROVE PoolInv'
  <2>1. NoPass /\ UNCHANGED <<mem, at>>
    BY <1>7 DEF Exec
  <2>2. CASE Lease(w, g)
    <3>1. /\ workers' = [workers EXCEPT ![w].status = "running", ![w].pid = TRUE, ![w].recent = FALSE]
          /\ tmux' = [tmux EXCEPT ![w][g] = "provider"]
          /\ workers[w].status \in {"starting", "running"}
      BY <1>7, <2>2 DEF Exec, Lease
    <3>2. \A v \in Workers : /\ workers'[v].account = workers[v].account
                             /\ workers'[v].generation = workers[v].generation
                             /\ v # w => workers'[v].status = workers[v].status
      BY <1>1, <3>1 DEF Placed, Worker
    <3>3. \A v \in Workers, h \in Attempts : tmux'[v][h] = "provider" => v = w \/ tmux[v][h] = "provider"
      BY <1>1, <3>1
    <3> QED BY <1>5, <2>1, <3>1, <3>2, <3>3 DEF NoPass
  <2>3. CASE ~Lease(w, g)
    <3>1. workers' = workers /\ tmux' = [tmux EXCEPT ![w][g] = "none"]
      BY <1>7, <2>3 DEF Exec
    <3>2. \A v \in Workers, h \in Attempts : tmux'[v][h] = "provider" => tmux[v][h] = "provider"
      BY <1>1, <3>1
    <3> QED BY <1>5, <2>1, <3>1, <3>2
  <2> QED BY <2>2, <2>3
<1>8. ASSUME NEW w \in Workers, NEW g \in Attempts,
             \/ SessionEnds(w, g) \/ SessionLost(w, g) \/ OrphanExits(w, g)
             \/ LateLaunch(w, g) \/ StartDies(w, g)
      PROVE  PoolInv'
  <2>1. /\ UNCHANGED <<workers, mem, at>>
        /\ tmux' \in {tmux, Launched(w, g), [tmux EXCEPT ![w][g] = "none"]}
    BY <1>8 DEF SessionEnds, SessionLost, OrphanExits, LateLaunch, StartDies
  <2>2. \A v \in Workers, h \in Attempts :
          /\ Launched(w, g)[v][h] = "provider" => tmux[v][h] = "provider"
          /\ [tmux EXCEPT ![w][g] = "none"][v][h] = "provider" => tmux[v][h] = "provider"
    BY <1>1, LaunchSeats
  <2>3. \A v \in Workers, h \in Attempts : tmux'[v][h] = "provider" => tmux[v][h] = "provider"
    BY <2>1, <2>2
  <2> QED BY <1>5, <2>1, <2>3
<1>9. ASSUME NEW w \in Workers, Elapsed(w) PROVE PoolInv'
  <2>1. \A v \in Workers :
          /\ workers'[v].status = workers[v].status /\ mem'[v].status = mem[v].status
          /\ workers'[v].generation = workers[v].generation /\ mem'[v].generation = mem[v].generation
          /\ workers'[v].account = workers[v].account /\ mem'[v].account = mem[v].account
    BY <1>1, <1>9 DEF Elapsed, Placed, Worker
  <2> QED BY <1>5, <1>9, <2>1 DEF Elapsed
<1>10. ASSUME \/ \E s \in Sessions, names \in (SUBSET Resources) \ {{}} : ClaimResources(s, names)
              \/ \E s \in Sessions : Poll(s)
              \/ \E s \in Sessions, keep \in SUBSET Resources : ReleaseResources(s, keep)
              \/ \E s \in Guests : GuestEnds(s)
              \/ \E p \in Pools : CooldownEnds(p)
              \/ UNCHANGED vars
       PROVE  PoolInv'
  <2>1. UNCHANGED <<workers, mem, at, tmux>>
    BY <1>10 DEF ClaimResources, Poll, ReleaseResources, GuestEnds, CooldownEnds, vars
  <2> QED BY <1>5, <2>1
<1>11. CASE PassDies
  <2>1. workers' = workers /\ tmux' = tmux /\ at' = 0
    BY <1>11 DEF PassDies, EndPass
  <2>2. \A w \in Workers, p \in Pools : Takes(workers[w], w, p)' => Takes(workers[w], w, p)
    BY <2>1 DEF Takes, SeatOf
  <2> QED BY <1>1, <2>1, <2>2, PoolKept
<1>12. CASE Pass
  BY <1>1, <1>12, PoolPass
<1> QED BY <1>3, <1>4, <1>6, <1>7, <1>8, <1>9, <1>10, <1>11, <1>12 DEF Next, Command, Host

\* However workers are handed over, replaced, stopped and launched late, the
\* sessions of a pool are never more than its most generous account allows.
THEOREM PoolsAreWithinLimit == Spec => []PoolWithinLimit
<1>1. Init => PoolInv
  <2> SUFFICES ASSUME Init PROVE PoolInv
    OBVIOUS
  <2>1. \A w \in Workers : workers[w].account = NoAccount /\ at = 0
    BY DEF Init, Unborn, NeverPlaced
  <2> QED BY <2>1, WatchInit DEF PoolInv, Fits, Carried, Takes
<1>2. PoolInv => PoolWithinLimit
  BY DEF PoolInv, Fits, Carried, Takes, PoolWithinLimit
<1>3. PoolInv /\ [Next]_vars => PoolInv'
  BY PoolStep
<1> QED BY <1>1, <1>2, <1>3, PTL DEF Spec

-----------------------------------------------------------------------------
(***************************************************************************)
(* The broker implements Lending.  The sessions that count are its         *)
(* clients, and every step of the broker is a step of one of them there,   *)
(* the leaving of some, or none.  Guests are finitely many: the line is a  *)
(* sequence.                                                               *)
(***************************************************************************)

LEMMA LineIs == Line = LineOf(claims, Sessions) /\ Line' = LineOf(claims', Sessions)
BY DEF Line, LineOf, InQueue, QueueOf

LEMMA SessionsFinite == ASSUME IsFiniteSet(Guests) PROVE IsFiniteSet(Sessions)
<1>1. IsFiniteSet(Workers)
  BY FS_Interval, BrokerAssumption DEF Workers
<1> HIDE DEF Workers
<1> QED BY <1>1, FS_Union DEF Sessions

\* What the desk sees of a table's line.
LEMMA LineMapped ==
  ASSUME IsFiniteSet(Guests), NEW c, Sound(c, Sessions, Resources)
  PROVE  LET l == LineOf(c, Sessions)
         IN /\ Desk!InLine(l) = {s \in Sessions : c[s].wants # {}}
            /\ \A s, t \in Sessions : Desk!Before(l, s, t) <=> s \in c[t].ahead
            /\ \A s \in Sessions : /\ c[s].wants # {}
                                   /\ \A t \in Sessions \ {s} : c[t].wants # {} => t \in c[s].ahead
                                   => l[Len(l)] = s
<1>1. IsFiniteSet(Sessions)
  BY SessionsFinite
<1> DEFINE l == LineOf(c, Sessions)
           Q == QueueOf(c, Sessions)
<1>2. /\ {l[i] : i \in DOMAIN l} = Q
      /\ \A s, t \in Sessions : (\E i, j \in DOMAIN l : i < j /\ l[i] = s /\ l[j] = t)
                                  <=> s \in c[t].ahead
      /\ \A s \in Q : Q \subseteq c[s].ahead \cup {s} => l[Len(l)] = s
  BY <1>1, LineOrder
<1> HIDE DEF l
<1> QED BY <1>2 DEF QueueOf, l, Desk!InLine, Desk!Before

LEMMA OthersStayMapped ==
  ASSUME IsFiniteSet(Guests), ExclusiveInv, ExclusiveInv', NEW A \in SUBSET Sessions, NEW M \in SUBSET Sessions,
         Present' \subseteq Present \cup A,
         Obeys(claims, claims', Sessions, Present', A, M)
  PROVE  Desk!OthersStay(A, M)
<1>0. Present \subseteq Sessions /\ Present' \subseteq Sessions
  BY UsingType DEF Present, ExclusiveInv, QueueInv
<1>1. /\ Desk!InLine(Line') = {s \in Sessions : claims'[s].wants # {}}
      /\ \A s, t \in Sessions : Desk!Before(Line', s, t) <=> s \in claims'[t].ahead
      /\ \A s, t \in Sessions : Desk!Before(Line, s, t) <=> s \in claims[t].ahead
  <2>1. Sound(claims, Sessions, Resources) /\ Sound(claims', Sessions, Resources)
    BY DEF ExclusiveInv, QueueInv
  <2>2. /\ Desk!InLine(LineOf(claims', Sessions)) = {s \in Sessions : claims'[s].wants # {}}
        /\ \A s, t \in Sessions : Desk!Before(LineOf(claims', Sessions), s, t) <=> s \in claims'[t].ahead
    BY <2>1, LineMapped
  <2>3. \A s, t \in Sessions : Desk!Before(LineOf(claims, Sessions), s, t) <=> s \in claims[t].ahead
    BY <2>1, LineMapped
  <2> QED BY <2>2, <2>3, LineIs
<1>2. ASSUME NEW s \in Present' \ A PROVE Desk!Kept(s) \/ Desk!Served(s, Awaited[s], M)
  <2>1. s \in Present /\ s \in Sessions
    BY <1>0
  <2>2. CASE Same(claims, claims', s)
    BY <2>1, <2>2 DEF Same, Desk!Kept, Lent, Awaited
  <2>3. CASE Gets(claims, claims', Present', s, claims[s].wants, M)
    BY <1>0, <1>1, <2>1, <2>3 DEF Gets, Desk!Served, Lent, Awaited
  <2> QED BY <2>2, <2>3 DEF Obeys
<1>3. \A s \in Sessions \ (Present' \cup A) : Awaited'[s] = Awaited[s] /\ Lent'[s] = {}
  BY DEF Obeys, Awaited, Lent
<1>4. Desk!InLine(Line') = {s \in Sessions : Awaited'[s] # {}}
  BY <1>1 DEF Awaited
<1>5. \A s, t \in Desk!InLine(Line') \ A : Desk!Before(Line', s, t) = Desk!Before(Line, s, t)
  <2> SUFFICES ASSUME NEW s \in Desk!InLine(Line') \ A, NEW t \in Desk!InLine(Line') \ A
               PROVE  Desk!Before(Line', s, t) <=> Desk!Before(Line, s, t)
    BY DEF Desk!Before
  <2> QED BY <1>1 DEF Obeys
<1>6. Desk!Alone'
  BY DEF ExclusiveInv, Apart, Present, Lent, Desk!Alone
<1> QED BY <1>2, <1>3, <1>4, <1>5, <1>6 DEF Desk!OthersStay

\* A step that leaves the table alone, and after which nobody new counts.
LEMMA DeskLeaves ==
  ASSUME IsFiniteSet(Guests), ExclusiveInv, ExclusiveInv', claims' = claims, Present' \subseteq Present
  PROVE  Desk!LeaveAndServe
<1>1. Obeys(claims, claims', Sessions, Present', {}, {})
  BY DEF Obeys, Same
<1>2. Desk!OthersStay({}, {})
  BY <1>1, OthersStayMapped
<1> QED BY <1>2 DEF Desk!LeaveAndServe

LEMMA FewerPresent ==
  ASSUME guests' = guests, \A w \in Workers : workers'[w].status \in Using => workers[w].status \in Using
  PROVE  Present' \subseteq Present
BY DEF Present, UsingOf

\* start_worker, and retry: a worker comes to count, with its claims of before.
LEMMA DeskComes ==
  ASSUME IsFiniteSet(Guests), ExclusiveInv, ExclusiveInv', NEW w \in Workers, claims' = claims, guests' = guests,
         workers[w].status \notin Using, workers'[w].status \in Using,
         \A v \in Workers \ {w} : workers'[v].status \in Using => workers[v].status \in Using
  PROVE  Desk!Come(w)
<1>1. w \notin Present /\ w \in Present' /\ Present' \subseteq Present \cup {w}
  BY DEF Present, UsingOf, ExclusiveInv, QueueInv, TypeInv, TypeOK
<1>2. Present' \subseteq Sessions
  BY <1>1, UsingType DEF Present, ExclusiveInv, QueueInv, Sessions
<1>3. Obeys(claims, claims', Sessions, Present', {w}, {})
  BY DEF Obeys, Same
<1>4. Desk!OthersStay({w}, {})
  BY <1>1, <1>3, OthersStayMapped DEF Sessions
<1>5. Awaited' = Awaited /\ Line' = Line
  BY LineIs DEF Awaited
<1>6. \A s \in Present' \ {w} : Desk!Kept(s)
  BY <1>1, <1>2, <1>5 DEF Desk!Kept, Lent
<1> QED BY <1>1, <1>4, <1>5, <1>6 DEF Desk!Come

\* claim_and_wait, its first look.
LEMMA DeskAsks ==
  ASSUME IsFiniteSet(Guests), ExclusiveInv, ExclusiveInv',
         NEW s \in Sessions, NEW names \in (SUBSET Resources) \ {{}}, ClaimResources(s, names)
  PROVE  Desk!Ask(s)
<1> DEFINE U == UsingOf(workers) \cup {s}
<1>1. /\ Sound(claims, Sessions, Resources) /\ Sound(claims', Sessions, Resources)
      /\ U \in SUBSET Sessions /\ s \in U /\ names \in SUBSET Resources /\ names # {}
  BY UsingType DEF ExclusiveInv, QueueInv
<1>2. claims' = Claim(claims, U, s, names)
  BY DEF ClaimResources
<1>3. Present' = Present \cup {s} /\ Present \cup {s} = U
  <2>1. s \in Workers => workers[s].status \in Using
    BY DEF ClaimResources, Acting, Using, Holding
  <2> QED BY <2>1 DEF ClaimResources, Present, UsingOf, Sessions
<1> HIDE DEF U
<1>4. Obeys(claims, claims', Sessions, U, {s}, {s}) /\ Asked(claims, claims', Sessions, U, s)
  BY <1>1, <1>2, ClaimObeys
<1>5. Desk!OthersStay({s}, {s})
  BY <1>3, <1>4, OthersStayMapped
<1>6. Lent[s] = claims[s].holds
  <2>1. s \notin Present => claims[s].holds = {}
    BY DEF ClaimResources, Acting, Using, Holding, Present, UsingOf, Sessions, ExclusiveInv, Idle
  <2> QED BY <2>1 DEF Lent
<1>7. Lent'[s] = claims'[s].holds /\ \A t \in Sessions : Awaited'[t] = claims'[t].wants
  BY <1>3 DEF Lent, Awaited
<1>8. CASE claims'[s].wants = {} /\ \A t \in U : claims'[t].wants \cap (claims'[s].holds \ claims[s].holds) = {}
  <2>1. Awaited'[s] = {} /\ \A t \in Present' : Awaited'[t] \cap (Lent'[s] \ Lent[s]) = {}
    BY <1>1, <1>3, <1>6, <1>7, <1>8
  <2> QED BY <1>3, <1>5, <2>1 DEF Desk!Ask
<1>9. CASE /\ claims'[s].wants # {} /\ claims'[s].holds = {}
           /\ \A t \in Sessions \ {s} : claims'[t].wants # {} => t \in claims'[s].ahead
  <2>1. LineOf(claims', Sessions)[Len(LineOf(claims', Sessions))] = s
    BY <1>1, <1>9, LineMapped
  <2>2. Awaited'[s] # {} /\ Lent'[s] = {} /\ Line'[Len(Line')] = s
    BY <1>7, <1>9, <2>1, LineIs
  <2> QED BY <1>3, <1>5, <2>2 DEF Desk!Ask
<1> QED BY <1>4, <1>8, <1>9 DEF Asked

\* claim_and_wait, a later look: a session gets what it waits for, or nothing
\* happens.
LEMMA DeskServes ==
  ASSUME IsFiniteSet(Guests), ExclusiveInv, ExclusiveInv', NEW s \in Sessions, Poll(s)
  PROVE  (\E a \in Sessions : Desk!HandBack(a)) \/ UNCHANGED Desk!vars
<1>1. /\ Sound(claims, Sessions, Resources) /\ Present \in SUBSET Sessions
      /\ s \in Present /\ claims' = Grant(claims, Present, s)
      /\ Present' = Present
  BY UsingType DEF ExclusiveInv, QueueInv, Poll, Present, UsingOf
<1>2. CASE claims' = claims
  <2>1. Lent' = Lent /\ Awaited' = Awaited /\ Line' = Line
    BY <1>1, <1>2, LineIs DEF Lent, Awaited
  <2> QED BY <1>1, <2>1 DEF Desk!vars
<1>3. CASE /\ Gets(claims, claims', Present, s, claims[s].wants, {})
           /\ \A t \in Sessions \ {s} : Same(claims, claims', t) /\ KeepsPlace(claims, claims', Sessions, t)
  <2>1. Obeys(claims, claims', Sessions, Present', {s}, {})
    BY <1>1, <1>3 DEF Obeys, Same, KeepsPlace
  <2>2. Desk!OthersStay({s}, {})
    BY <1>1, <2>1, OthersStayMapped
  <2>3. Desk!Served(s, Awaited[s] \cap Resources, {})
    <3>1. Awaited[s] \cap Resources = claims[s].wants
      BY <1>1 DEF Awaited, Sound, ClaimTable
    <3>2. \A t \in Sessions : Desk!Before(Line, t, s) <=> t \in claims[s].ahead
      BY <1>1, LineMapped, LineIs
    <3> QED BY <1>1, <1>3, <3>1, <3>2 DEF Gets, Desk!Served, Lent, Awaited
  <2>4. Desk!HandBack(s)
    BY <1>1, <2>2, <2>3 DEF Desk!HandBack
  <2> QED BY <2>4
<1> QED BY <1>1, <1>2, <1>3, GrantObeys

\* release.
LEMMA DeskHandsBack ==
  ASSUME IsFiniteSet(Guests), ExclusiveInv, ExclusiveInv',
         NEW s \in Sessions, NEW keep \in SUBSET Resources, ReleaseResources(s, keep)
  PROVE  Desk!HandBack(s)
<1>1. /\ Sound(claims, Sessions, Resources) /\ Sound(claims', Sessions, Resources)
      /\ Present \in SUBSET Sessions
      /\ s \in Present /\ claims' = Release(claims, Present, s, keep)
      /\ Present' = Present
  BY UsingType DEF ExclusiveInv, QueueInv, ReleaseResources, Present, UsingOf
<1>2. /\ Obeys(claims, claims', Sessions, Present, {s}, {})
      /\ \/ /\ claims'[s].holds = claims[s].holds \cap keep /\ claims'[s].wants = claims[s].wants \cap keep
            /\ claims'[s].wants # {} => KeepsPlace(claims, claims', Sessions, s)
         \/ Gets(claims, claims', Present, s, claims[s].wants \cap keep, {})
  BY <1>1, ReleaseObeys
<1>3. Desk!OthersStay({s}, {})
  BY <1>1, <1>2, OthersStayMapped
<1>4. /\ \A t, u \in Sessions : Desk!Before(Line, t, u) <=> t \in claims[u].ahead
      /\ \A t, u \in Sessions : Desk!Before(Line', t, u) <=> t \in claims'[u].ahead
      /\ Desk!InLine(Line') = {t \in Sessions : claims'[t].wants # {}}
  BY <1>1, LineMapped, LineIs
<1>5. /\ Lent[s] = claims[s].holds /\ Awaited[s] = claims[s].wants
      /\ Lent'[s] = claims'[s].holds /\ \A t \in Sessions : Awaited'[t] = claims'[t].wants
  BY <1>1 DEF Lent, Awaited
<1>6. CASE /\ claims'[s].holds = claims[s].holds \cap keep /\ claims'[s].wants = claims[s].wants \cap keep
           /\ claims'[s].wants # {} => KeepsPlace(claims, claims', Sessions, s)
  <2>1. Lent'[s] = Lent[s] \cap keep /\ Awaited'[s] = Awaited[s] \cap keep
    BY <1>5, <1>6
  <2>2. ASSUME Awaited'[s] # {}, NEW t \in Desk!InLine(Line')
        PROVE  Desk!Before(Line', t, s) = Desk!Before(Line, t, s)
    <3>1. t \in Sessions /\ claims'[t].wants # {}
      BY <1>4, <2>2
    <3>2. Desk!Before(Line', t, s) <=> Desk!Before(Line, t, s)
      BY <1>4, <1>5, <1>6, <2>2, <3>1 DEF KeepsPlace
    <3> QED BY <3>2 DEF Desk!Before
  <2> QED BY <1>1, <1>3, <2>1, <2>2 DEF Desk!HandBack
<1>7. CASE Gets(claims, claims', Present, s, claims[s].wants \cap keep, {})
  <2>1. Desk!Served(s, Awaited[s] \cap keep, {})
    BY <1>1, <1>4, <1>5, <1>7 DEF Gets, Desk!Served
  <2> QED BY <1>1, <1>3, <2>1 DEF Desk!HandBack
<1> QED BY <1>2, <1>6, <1>7

\* A guest ends.
LEMMA DeskEnds ==
  ASSUME IsFiniteSet(Guests), ExclusiveInv, ExclusiveInv', NEW s \in Guests, GuestEnds(s)
  PROVE  Desk!End(s)
<1>1. /\ Sound(claims, Sessions, Resources) /\ s \in Sessions
      /\ claims' = HandBack(claims, s, {}) /\ Present' = Present \ {s}
      /\ Present \subseteq Sessions
  BY UsingType DEF ExclusiveInv, QueueInv, GuestEnds, Forget, Sessions, Present, UsingOf
<1>2. /\ \A t \in Sessions \ {s} : Same(claims, claims', t)
      /\ claims'[s].wants = {}
      /\ \A t, u \in Sessions : claims'[t].wants # {} /\ claims'[u].wants # {}
                                  => (t \in claims'[u].ahead <=> t \in claims[u].ahead)
  BY <1>1, HandBackObeys
<1>3. Obeys(claims, claims', Sessions, Present', {s}, {})
  BY <1>1, <1>2 DEF Obeys, Same
<1>4. Desk!OthersStay({s}, {})
  BY <1>1, <1>3, OthersStayMapped
<1>5. Lent'[s] = {} /\ Awaited'[s] = {}
  BY <1>1, <1>2 DEF Lent, Awaited
<1>6. \A t \in Present' : Desk!Kept(t)
  BY <1>1, <1>2 DEF Desk!Kept, Same, Lent, Awaited
<1> QED BY <1>1, <1>4, <1>5, <1>6 DEF Desk!End

\* The end of a pass.
LEMMA DeskFinish ==
  ASSUME IsFiniteSet(Guests), ExclusiveInv, ExclusiveInv', Finish
  PROVE  Desk!LeaveAndServe
<1>1. \A w \in Workers : mem[w].status \in Using => workers[w].status \in Using
  BY DEF ExclusiveInv, Behind, Finish
<1>2. /\ Sound(claims, Sessions, Resources) /\ Present' = UsingOf(mem)
      /\ Present' \subseteq Present /\ Present' \in SUBSET Sessions
      /\ claims' = OfferQueue(claims, Present')
  BY <1>1, UsingType DEF ExclusiveInv, QueueInv, Finish, Present, UsingOf
<1>3. Obeys(claims, claims', Sessions, Present', {}, {})
  BY <1>2, OfferQueueObeys
<1>4. Desk!OthersStay({}, {})
  BY <1>2, <1>3, OthersStayMapped
<1> QED BY <1>2, <1>4 DEF Desk!LeaveAndServe

\* A step of a pass before its end: nobody new counts.
LEMMA DeskPass ==
  ASSUME IsFiniteSet(Guests), ExclusiveInv, ExclusiveInv', Pass, ~Finish
  PROVE  Desk!LeaveAndServe
<1> USE DEF unchangedDisk, unchangedHost, Goto, Advance, At
<1>0. mem \in [Workers -> Placed] /\ Behind
  BY DEF ExclusiveInv, QueueInv, TypeInv
<1>a. 0 \notin Workers
  BY DEF Workers
<1>1. claims' = claims
  BY ClaimsKept
<1>2. ASSUME guests' = guests, workers' = workers PROVE Desk!LeaveAndServe
  BY <1>1, <1>2, FewerPresent, DeskLeaves
<1>3. CASE \/ BeginPass \/ LookPast \/ LookExhausted \/ LookStarted \/ LookUnlaunched \/ LookExited
           \/ LookUnfinished \/ KillLater \/ Kill \/ ReapLater \/ PlaceLater \/ LaunchPlaced
           \/ \E noPolicy \in BOOLEAN : PlaceBlocked(noPolicy)
  BY <1>2, <1>3 DEF BeginPass, LookPast, LookExhausted, LookStarted, LookUnlaunched, LookExited,
                    LookUnfinished, KillLater, Kill, ReapLater, PlaceLater, LaunchPlaced, PlaceBlocked
\* A save: who counts in memory counts on disk.
<1>4. ASSUME at \in Workers, workers' = mem', guests' = guests, mem[at].status \in Using,
             \A w \in Workers \ {at} : mem'[w] = mem[w]
      PROVE  Desk!LeaveAndServe
  <2>1. \A w \in Workers : workers'[w].status \in Using => workers[w].status \in Using
    BY <1>4, <1>0, <1>a DEF Behind
  <2> QED BY <1>1, <1>4, <2>1, FewerPresent, DeskLeaves
<1>5. CASE ReapStopped \/ ReapReplaced
  <2>1. \A w \in Workers \ {at} : mem'[w] = mem[w]
    BY <1>0, <1>5 DEF ReapStopped, ReapReplaced, Set
  <2>2. mem[at].status \in Using /\ at \in Workers /\ workers' = mem' /\ guests' = guests
    BY <1>5 DEF ReapStopped, ReapReplaced, Using, Holding
  <2> QED BY <1>4, <2>1, <2>2
<1>6. ASSUME NEW a \in Accounts, Place(a) PROVE Desk!LeaveAndServe
  <2>1. mem[at].status \in Using /\ at \in Workers /\ workers' = mem' /\ guests' = guests
    BY <1>6, <1>0, <1>a DEF Behind, Place
  <2>2. \A w \in Workers \ {at} : mem'[w] = mem[w]
    BY <1>0, <1>6 DEF Place
  <2> QED BY <1>4, <2>1, <2>2
<1> QED BY <1>3, <1>5, <1>6 DEF Pass

\* Every step of the broker is a step of the desk, or changes nothing there.
LEMMA DeskStep ==
  ASSUME IsFiniteSet(Guests), ExclusiveInv, ExclusiveInv', [Next]_vars
  PROVE  [Desk!Next]_(Desk!vars)
<1>0. /\ workers \in [Workers -> Placed]
      /\ \A w \in Workers, g \in Attempts : w \in Sessions
  BY DEF ExclusiveInv, QueueInv, TypeInv, Sessions
<1>1. ASSUME claims' = claims, guests' = guests,
             \A w \in Workers : workers'[w].status \in Using => workers[w].status \in Using
      PROVE  [Desk!Next]_(Desk!vars)
  BY <1>1, FewerPresent, DeskLeaves DEF Desk!Next
<1>2. CASE UNCHANGED vars
  BY <1>1, <1>2 DEF vars
<1>3. ASSUME NEW w \in Workers, Start(w) PROVE [Desk!Next]_(Desk!vars)
  <2> DEFINE ho == HandedOver(TaskOf[w])
  <2>1. ho \in [Workers -> Placed]
    BY <1>0, WorkerType DEF HandedOver
  <2>2. \A v \in Workers : ho[v].status \in Using => workers[v].status \in Using
    BY <1>0, StoppedCounts DEF HandedOver, HoldersOf, Holding
  <2> HIDE DEF ho
  <2>3. \A v \in Workers \ {w} : workers'[v] = ho[v]
    BY <1>3, <2>1 DEF Start, ho
  <2>4. workers'[w].status \in Using
    BY <1>3, <2>1 DEF Start, ho, Reserved, Created, NeverPlaced, Using, Holding
  <2>5. workers[w].status \notin Using /\ claims' = claims /\ guests' = guests
    BY <1>3 DEF Start, Using, Holding
  <2>6. Desk!Come(w)
    BY <2>2, <2>3, <2>4, <2>5, DeskComes
  <2> QED BY <1>0, <2>6 DEF Desk!Next, Sessions
<1>4. ASSUME NEW w \in Workers, Retry(w) PROVE [Desk!Next]_(Desk!vars)
  <2>1. workers[w].status \notin Using /\ workers'[w].status \in Using /\ claims' = claims /\ guests' = guests
        /\ \A v \in Workers \ {w} : workers'[v] = workers[v]
    BY <1>0, <1>4 DEF Retry, Using, Holding
  <2>2. Desk!Come(w)
    BY <2>1, DeskComes
  <2> QED BY <1>0, <2>2 DEF Desk!Next, Sessions
<1>5. ASSUME NEW w \in Workers, Stop(w) PROVE [Desk!Next]_(Desk!vars)
  <2>1. \A v \in Workers : workers'[v].status \in Using => workers[v].status \in Using
    BY <1>0, <1>5, StoppedCounts DEF Stop
  <2> QED BY <1>1, <1>5, <2>1 DEF Stop
<1>6. ASSUME NEW t \in Tasks, StopTask(t) PROVE [Desk!Next]_(Desk!vars)
  <2>1. \A v \in Workers : workers'[v].status \in Using => workers[v].status \in Using
    BY <1>0, <1>6, StoppedCounts DEF StopTask
  <2> QED BY <1>1, <1>6, <2>1 DEF StopTask
<1>7. ASSUME NEW w \in Workers, NEW g \in Attempts, LateLaunch(w, g) \/ StartDies(w, g)
      PROVE  [Desk!Next]_(Desk!vars)
  BY <1>1, <1>7 DEF LateLaunch, StartDies
<1>8. ASSUME NEW w \in Workers, NEW g \in Attempts, Exec(w, g) PROVE [Desk!Next]_(Desk!vars)
  <2>1. \A v \in Workers : workers'[v].status \in Using => workers[v].status \in Using
    <3>1. CASE Lease(w, g)
      <4>1. workers[w].status \in Using
        BY <3>1 DEF Lease, Using, Holding
      <4>2. workers' = [workers EXCEPT ![w].status = "running", ![w].pid = TRUE, ![w].recent = FALSE]
        BY <1>8, <3>1 DEF Exec
      <4>3. \A v \in Workers \ {w} : workers'[v] = workers[v]
        BY <1>0, <4>2
      <4> QED BY <4>1, <4>3
    <3>2. CASE ~Lease(w, g)
      BY <1>8, <3>2 DEF Exec
    <3> QED BY <3>1, <3>2
  <2> QED BY <1>1, <1>8, <2>1 DEF Exec
<1>9. ASSUME NEW s \in Sessions, NEW names \in (SUBSET Resources) \ {{}}, ClaimResources(s, names)
      PROVE  [Desk!Next]_(Desk!vars)
  BY <1>9, DeskAsks DEF Desk!Next
<1>10. ASSUME NEW s \in Sessions, Poll(s) PROVE [Desk!Next]_(Desk!vars)
  BY <1>10, DeskServes DEF Desk!Next
<1>11. ASSUME NEW s \in Sessions, NEW keep \in SUBSET Resources, ReleaseResources(s, keep)
       PROVE  [Desk!Next]_(Desk!vars)
  BY <1>11, DeskHandsBack DEF Desk!Next
<1>12. ASSUME NEW s \in Guests, GuestEnds(s) PROVE [Desk!Next]_(Desk!vars)
  BY <1>12, DeskEnds DEF Desk!Next, Sessions
<1>13. CASE Pass
  BY <1>13, DeskPass, DeskFinish DEF Desk!Next
<1>14. CASE PassDies
  BY <1>1, <1>14 DEF PassDies, unchangedDisk
<1>15. ASSUME NEW w \in Workers, Elapsed(w) PROVE [Desk!Next]_(Desk!vars)
  <2>1. \A v \in Workers : workers'[v].status = workers[v].status
    BY <1>0, <1>15 DEF Elapsed, Placed, Worker
  <2> QED BY <1>1, <1>15, <2>1 DEF Elapsed
<1>16. CASE Host /\ ~\E w \in Workers : Elapsed(w)
  BY <1>1, <1>16 DEF Host, SessionEnds, SessionLost, OrphanExits, CooldownEnds,
                     unchangedState, unchangedDisk, unchangedPass
<1> QED BY <1>2, <1>3, <1>4, <1>5, <1>6, <1>7, <1>8, <1>9, <1>10, <1>11, <1>12, <1>13,
           <1>14, <1>15, <1>16 DEF Next, Command

\* Nobody counts, and the line is empty.
LEMMA DeskInit ==
  ASSUME Init
  PROVE  Desk!Init
<1>1. Present = {}
  BY DEF Init, Present, UsingOf, Unborn, NeverPlaced, Using, Holding
<1>2. Lent = [s \in Sessions |-> {}]
  BY <1>1 DEF Lent
<1>3. \A s \in Sessions : claims[s].wants = {}
  BY DEF Init, NoClaim
<1>4. Awaited = [s \in Sessions |-> {}]
  BY <1>3 DEF Awaited
<1>5. InQueue = {}
  BY <1>3 DEF InQueue
<1>6. Line = <<>>
  <2>1. Cardinality(InQueue) = 0
    BY <1>5, FS_EmptySet
  <2> QED BY <2>1 DEF Line
<1> QED BY <1>1, <1>2, <1>4, <1>6 DEF Desk!Init

\* Whatever starts, dies, is replaced, handed over, retried or launched late,
\* the broker looks to the sessions like the desk of Lending: each thing is
\* lent once, whole claims are served in turn, and nothing is taken away.
THEOREM BrokerIsADesk ==
  ASSUME "retry_free" \in Trust, IsFiniteSet(Guests)
  PROVE  Spec => ImplementsLending
<1>1. Init => Desk!Init
  BY DeskInit
<1>2. Init => ExclusiveInv
  BY ExclusiveInit
<1>3. ExclusiveInv /\ [Next]_vars => ExclusiveInv'
  BY ExclusiveStep
<1>4. ExclusiveInv /\ ExclusiveInv' /\ [Next]_vars => [Desk!Next]_(Desk!vars)
  BY DeskStep
<1> QED BY <1>1, <1>2, <1>3, <1>4, PTL DEF Spec, ImplementsLending, Desk!Spec

-----------------------------------------------------------------------------
(* Nobody waits for somebody who waits for it, or for what is free.        *)

\* No sessions wait for one another: of those that wait, the one with the
\* fewest ahead of it waits for none of them.
THEOREM NobodyWaitsInACircle ==
  ASSUME IsFiniteSet(Guests)
  PROVE  Spec => []NoCircularWait
<1>1. IsFiniteSet(Sessions)
  BY SessionsFinite
<1>2. QueueInv => NoCircularWait
  <2> SUFFICES ASSUME QueueInv, NEW group \in (SUBSET Sessions) \ {{}}
               PROVE  \E s \in group : \A t \in group : ~WaitsFor(s, t)
    BY DEF NoCircularWait
  <2>1. Sound(claims, Sessions, Resources) /\ group \in SUBSET Sessions /\ group # {}
    BY DEF QueueInv
  <2>2. PICK s \in group : \A t \in group : ~Stands(claims, t, s)
    BY <1>1, <2>1, NoCircle
  <2>3. \A t \in group : ~WaitsFor(s, t)
    BY <2>2 DEF WaitsFor, Stands
  <2> QED BY <2>3
<1> QED BY <1>2, QueueAlways, PTL

\* What is left to grant among those who count after a step.
LEMMA OfferedStep ==
  ASSUME QueueInv, [Next]_vars, NEW t \in UsingOf(workers), KeptWaiting(t)'
  PROVE  /\ KeptWaiting(t) \/ ~(UsingOf(workers) \subseteq UsingOf(workers)')
         /\ ~Finish
<1> DEFINE U == UsingOf(workers)
           V == UsingOf(workers)'
<1>0. Sound(claims, Sessions, Resources) /\ U \in SUBSET Sessions /\ t \in U
  BY UsingType DEF QueueInv
<1>a. t \in V /\ Grantable(claims', V, t)
  BY DEF KeptWaiting
<1>b. Grantable(claims, U, t) => KeptWaiting(t)
  BY DEF KeptWaiting
<1>1. ~Finish
  <2> SUFFICES ASSUME Finish PROVE FALSE
    OBVIOUS
  <2>1. V = UsingOf(mem) /\ claims' = OfferQueue(claims, UsingOf(mem))
    BY DEF Finish, UsingOf
  <2>2. UsingOf(mem) \in SUBSET Sessions
    BY UsingType DEF QueueInv
  <2> HIDE DEF U, V
  <2>3. Grantables(OfferQueue(claims, UsingOf(mem)), UsingOf(mem)) = {}
    BY <1>0, <2>2, NothingLeft
  <2> QED BY <1>a, <2>1, <2>3 DEF Grantables
<1>c. ASSUME NEW s \in Sessions, V = U \cup (Guests \cap {s}),
             Grantables(claims', U \cup {s}) \subseteq Grantables(claims, U \cup {s}),
             s \in V
      PROVE  Grantable(claims, U, t)
  <2> HIDE DEF U, V
  <2>1. V = U \cup {s} /\ U \subseteq U \cup {s}
    BY <1>c
  <2>2. t \in Grantables(claims', U \cup {s})
    BY <1>a, <2>1 DEF Grantables
  <2>3. Grantable(claims, U \cup {s}, t)
    BY <1>c, <2>2 DEF Grantables
  <2> QED BY <2>1, <2>3, FewerCount
<1>2. CASE claims' = claims
  <2> HIDE DEF U, V
  <2>1. U \subseteq V => Grantable(claims, U, t)
    BY <1>2, <1>a, FewerCount
  <2> QED BY <1>1, <1>b, <2>1 DEF U, V
<1>3. ASSUME NEW s \in Sessions, NEW names \in (SUBSET Resources) \ {{}}, ClaimResources(s, names)
      PROVE  Grantable(claims, U, t)
  <2>1. claims' = Claim(claims, U \cup {s}, s, names) /\ workers' = workers
    BY <1>3 DEF ClaimResources
  <2>2. V = U \cup (Guests \cap {s})
    BY <1>3 DEF ClaimResources, UsingOf
  <2>3. s \in V
    BY <1>3, <2>2 DEF ClaimResources, Acting, Sessions, UsingOf, Using, Holding
  <2>4. U \cup {s} \in SUBSET Sessions /\ s \in U \cup {s} /\ names \in SUBSET Resources /\ names # {}
    BY <1>0
  <2> HIDE DEF U, V
  <2>5. Grantables(claims', U \cup {s}) \subseteq Grantables(claims, U \cup {s})
    BY <1>0, <2>1, <2>4, ClaimLeaves
  <2> QED BY <1>c, <2>2, <2>3, <2>5
<1>4. ASSUME NEW s \in Sessions, Poll(s) PROVE Grantable(claims, U, t)
  <2>1. claims' = Grant(claims, U, s) /\ s \in U /\ V = U
    BY <1>4 DEF Poll, UsingOf
  <2> HIDE DEF U, V
  <2>2. Grantables(Grant(claims, U, s), U) = Grantables(claims, U) \ {s}
    BY <1>0, <2>1, OfferedLater DEF OfferedTo
  <2> QED BY <1>a, <2>1, <2>2 DEF Grantables
<1>5. ASSUME NEW s \in Sessions, NEW keep \in SUBSET Resources, ReleaseResources(s, keep)
      PROVE  Grantable(claims, U, t)
  <2>1. claims' = Release(claims, U, s, keep) /\ V = U
    BY <1>5 DEF ReleaseResources, UsingOf
  <2> HIDE DEF U, V
  <2>2. Grantables(Release(claims, U, s, keep), U) \subseteq Grantables(claims, U)
    BY <1>0, ReleaseLeaves
  <2> QED BY <1>a, <2>1, <2>2 DEF Grantables
<1>6. ASSUME NEW s \in Guests, GuestEnds(s)
      PROVE  ~(U \subseteq V)
  <2>1. s \in U /\ s \notin Workers
    BY <1>6, BrokerAssumption DEF GuestEnds, UsingOf
  <2>2. s \notin V
    BY <1>6, <2>1 DEF GuestEnds, UsingOf
  <2> QED BY <2>1, <2>2
<1> QED BY <1>1, <1>2, <1>3, <1>4, <1>5, <1>6, <1>b, ClaimsKept DEF Next, Command, vars

\* No release, claim, withdrawal or pass leaves a claim waiting that could now
\* be granted; only a session that stops counting does, until the next pass.
THEOREM NobodyIsForgotten == Spec => OfferedAtOnce
<1>1. QueueInv /\ [Next]_vars
        => [\A s \in UsingOf(workers) :
              KeptWaiting(s)' => /\ KeptWaiting(s) \/ ~(UsingOf(workers) \subseteq UsingOf(workers)')
                                 /\ ~Finish]_vars
  BY OfferedStep
<1> QED BY <1>1, QueueAlways, PTL DEF Spec, OfferedAtOnce

=============================================================================

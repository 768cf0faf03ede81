------------------------------- MODULE Broker -------------------------------
(***************************************************************************)
(* The resource broker (src/broker/resource_manager.py): the workers of    *)
(* all tasks, the sessions they run in, the supervisor that reconciles the *)
(* two, and the resources the sessions share.                              *)
(*                                                                         *)
(* state.json is the variables workers, claims, guests and cooling.  Every *)
(* command reads it, changes it and writes it back under one file lock, so *)
(* a command is one action.  The exception is a supervisor pass: it holds  *)
(* the lock throughout, but acts on tmux as it goes and may die anywhere,  *)
(* so it is a sequence of steps on a copy (mem) that it saves at the       *)
(* points where the code calls save.  `start` launches its session after   *)
(* it let go of the lock: the launches still owed are the variable starts. *)
(***************************************************************************)
EXTENDS Naturals, FiniteSets, ResourceClaims

CONSTANTS
  NWorkers,     \* worker ids that may be created, in the order of creation
  Guests,       \* sessions the hub did not launch
  Resources,    \* the resources of the configuration
  Tasks,        \* the cards
  TaskOf,       \* the card each worker is started for
  Accounts,     \* the subscription accounts
  Pools,        \* the quota pools they draw on
  PoolOf,       \* the pool of each account
  MaxWorkers,   \* max_workers of each account
  MaxAttempts,  \* settings.max_attempts
  NoAccount,    \* the account of a worker never placed
  Trust         \* what the operator and the host are trusted with, see below

(***************************************************************************)
(* The code leaves these to the people and the machine around it:          *)
(*   retry_free    a worker is retried only if nobody else holds what it   *)
(*                 held when it was blocked                                *)
(*   retry_task    a worker is retried only if its task has no other worker*)
(*   retry_exited  a worker is retried only if its old process has ended   *)
(*   prompt_start  `start` launches its session, or dies, within the 30    *)
(*                 seconds after which the supervisor launches it instead  *)
(* A run that leaves one out shows what the code does without it.          *)
(***************************************************************************)
Assumptions == {"retry_free", "retry_task", "retry_exited", "prompt_start"}

Workers  == 1..NWorkers
Attempts == 1..MaxAttempts
Sessions == Workers \cup Guests

ASSUME BrokerAssumption ==
  /\ NWorkers \in Nat
  /\ MaxAttempts \in Nat \ {0}
  /\ Workers \cap Guests = {}
  /\ TaskOf \in [Workers -> Tasks]
  /\ PoolOf \in [Accounts -> Pools]
  /\ MaxWorkers \in [Accounts -> Nat]
  /\ NoAccount \notin Accounts
  /\ Trust \subseteq Assumptions

VARIABLES
  workers,  \* state.json: the workers
  claims,   \* state.json: holds, wants and place in the queue of every session
  guests,   \* state.json: the guests registered, whose process runs
  cooling,  \* state.json: the pools on cooldown
  at,       \* the worker the supervisor pass is at, 0 when no pass runs
  step,     \* what the pass does with it next
  mem,      \* the workers as the pass has them in memory
  tmux,     \* what runs in the tmux session of each generation of a worker
  orphans,  \* generations whose provider process outlived its tmux session
  starts    \* generations a `start` command has reserved and not launched yet

vars == <<workers, claims, guests, cooling, at, step, mem, tmux, orphans, starts>>

-----------------------------------------------------------------------------
(* The statuses of a worker, and the groups the code tests for. *)

Live    == {"starting", "running", "replacing", "stopping"}
Holding == {"waiting_for_capacity", "starting", "running", "replacing"}
Using   == Holding \cup {"stopping"}
Status  == Using \cup {"unborn", "stopped", "blocked"}

Worker == [status     : Status,
           generation : 0..MaxAttempts,
           account    : Accounts \cup {NoAccount},
           pid        : BOOLEAN,   \* the process of this generation is known
           recent     : BOOLEAN]   \* starting < 30 s, or stopping < 3 s

NeverPlaced(status) == [status |-> status, generation |-> 0, account |-> NoAccount,
                        pid |-> FALSE, recent |-> FALSE]
Unborn  == NeverPlaced("unborn")
Created == NeverPlaced("waiting_for_capacity")

\* What runs in a tmux session: nothing, a shell on its way to _exec, or the
\* provider's CLI.
Seat == {"none", "shell", "provider"}

NoPass == at = 0

\* sessions(db): who counts for the resource queue.
UsingOf(ws) == {w \in Workers : ws[w].status \in Using} \cup guests

\* The session of the worker's present generation, if it was ever placed.
SeatOf(w, g) == IF g = 0 THEN "none" ELSE tmux[w][g]

Alive(w, g) == SeatOf(w, g) = "provider" \/ <<w, g>> \in orphans

\* live_worker: the workers that hold the task.
HoldersOf(ws, t) == {w \in Workers : TaskOf[w] = t /\ ws[w].status \in Holding}

\* A slip: a session on its way out no longer counts for its pool.
InPoolLeaving(ws, p) == {w \in Workers : /\ ws[w].status \in Live \ {"stopping"}
                                         /\ ws[w].account # NoAccount
                                         /\ PoolOf[ws[w].account] = p}

\* select: an account may take worker w if its pool is not on cooldown and has
\* room.  Whether it is also healthy, fresh, capable and below its ceiling is
\* the world's choice.
InPool(ws, p) == {w \in Workers : /\ ws[w].status \in Live
                                  /\ ws[w].account # NoAccount
                                  /\ PoolOf[ws[w].account] = p}

CanTake(ws, a) == /\ PoolOf[a] \notin cooling
                  /\ Cardinality(InPool(ws, PoolOf[a])) < MaxWorkers[a]

\* A slip: one attempt more than the limit.
AttemptsLeftOver(rec) == rec.generation <= MaxAttempts

\* settings.max_attempts bounds the generations of a worker.
AttemptsLeft(rec) == rec.generation < MaxAttempts

\* reserve: the next generation, on the account chosen.
Reserved(rec, a) == [status |-> "starting", generation |-> rec.generation + 1,
                     account |-> a, pid |-> FALSE, recent |-> TRUE]

\* stop: end the session, or retire a worker that has none to end.
Stopped(rec) ==
  IF rec.status = "stopped" THEN rec
  ELSE IF rec.status = "blocked" \/ rec.generation = 0
       THEN [rec EXCEPT !.status = "stopped", !.recent = FALSE]
       ELSE [rec EXCEPT !.status = "stopping", !.recent = TRUE]

\* launch: a session that exists already is left alone.
Launched(w, g) == IF tmux[w][g] = "none"
                  THEN [tmux EXCEPT ![w][g] = "shell"] ELSE tmux

\* The stage save writes on a card: that of the first worker of the task with
\* one to show, and waiting for a resource before anything else.
StageOf(ws, w) ==
  IF claims[w].wants # {} THEN "resource_wait"
  ELSE CASE ws[w].status = "waiting_for_capacity" -> "capacity_wait"
         [] ws[w].status = "replacing"            -> "resource_handoff"
         [] ws[w].status = "blocked"              -> "resource_blocked"
         [] OTHER                                 -> "none"

CardStage(ws, t) ==
  LET shown == {w \in Workers : TaskOf[w] = t /\ StageOf(ws, w) # "none"}
  IN IF shown = {} THEN "none"
     ELSE StageOf(ws, CHOOSE w \in shown : \A v \in shown : w <= v)

-----------------------------------------------------------------------------
Init ==
  /\ workers = [w \in Workers |-> Unborn]
  /\ claims  = [s \in Sessions |-> NoClaim]
  /\ guests  = {}
  /\ cooling = {}
  /\ at = 0 /\ step = "look"
  /\ mem     = [w \in Workers |-> Unborn]
  /\ tmux    = [w \in Workers |-> [g \in Attempts |-> "none"]]
  /\ orphans = {}
  /\ starts  = {}

unchangedPass  == UNCHANGED <<at, step, mem>>
unchangedHost  == UNCHANGED <<tmux, orphans, starts>>

-----------------------------------------------------------------------------
(* Commands.  Each holds the state lock, so none runs during a pass. *)

\* A slip: the worker that has the task is left to it.
HandedOverToBoth(t) == workers

\* The worker the task has when another role or directory is asked for is
\* stopped: a hand-over.
HandedOver(t) == [v \in Workers |-> IF v \in HoldersOf(workers, t)
                                       /\ \A u \in HoldersOf(workers, t) : v <= u
                                    THEN Stopped(workers[v]) ELSE workers[v]]

\* start_worker, up to the point where it lets go of the lock.  Asking for the
\* role and directory the live worker has changes nothing.
Start(w) ==
  /\ NoPass
  /\ workers[w].status = "unborn"
  /\ \A v \in 1..(w - 1) : workers[v].status # "unborn"
  /\ LET ws == [HandedOver(TaskOf[w]) EXCEPT ![w] = Created]
     IN \/ /\ workers' = ws
           /\ UNCHANGED starts
        \/ \E a \in Accounts :
             /\ CanTake(ws, a)
             /\ workers' = [ws EXCEPT ![w] = Reserved(Created, a)]
             /\ starts' = starts \cup {<<w, 1>>}
  /\ UNCHANGED <<claims, guests, cooling, tmux, orphans>>
  /\ unchangedPass

\* The rest of start_worker, no lock held: the session is launched however
\* much has happened to the worker since it was reserved.
LateLaunch(w, g) ==
  /\ <<w, g>> \in starts
  /\ starts' = starts \ {<<w, g>>}
  /\ tmux' = Launched(w, g)
  /\ UNCHANGED <<workers, claims, guests, cooling, orphans>>
  /\ unchangedPass

\* The command dies, or tmux refuses, before the session is launched.
StartDies(w, g) ==
  /\ <<w, g>> \in starts
  /\ starts' = starts \ {<<w, g>>}
  /\ UNCHANGED <<workers, claims, guests, cooling, tmux, orphans>>
  /\ unchangedPass

\* A slip: the lease is looked up by worker and not by generation.
LeaseOfWorker(w, g) == workers[w].status \in {"starting", "running"}

\* The launch lease of a generation.
Lease(w, g) == /\ workers[w].generation = g
               /\ workers[w].status \in {"starting", "running"}

\* _exec: the shell becomes the provider if its lease still stands, and ends
\* if it does not.
Exec(w, g) ==
  /\ NoPass
  /\ tmux[w][g] = "shell"
  /\ \/ /\ Lease(w, g)
        /\ workers' = [workers EXCEPT ![w].status = "running", ![w].pid = TRUE,
                                      ![w].recent = FALSE]
        /\ tmux' = [tmux EXCEPT ![w][g] = "provider"]
     \/ /\ ~Lease(w, g)
        /\ tmux' = [tmux EXCEPT ![w][g] = "none"]
        /\ UNCHANGED workers
  /\ UNCHANGED <<claims, guests, cooling, orphans, starts>>
  /\ unchangedPass

\* stop --worker.
Stop(w) ==
  /\ NoPass
  /\ workers[w].status # "unborn"
  /\ workers' = [workers EXCEPT ![w] = Stopped(@)]
  /\ UNCHANGED <<claims, guests, cooling>>
  /\ unchangedPass /\ unchangedHost

\* stop --task: every worker of a finished card that has not ended or been
\* asked to.
StopTask(t) ==
  /\ NoPass
  /\ workers' = [w \in Workers |->
                   IF TaskOf[w] = t /\ workers[w].status \notin {"unborn", "stopped", "stopping"}
                   THEN Stopped(workers[w]) ELSE workers[w]]
  /\ UNCHANGED <<claims, guests, cooling>>
  /\ unchangedPass /\ unchangedHost

\* What a careful operator looks at before retrying.
Retriable(w) ==
  /\ "retry_free" \in Trust =>
       claims[w].holds \cap HeldByOthers(claims, UsingOf(workers), w) = {}
  /\ "retry_task" \in Trust => HoldersOf(workers, TaskOf[w]) = {}
  /\ "retry_exited" \in Trust => \A g \in Attempts : <<w, g>> \notin orphans

\* retry: back to the queue for an account, with the claims it had.
Retry(w) ==
  /\ NoPass
  /\ workers[w].status = "blocked"
  /\ SeatOf(w, workers[w].generation) = "none"
  /\ Retriable(w)
  /\ workers' = [workers EXCEPT ![w].status = "waiting_for_capacity"]
  /\ UNCHANGED <<claims, guests, cooling>>
  /\ unchangedPass /\ unchangedHost

-----------------------------------------------------------------------------
(* Commands of the sessions.  A worker's is refused unless it comes from the *)
(* present generation and that generation is starting or running; a guest   *)
(* asks as itself and is registered by its first claim.                     *)

Acting(s) ==
  IF s \in Guests THEN TRUE
  ELSE /\ workers[s].status \in {"starting", "running"}
       /\ Alive(s, workers[s].generation)

\* claim_and_wait, its first look.
ClaimResources(s, names) ==
  /\ NoPass
  /\ Acting(s)
  /\ guests' = guests \cup (Guests \cap {s})
  /\ claims' = Claim(claims, UsingOf(workers) \cup {s}, s, names)
  /\ UNCHANGED <<workers, cooling>>
  /\ unchangedPass /\ unchangedHost

\* claim_and_wait, a later look.
Poll(s) ==
  /\ NoPass
  /\ s \in UsingOf(workers)
  /\ Acting(s)
  /\ claims' = Grant(claims, UsingOf(workers), s)
  /\ UNCHANGED <<workers, guests, cooling>>
  /\ unchangedPass /\ unchangedHost

\* release: some names or, with `keep` empty, everything.
ReleaseResources(s, keep) ==
  /\ NoPass
  /\ s \in UsingOf(workers)
  /\ Acting(s)
  /\ claims' = Release(claims, UsingOf(workers), s, keep)
  /\ UNCHANGED <<workers, guests, cooling>>
  /\ unchangedPass /\ unchangedHost

\* A guest's process has ended when state() is read: it is dropped.
GuestEnds(s) ==
  /\ NoPass
  /\ s \in guests
  /\ guests' = guests \ {s}
  /\ claims' = Forget(claims, s)
  /\ UNCHANGED <<workers, cooling>>
  /\ unchangedPass /\ unchangedHost

-----------------------------------------------------------------------------
(* The supervisor pass.  It takes the workers in the order they were created *)
(* and each through at most five steps: look, kill, reap, place, launch.     *)

unchangedDisk == UNCHANGED <<workers, claims, guests, cooling>>

Goto(s) == at' = at /\ step' = s
Advance == at' = at + 1 /\ step' = "look"
At(s)   == at \in Workers /\ step = s
Set(status) == mem' = [mem EXCEPT ![at].status = status, ![at].recent = FALSE]

\* Both locks are taken and state.json is read.
BeginPass ==
  /\ NoPass
  /\ at' = 1 /\ step' = "look" /\ mem' = workers
  /\ unchangedDisk /\ unchangedHost

\* Nothing to do, or nothing to do yet.
LookPast ==
  /\ At("look")
  /\ \/ mem[at].status \in {"unborn", "stopped", "blocked"}
     \/ /\ mem[at].status = "starting"
        /\ SeatOf(at, mem[at].generation) = "none"
        /\ mem[at].recent
     \/ /\ mem[at].status = "running"
        /\ SeatOf(at, mem[at].generation) # "none"
  /\ Advance
  /\ UNCHANGED mem /\ unchangedDisk /\ unchangedHost

\* The account has reached stop_percent, or the transcript of a running
\* session ends with a usage limit: the worker is to be replaced.
LookExhausted ==
  /\ At("look")
  /\ mem[at].status \in {"starting", "running"}
  /\ Set("replacing")
  /\ Goto("kill")
  /\ unchangedDisk /\ unchangedHost

\* The session of a starting worker exists.
LookStarted ==
  /\ At("look")
  /\ mem[at].status = "starting"
  /\ SeatOf(at, mem[at].generation) # "none"
  /\ Set("running")
  /\ Advance
  /\ unchangedDisk /\ unchangedHost

\* A slip: a starting worker without a session is waited for.
LookUnlaunchedWaits ==
  /\ At("look")
  /\ mem[at].status = "starting"
  /\ SeatOf(at, mem[at].generation) = "none"
  /\ Advance
  /\ UNCHANGED mem /\ unchangedDisk /\ unchangedHost

\* It does not, and should by now: launched again under the same generation.
LookUnlaunched ==
  /\ At("look")
  /\ mem[at].status = "starting"
  /\ SeatOf(at, mem[at].generation) = "none"
  /\ ~mem[at].recent
  /\ tmux' = Launched(at, mem[at].generation)
  /\ Advance
  /\ UNCHANGED <<mem, orphans, starts>> /\ unchangedDisk

\* The session of a running worker is gone: an unexplained exit.
LookExited ==
  /\ At("look")
  /\ mem[at].status = "running"
  /\ SeatOf(at, mem[at].generation) = "none"
  /\ Set("blocked")
  /\ Advance
  /\ unchangedDisk /\ unchangedHost

\* An earlier pass, or a command, left the worker to this step.
LookUnfinished ==
  /\ At("look")
  /\ \/ mem[at].status \in {"replacing", "stopping"} /\ Goto("kill")
     \/ mem[at].status = "waiting_for_capacity" /\ Goto("place")
  /\ UNCHANGED mem /\ unchangedDisk /\ unchangedHost

\* A slip: the grace is never over.
InGraceForEver == mem[at].status = "stopping"

InGrace == mem[at].status = "stopping" /\ mem[at].recent

\* Left for the next pass: the command that asked may still be answering, or
\* tmux did not kill the session.
KillLater ==
  /\ At("kill")
  /\ InGrace \/ SeatOf(at, mem[at].generation) # "none"
  /\ Advance
  /\ UNCHANGED mem /\ unchangedDisk /\ unchangedHost

\* The session is gone or killed now.  Its provider may take its time.
Kill ==
  /\ At("kill")
  /\ ~InGrace
  /\ LET g == mem[at].generation
     IN /\ tmux' = IF g = 0 THEN tmux ELSE [tmux EXCEPT ![at][g] = "none"]
        /\ orphans' = IF SeatOf(at, g) = "provider" THEN orphans \cup {<<at, g>>} ELSE orphans
  /\ Goto("reap")
  /\ UNCHANGED <<mem, starts>> /\ unchangedDisk

\* A slip: the session is gone, so the process is taken to be.
GoneWithSession == FALSE

\* The process we know of still runs.
StillThere == mem[at].pid /\ Alive(at, mem[at].generation)

ReapLater ==
  /\ At("reap")
  /\ StillThere
  /\ Advance
  /\ UNCHANGED mem /\ unchangedDisk /\ unchangedHost

\* A worker that was stopping has stopped; state.json is saved.
ReapStopped ==
  /\ At("reap")
  /\ ~StillThere
  /\ mem[at].status = "stopping"
  /\ Set("stopped")
  /\ workers' = mem'
  /\ Advance
  /\ UNCHANGED <<claims, guests, cooling>> /\ unchangedHost

\* The pool of a replaced worker cools down; state.json is saved.
ReapReplaced ==
  /\ At("reap")
  /\ ~StillThere
  /\ mem[at].status = "replacing"
  /\ Set("waiting_for_capacity")
  /\ workers' = mem'
  /\ cooling' = cooling \cup {PoolOf[mem[at].account]}
  /\ Goto("place")
  /\ UNCHANGED <<claims, guests>> /\ unchangedHost

\* The worker has had all its attempts, or the configuration no longer routes
\* its role.
PlaceBlocked(noPolicy) ==
  /\ At("place")
  /\ noPolicy \/ ~AttemptsLeft(mem[at])
  /\ Set("blocked")
  /\ Advance
  /\ unchangedDisk /\ unchangedHost

\* No account has room.
PlaceLater ==
  /\ At("place")
  /\ AttemptsLeft(mem[at])
  /\ Advance
  /\ UNCHANGED mem /\ unchangedDisk /\ unchangedHost

\* The next generation is reserved and state.json saved, before it is launched.
Place(a) ==
  /\ At("place")
  /\ AttemptsLeft(mem[at])
  /\ CanTake(mem, a)
  /\ mem' = [mem EXCEPT ![at] = Reserved(@, a)]
  /\ workers' = mem'
  /\ Goto("launch")
  /\ UNCHANGED <<claims, guests, cooling>> /\ unchangedHost

LaunchPlaced ==
  /\ At("launch")
  /\ tmux' = Launched(at, mem[at].generation)
  /\ Advance
  /\ UNCHANGED <<mem, orphans, starts>> /\ unchangedDisk

EndPass == at' = 0 /\ step' = "look" /\ mem' = [w \in Workers |-> Unborn]

\* A slip: the queue is not told of the sessions that ended.
FinishSilently ==
  /\ at = NWorkers + 1
  /\ workers' = mem
  /\ EndPass
  /\ UNCHANGED <<claims, guests, cooling>> /\ unchangedHost

\* After the last worker: the queue is offered what came free, all is saved.
Finish ==
  /\ at = NWorkers + 1
  /\ claims' = OfferQueue(claims, UsingOf(mem))
  /\ workers' = mem
  /\ EndPass
  /\ UNCHANGED <<guests, cooling>> /\ unchangedHost

\* The pass ends early: killed, or tmux or the board refused and it raised.
\* What it had not saved is lost, and the queue is not offered.
PassDies ==
  /\ ~NoPass
  /\ EndPass
  /\ unchangedDisk /\ unchangedHost

Pass ==
  \/ BeginPass
  \/ LookPast \/ LookExhausted \/ LookStarted \/ LookUnlaunched \/ LookExited \/ LookUnfinished
  \/ KillLater \/ Kill
  \/ ReapLater \/ ReapStopped \/ ReapReplaced
  \/ \E noPolicy \in BOOLEAN : PlaceBlocked(noPolicy)
  \/ PlaceLater
  \/ \E a \in Accounts : Place(a)
  \/ LaunchPlaced
  \/ Finish

-----------------------------------------------------------------------------
(* The host: processes end and time passes whether or not a pass runs. *)

unchangedState == unchangedDisk /\ unchangedPass /\ UNCHANGED starts

\* The shell or the provider ends, and its tmux session with it.
SessionEnds(w, g) ==
  /\ tmux[w][g] # "none"
  /\ tmux' = [tmux EXCEPT ![w][g] = "none"]
  /\ UNCHANGED orphans /\ unchangedState

\* The tmux session is lost and the provider lives on for a while.
SessionLost(w, g) ==
  /\ tmux[w][g] = "provider"
  /\ tmux' = [tmux EXCEPT ![w][g] = "none"]
  /\ orphans' = orphans \cup {<<w, g>>}
  /\ unchangedState

OrphanExits(w, g) ==
  /\ <<w, g>> \in orphans
  /\ orphans' = orphans \ {<<w, g>>}
  /\ UNCHANGED tmux /\ unchangedState

\* The 30 seconds since a start, or the 3 since a stop, are over.
Elapsed(w) ==
  /\ workers[w].recent
  /\ "prompt_start" \in Trust /\ workers[w].status = "starting"
       => <<w, workers[w].generation>> \notin starts
  /\ workers' = [workers EXCEPT ![w].recent = FALSE]
  /\ mem' = [mem EXCEPT ![w].recent = FALSE]
  /\ UNCHANGED <<claims, guests, cooling, at, step>> /\ unchangedHost

CooldownEnds(p) ==
  /\ p \in cooling
  /\ cooling' = cooling \ {p}
  /\ UNCHANGED <<workers, claims, guests>> /\ unchangedPass /\ unchangedHost

-----------------------------------------------------------------------------
Host ==
  \/ \E w \in Workers, g \in Attempts :
       SessionEnds(w, g) \/ SessionLost(w, g) \/ OrphanExits(w, g)
  \/ \E w \in Workers : Elapsed(w)
  \/ \E p \in Pools : CooldownEnds(p)

Command ==
  \/ \E w \in Workers : Start(w) \/ Stop(w) \/ Retry(w)
  \/ \E w \in Workers, g \in Attempts : LateLaunch(w, g) \/ StartDies(w, g) \/ Exec(w, g)
  \/ \E t \in Tasks : StopTask(t)
  \/ \E s \in Sessions, names \in (SUBSET Resources) \ {{}} : ClaimResources(s, names)
  \/ \E s \in Sessions : Poll(s)
  \/ \E s \in Sessions, keep \in SUBSET Resources : ReleaseResources(s, keep)
  \/ \E s \in Guests : GuestEnds(s)

Next == Command \/ Pass \/ PassDies \/ Host

Spec == Init /\ [][Next]_vars

-----------------------------------------------------------------------------
(***************************************************************************)
(* Fairness.  launchd runs `hal resource supervise` every 30 seconds, so   *)
(* passes begin for ever and go on once begun.  A host where every pass    *)
(* dies, tmux never kills or every shell ends before it reaches _exec is   *)
(* broken: these happen finitely often.  Processes that were killed end,   *)
(* clocks advance, and an account always gets room again: its window       *)
(* resets.  Nothing makes an operator stop, retry or start anything; each  *)
(* stop starts the grace anew, and none is repeated for ever.              *)
(***************************************************************************)
PassFairness ==
  /\ WF_vars(Pass)
  /\ \A w \in Workers : SF_vars(at = w /\ Kill)
  /\ \A w \in Workers : SF_vars(at = w /\ \E a \in Accounts : Place(a))
  /\ <>[][PassDies => Finish]_vars
  /\ <>[][\A w \in Workers : Stop(w) => workers[w].status # "stopping"]_vars

HostFairness ==
  /\ \A w \in Workers, g \in Attempts :
       WF_vars(OrphanExits(w, g)) /\ SF_vars(Exec(w, g)) /\ WF_vars(LateLaunch(w, g))
  /\ \A w \in Workers : WF_vars(Elapsed(w))
  /\ \A p \in Pools : WF_vars(CooldownEnds(p))
  /\ <>[][\A w \in Workers, g \in Attempts :
            SessionEnds(w, g) => tmux[w][g] = "provider" \/ Exec(w, g)]_vars

\* A session hands back what it holds in the end, or ends.
SessionFairness ==
  \A s \in Sessions : SF_vars(claims[s].holds # {} /\ ReleaseResources(s, {}))

FairSpec == Spec /\ PassFairness /\ HostFairness /\ SessionFairness

-----------------------------------------------------------------------------
(* Properties. *)

\* The shape of the state.
TypeOK ==
  /\ workers \in [Workers -> Worker]
  /\ claims \in [Sessions -> [holds : SUBSET Resources, wants : SUBSET Resources,
                              ahead : SUBSET Sessions]]
  /\ guests \subseteq Guests
  /\ cooling \subseteq Pools
  /\ at \in 0..(NWorkers + 1)
  /\ step \in {"look", "kill", "reap", "place", "launch"}
  /\ mem \in [Workers -> Worker]
  /\ tmux \in [Workers -> [Attempts -> Seat]]
  /\ orphans \subseteq Workers \X Attempts
  /\ starts \subseteq Workers \X Attempts

\* "One resource is held by one session at a time" (module docstring): no
\* interleaving of claims, releases, replacements, exits, crashes of the
\* supervisor and retries lends a resource to two sessions that count.
Exclusive ==
  \A s, t \in UsingOf(workers) : s # t => claims[s].holds \cap claims[t].holds = {}

\* "A worker never sits on one resource waiting for another" (claim): what a
\* session holds and what it waits for never coexist.
AllOrNothing == \A s \in Sessions : claims[s].wants # {} => claims[s].holds = {}

\* s waits for t, which holds, or asked earlier for, some of what s asked for.
WaitsFor(s, t) ==
  /\ s # t /\ {s, t} \subseteq UsingOf(workers)
  /\ \/ claims[s].wants \cap claims[t].holds # {}
     \/ t \in claims[s].ahead /\ claims[s].wants \cap claims[t].wants # {}

\* "A half-granted claim is how two sessions deadlock, each holding what the
\* other waits for" (grant): no sessions, however many, wait for one another,
\* be it for what they hold or for their turn.
NoCircularWait ==
  \A group \in (SUBSET Sessions) \ {{}} : \E s \in group : \A t \in group : ~WaitsFor(s, t)

\* wants_at orders the queue: of two sessions that wait, one asked first.
QueueOrdered ==
  \A s \in Sessions :
    /\ s \notin claims[s].ahead
    /\ \A t \in claims[s].ahead :
         /\ claims[t].wants # {} /\ claims[s].wants # {}
         /\ s \notin claims[t].ahead
         /\ claims[t].ahead \subseteq claims[s].ahead
    /\ \A t \in Sessions \ {s} :
         claims[s].wants # {} /\ claims[t].wants # {}
           => s \in claims[t].ahead \/ t \in claims[s].ahead

\* s comes to hold what t, which counts, waits for before and after the step
\* and asked for before s did.
Overtakes(s, t) ==
  /\ s # t
  /\ t \in UsingOf(workers) /\ t \in UsingOf(workers)'
  /\ (claims'[s].holds \ claims[s].holds) \cap claims[t].wants \cap claims'[t].wants # {}
  /\ s \notin claims[t].ahead

AsksAgain(s) == claims[s].wants # {} /\ \E names \in (SUBSET Resources) \ {{}} : ClaimResources(s, names)

\* First come, first served: no session is overtaken in the queue, whatever
\* the others claim, release, lose or die of, unless it asks again itself.
NoOvertaking == [][\A s, t \in Sessions : Overtakes(s, t) => AsksAgain(t)]_vars

\* What s waits for is free, it is its turn, and it goes on waiting.
KeptWaiting(s) == s \in UsingOf(workers) /\ Grantable(claims, UsingOf(workers), s)

\* "Called wherever a resource can have come free" (grant_waiting): no release,
\* claim, withdrawal or pass leaves a claim behind that could now be granted.
\* Only a session that stops counting can, until the next pass is through.
OfferedAtOnce ==
  [][\A s \in UsingOf(workers) :
       KeptWaiting(s)' => /\ KeptWaiting(s) \/ ~(UsingOf(workers) \subseteq UsingOf(workers)')
                          /\ ~Finish]_vars

\* "A task has one worker at a time": no two workers hold the same task.
OneWorkerPerTask ==
  \A v, w \in Workers :
    v # w /\ TaskOf[v] = TaskOf[w] => ~(workers[v].status \in Holding /\ workers[w].status \in Holding)

\* "Never grant a second owner while the old session exists": whatever dies
\* and whichever launches come late, at most one provider of a worker runs.
SingleOwner ==
  \A w \in Workers :
    Cardinality({g \in Attempts : tmux[w][g] = "provider"})
      + Cardinality({g \in Attempts : <<w, g>> \in orphans}) <= 1

\* A provider that sits in a tmux session is the present generation of a
\* worker the supervisor still watches: no session outlives its lease.
NoLeakedSession ==
  \A w \in Workers, g \in Attempts :
    tmux[w][g] = "provider" => /\ workers[w].generation = g
                               /\ workers[w].status \in {"running", "replacing", "stopping"}

\* A pool never carries more sessions than the most generous account on it
\* allows, hand-overs and replacements included: a session that is being
\* stopped still takes its place until it is gone.
PoolWithinLimit ==
  \A p \in Pools :
    LET carried == {w \in Workers :
          /\ workers[w].account # NoAccount /\ PoolOf[workers[w].account] = p
          /\ \/ workers[w].status \in {"starting", "running", "replacing"}
             \/ SeatOf(w, workers[w].generation) = "provider"}
    IN carried # {} => \E a \in Accounts : PoolOf[a] = p /\ Cardinality(carried) <= MaxWorkers[a]

\* "A waiting card reads `waiting for a resource`": a card that reads so has a
\* session in the queue.
CardShowsQueue ==
  \A t \in Tasks : CardStage(workers, t) = "resource_wait"
     => \E w \in UsingOf(workers) \cap Workers : TaskOf[w] = t /\ claims[w].wants # {}

\* "State is saved before each external effect" (supervise): what the pass
\* kills is, in state.json, on its way out.  A supervisor that dies after the
\* kill then finds a session it meant to end, not an unexplained exit.
SavedBeforeKill ==
  [][\A w \in Workers : at = w /\ step = "kill" /\ step' = "reap" /\ tmux' # tmux
       => workers[w].status \in {"replacing", "stopping"}]_vars

\* A worker that was asked to stop has stopped in the end, whatever it was
\* doing: a start in flight, a replacement, a process slow to end.
StopEnds == \A w \in Workers : workers[w].status = "stopping" ~> workers[w].status = "stopped"

\* A generation that was reserved is launched and runs, or the worker leaves
\* `starting` otherwise: a start that died between the two is made good.
ReservedLaunches == \A w \in Workers : workers[w].status = "starting" ~> workers[w].status # "starting"

Waits(s) == s \in UsingOf(workers) /\ claims[s].wants # {}

\* Every claim is served, as long as its session waits and does not ask again.
ClaimServed ==
  \A s \in Sessions : []<><<AsksAgain(s)>>_vars \/ (Waits(s) ~> ~Waits(s))

-----------------------------------------------------------------------------
(***************************************************************************)
(* The broker implements Lending.  Its clients are the sessions; those     *)
(* that count are the ones the queue counts.  `ahead`, a relation between  *)
(* sessions, is the line.                                                  *)
(***************************************************************************)
InQueue == {s \in Sessions : claims[s].wants # {}}

Line == [i \in 1..Cardinality(InQueue) |->
           CHOOSE s \in InQueue : Cardinality(claims[s].ahead) = i - 1]

Present == UsingOf(workers)

Lent == [s \in Sessions |-> IF s \in Present THEN claims[s].holds ELSE {}]

Awaited == [s \in Sessions |-> claims[s].wants]

Desk == INSTANCE Lending WITH
  Clients <- Sessions, present <- Present, lent <- Lent, claim <- Awaited, line <- Line

\* Whatever starts, dies, is replaced, retried or launched late, the broker's
\* commands and passes look to the sessions like a desk that lends each thing
\* once, in whole claims, in turn, and takes nothing away.
ImplementsLending == Desk!Spec

=============================================================================

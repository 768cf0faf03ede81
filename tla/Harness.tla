------------------------------ MODULE Harness ------------------------------
(***************************************************************************)
(* One persistent agent: its inbox directory, its state.json, the loop     *)
(* that each hub (a running TUI) keeps for it, and `hal agent once`.       *)
(* Sources: lib/src/harness/supervisor.rs, trigger.rs, tick.rs, state.rs.  *)
(*                                                                         *)
(* Everything on disk is shared by all processes and survives all of       *)
(* them; what a loop remembers dies with its process.  Money is reduced to *)
(* the budget it has used up, the text of an event to its name, and a      *)
(* poll's digest to the output it was computed from.                       *)
(***************************************************************************)
EXTENDS Integers, Sequences, FiniteSets

CONSTANTS
  Hubs,         \* TUI processes, each with one loop for this agent
  Clis,         \* processes of `hal agent once`
  Events,       \* payloads that may be dropped into the inbox
  Outputs,      \* what the poll command may print
  Kinds,        \* the triggers agent.toml may name
  Budgets,      \* the budgets agent.toml sets: "daily", "total"
  MaxFailures,  \* MAX_FAILURES_IN_A_ROW
  MaxAsks,      \* bound: runs by hand
  Nothing       \* no event, no output, no digest

ASSUME HarnessAssumption ==
  /\ Hubs \cap Clis = {}
  /\ Kinds \subseteq {"inbox", "poll", "interval"}
  /\ Budgets \subseteq {"daily", "total"}
  /\ MaxFailures \in Nat \ {0}
  /\ MaxAsks \in Nat
  /\ Nothing \notin Events \cup Outputs
  /\ Events \cap Outputs = {}

Runners == Hubs \cup Clis

\* An interval's event carries no payload.
Tick == "tick"

VARIABLES
  kind,      \* trigger.kind
  state,     \* state.json: marker, over, failures, stopped, paused
  place,     \* the directory of each event's file
  arrived,   \* the events in the order of their files' mtimes
  out,       \* what the poll command would print now
  asked,     \* the stamp in <agent dir>/wake
  at,        \* where each process is
  mem,       \* what it remembers
  ran,       \* history: the verdicts given on each event
  late,      \* history: ticks each hub began since the agent was refused
  tried,     \* history: the last poll output a tick was begun for
  answered   \* history: the last run by hand a poll has answered

disk  == <<state, place, arrived, asked>>
ghost == <<ran, late, tried, answered>>
vars  == <<kind, disk, out, at, mem, ghost>>

NewState ==
  [marker |-> "none", over |-> "none", failures |-> 0, stopped |-> "none",
   paused |-> FALSE]

\* A loop's locals: the event in hand, its verdict, the reason it is about to
\* halt for, and Pacing.  `seen` is the stamp of the last look, -1 for none.
NewMemory ==
  [event |-> Nothing, ok |-> FALSE, reason |-> "none", due |-> TRUE,
   digest |-> Nothing, seen |-> -1]

TypeOK ==
  /\ kind \in Kinds
  /\ state \in [marker : {"none", "fresh", "stale"}, over : {"none", "daily", "total"},
                failures : 0..MaxFailures,
                stopped : {"none", "failures", "daily", "total"}, paused : BOOLEAN]
  /\ place \in [Events -> {"none", "inbox", "processing", "done", "failed"}]
  /\ arrived \in Seq(Events)
  /\ out \in Outputs \cup {Nothing}
  /\ asked \in 0..MaxAsks
  /\ at \in [Runners -> {"off", "start", "look", "reclaim", "halt", "ready", "next",
                         "poll", "taken", "running", "ack"}]
  /\ mem \in [Runners -> [event : Events \cup Outputs \cup {Nothing, Tick},
                          ok : BOOLEAN, reason : {"none", "daily", "total"},
                          due : BOOLEAN, digest : Outputs \cup {Nothing},
                          seen : -1..MaxAsks]]
  /\ ran \in [Events -> SUBSET BOOLEAN]
  /\ late \in [Hubs -> 0..2]
  /\ tried \in Outputs \cup {Nothing}
  /\ answered \in 0..MaxAsks

Init ==
  /\ kind \in Kinds
  /\ state = NewState
  /\ place = [e \in Events |-> "none"]
  /\ arrived = <<>>
  /\ out = Nothing
  /\ asked = 0
  /\ at = [r \in Runners |-> "off"]
  /\ mem = [r \in Runners |-> NewMemory]
  /\ ran = [e \in Events |-> {}]
  /\ late = [h \in Hubs |-> 0]
  /\ tried = Nothing
  /\ answered = 0

-----------------------------------------------------------------------------
(* What the code computes from a state                                     *)

\* The reasons a loop does not run the agent.
Refused(s) == s.paused \/ s.stopped # "none" \/ s.over # "none"

\* Slip: a halt that does not hold the loop back.
RulingForgetsHalt(s) ==
  IF s.paused THEN "look" ELSE IF s.over # "none" THEN "halt" ELSE "ready"

\* Where a loop goes with the state it has read.
Ruling(s) ==
  IF s.paused \/ s.stopped # "none" THEN "look"
  ELSE IF s.over # "none" THEN "halt"
  ELSE "ready"

Pending == {e \in Events : place[e] = "inbox"}

\* Slip: the directory's order.
Unsorted(e) == e \in Pending

\* Oldest first.
Oldest(e) ==
  /\ e \in Pending
  /\ \A i, j \in 1..Len(arrived) : i < j /\ arrived[j] = e => arrived[i] \notin Pending

Refile(from, to) == [e \in Events |-> IF place[e] = from THEN to ELSE place[e]]

\* The two updates of tick_once.  Reaching a budget is never undone by
\* spending more.
Marked(s) == [s EXCEPT !.marker = "fresh"]

Spent(s, used) ==
  CASE s.over = "total" \/ used = "total" -> "total"
    [] s.over = "daily" \/ used = "daily" -> "daily"
    [] OTHER -> "none"

\* Slip: failures are counted and never halt the agent.
RecordedUnhalted(s, ok, used) ==
  [s EXCEPT !.marker = "none", !.over = Spent(s, used),
            !.failures = IF ok THEN 0 ELSE @ + 1]

Recorded(s, ok, used) ==
  LET fails == IF ok THEN 0 ELSE IF s.failures = MaxFailures THEN MaxFailures
                                 ELSE s.failures + 1
  IN  [s EXCEPT !.marker = "none", !.over = Spent(s, used), !.failures = fails,
                !.stopped = IF fails = MaxFailures THEN "failures" ELSE @]

InFlight == {r \in Runners : at[r] = "running"}

-----------------------------------------------------------------------------
(* One loop: agent_loop                                                    *)

Go(r, to) == at' = [at EXCEPT ![r] = to]
Remember(r, m) == mem' = [mem EXCEPT ![r] = m]

HubStarts(h) ==
  /\ at[h] = "off"
  /\ Go(h, "start")
  /\ UNCHANGED <<kind, disk, out, mem, ghost>>

\* Slip: what a dead hub left in processing/ stays there.
RequeueNothing(h) ==
  /\ at[h] = "start"
  /\ Go(h, "look")
  /\ UNCHANGED <<kind, disk, out, mem, ghost>>

\* requeue_stale: whatever is in processing/, whoever put it there.
Requeue(h) ==
  /\ at[h] = "start"
  /\ place' = Refile("processing", "inbox")
  /\ Go(h, "look")
  /\ UNCHANGED <<kind, state, arrived, asked, out, mem, ghost>>

\* Act on the state s: park, halt for a budget, or go on.
Rule(h, s) ==
  /\ Go(h, Ruling(s))
  /\ Remember(h, [mem[h] EXCEPT !.reason = IF Ruling(s) = "halt" THEN s.over ELSE "none"])

\* Slip: a paused or halted agent is parked before its marker is looked at.
LookParksFirst(h) ==
  /\ at[h] = "look"
  /\ IF state.marker = "stale" /\ Ruling(state) # "look"
     THEN Go(h, "reclaim") /\ UNCHANGED mem
     ELSE Rule(h, state)
  /\ UNCHANGED <<kind, disk, out, ghost>>

Look(h) ==
  /\ at[h] = "look"
  /\ IF state.marker = "stale"
     THEN Go(h, "reclaim") /\ UNCHANGED mem
     ELSE Rule(h, state)
  /\ UNCHANGED <<kind, disk, out, ghost>>

\* reclaim_stale_tick, whose update reads the state again.
Reclaim(h) ==
  /\ at[h] = "reclaim"
  /\ state' = [state EXCEPT !.marker = "none"]
  /\ Rule(h, state')
  /\ UNCHANGED <<kind, place, arrived, asked, out, ghost>>

\* The reason comes from the state the loop looked at.  A reason that another
\* process writes between the read and the update would be replaced, not lost:
\* the agent is halted either way.
Halt(h) ==
  /\ at[h] = "halt"
  /\ state' = [state EXCEPT !.stopped = IF @ = "none" THEN mem[h].reason ELSE @]
  /\ Go(h, "look")
  /\ UNCHANGED <<kind, place, arrived, asked, out, mem, ghost>>

\* A wake's stamp read at the last look, and another one now.
Woken(h) == mem[h].seen \notin {-1, asked}

\* Slip: look_now where run_now is meant.
ListenKeepsDigest(h) ==
  /\ at[h] = "ready"
  /\ Remember(h, [mem[h] EXCEPT !.seen = asked, !.due = @ \/ Woken(h)])
  /\ Go(h, "next")
  /\ UNCHANGED <<kind, disk, out, ghost>>

\* happened(&own) and Pacing.run_now.  The first look only records.  A wake the
\* spec subscribes to only cuts the interval short, as Elapses may at any time.
Listen(h) ==
  /\ at[h] = "ready"
  /\ Remember(h, IF Woken(h)
                 THEN [mem[h] EXCEPT !.seen = asked, !.due = TRUE, !.digest = Nothing]
                 ELSE [mem[h] EXCEPT !.seen = asked])
  /\ Go(h, "next")
  /\ UNCHANGED <<kind, disk, out, ghost>>

\* next_event: the inbox first, then the trigger.
Take(h) ==
  \E e \in Events :
    /\ at[h] = "next"
    /\ Oldest(e)
    /\ place' = [place EXCEPT ![e] = "processing"]
    /\ Remember(h, [mem[h] EXCEPT !.event = e])
    /\ Go(h, "taken")
    /\ UNCHANGED <<kind, state, arrived, asked, out, ghost>>

\* take found nothing, or another hub moved the file between this loop's
\* listing and its rename.
InboxMissed(h) == Pending = {} \/ Hubs # {h}

NothingDue(h) ==
  /\ at[h] = "next"
  /\ InboxMissed(h)
  /\ kind = "inbox" \/ ~mem[h].due
  /\ Go(h, "look")
  /\ UNCHANGED <<kind, disk, out, mem, ghost>>

IntervalFires(h) ==
  /\ at[h] = "next"
  /\ InboxMissed(h)
  /\ kind = "interval"
  /\ mem[h].due
  /\ Remember(h, [mem[h] EXCEPT !.due = FALSE, !.event = Tick])
  /\ Go(h, "taken")
  /\ UNCHANGED <<kind, disk, out, ghost>>

PollStarts(h) ==
  /\ at[h] = "next"
  /\ InboxMissed(h)
  /\ kind = "poll"
  /\ mem[h].due
  /\ Remember(h, [mem[h] EXCEPT !.due = FALSE])
  /\ Go(h, "poll")
  /\ UNCHANGED <<kind, disk, out, ghost>>

PollFails(h) ==
  /\ at[h] = "poll"
  /\ Go(h, "look")
  /\ UNCHANGED <<kind, disk, out, mem, ghost>>

\* An output the last poll printed is no event, nor is an empty one.
PollAnswers(h) ==
  /\ at[h] = "poll"
  /\ IF out = Nothing \/ out = mem[h].digest
     THEN Go(h, "look") /\ UNCHANGED mem
     ELSE /\ Go(h, "taken")
          /\ Remember(h, [mem[h] EXCEPT !.digest = out, !.event = out])
  /\ answered' = IF (out # Nothing /\ out = mem[h].digest) \/ mem[h].seen < answered
                 THEN answered ELSE mem[h].seen
  /\ UNCHANGED <<kind, disk, out, ran, late, tried>>

-----------------------------------------------------------------------------
(* One tick: tick_once, in a loop or in `hal agent once`                   *)

Judge(e, ok) == ran' = [f \in Events |-> IF f = e THEN ran[f] \cup {ok} ELSE ran[f]]

\* The verdict the runner will give is not known yet.
TickStarts(h) ==
  /\ at[h] = "taken"
  /\ state' = Marked(state)
  /\ Go(h, "running")
  /\ late' = [late EXCEPT ![h] = IF ~Refused(state) THEN 0 ELSE IF @ = 2 THEN 2 ELSE @ + 1]
  /\ tried' = IF mem[h].event \in Outputs THEN mem[h].event ELSE tried
  /\ UNCHANGED <<kind, place, arrived, asked, out, mem, ran, answered>>

\* update_state fails before the run or after it: nothing is recorded, and
\* the event goes to failed/.
TickUnrecorded(h) ==
  /\ at[h] \in {"taken", "running"}
  /\ Remember(h, [mem[h] EXCEPT !.ok = FALSE])
  /\ Go(h, "ack")
  /\ tried' = IF mem[h].event \in Outputs THEN mem[h].event ELSE tried
  /\ Judge(mem[h].event, FALSE)
  /\ UNCHANGED <<kind, disk, out, late, answered>>

TickEnds(h) ==
  \E ok \in BOOLEAN, used \in Budgets \cup {"none"} :
    /\ at[h] = "running"
    /\ state' = Recorded(state, ok, used)
    /\ Remember(h, [mem[h] EXCEPT !.ok = ok])
    /\ Judge(mem[h].event, ok)
    /\ Go(h, "ack")
    /\ UNCHANGED <<kind, place, arrived, asked, out, late, tried, answered>>

\* Slip: the verdict is read off the shared state instead of the tick.
AckByState(h) ==
  LET e == mem[h].event
  IN  /\ at[h] = "ack"
      /\ place' = IF e \in Events /\ place[e] = "processing"
                  THEN [place EXCEPT ![e] = IF state.failures = 0 THEN "done" ELSE "failed"]
                  ELSE place
      /\ Remember(h, [mem[h] EXCEPT !.event = Nothing, !.ok = FALSE])
      /\ Go(h, "look")
      /\ UNCHANGED <<kind, state, arrived, asked, out, ghost>>

\* Move the event's file, if it is still there; then back off, which only
\* takes time.
Ack(h) ==
  LET e == mem[h].event
  IN  /\ at[h] = "ack"
      /\ place' = IF e \in Events /\ place[e] = "processing"
                  THEN [place EXCEPT ![e] = IF mem[h].ok THEN "done" ELSE "failed"]
                  ELSE place
      /\ Remember(h, [mem[h] EXCEPT !.event = Nothing, !.ok = FALSE])
      /\ Go(h, "look")
      /\ UNCHANGED <<kind, state, arrived, asked, out, ghost>>

\* Slip: the digest of the last poll survives its process.
DiesRemembering(r) ==
  /\ at[r] # "off"
  /\ Go(r, "off")
  /\ Remember(r, [NewMemory EXCEPT !.digest = mem[r].digest])
  /\ UNCHANGED <<kind, disk, out, ghost>>

\* The process ends: the user quits it, it is killed, the machine stops.
Dies(r) ==
  /\ at[r] # "off"
  /\ Go(r, "off")
  /\ Remember(r, NewMemory)
  /\ UNCHANGED <<kind, disk, out, ghost>>

\* An interval or a poll's own interval has passed.
Elapses(h) ==
  /\ at[h] # "off"
  /\ ~mem[h].due
  /\ Remember(h, [mem[h] EXCEPT !.due = TRUE])
  /\ UNCHANGED <<kind, disk, out, at, ghost>>

\* once: ignores pauses and halts, honours the budgets unless forced, and a
\* poll agent's poll must print something.
Once(c) ==
  \E forced \in BOOLEAN :
    /\ at[c] = "off"
    /\ forced \/ state.over = "none"
    /\ kind = "poll" => out # Nothing
    /\ Go(c, "taken")
    /\ UNCHANGED <<kind, disk, out, mem, ghost>>

OnceStarts(c) ==
  /\ at[c] = "taken"
  /\ state' = Marked(state)
  /\ Go(c, "running")
  /\ UNCHANGED <<kind, place, arrived, asked, out, mem, ghost>>

OnceEnds(c) ==
  \E ok \in BOOLEAN, used \in Budgets \cup {"none"} :
    /\ at[c] = "running"
    /\ state' = Recorded(state, ok, used)
    /\ Go(c, "off")
    /\ UNCHANGED <<kind, place, arrived, asked, out, mem, ghost>>

-----------------------------------------------------------------------------
(* The user and the world                                                  *)

\* The count of late ticks starts again once the agent may run.
Forgiven(s) == IF Refused(s) THEN late ELSE [h \in Hubs |-> 0]

\* drop_event.
Poke(e) ==
  /\ place[e] = "none"
  /\ place' = [place EXCEPT ![e] = "inbox"]
  /\ arrived' = Append(arrived, e)
  /\ UNCHANGED <<kind, state, asked, out, at, mem, ghost>>

\* run_now for an agent with a trigger: touch its wake.
RunNow ==
  /\ kind # "inbox"
  /\ asked < MaxAsks
  /\ asked' = asked + 1
  /\ UNCHANGED <<kind, state, place, arrived, out, at, mem, ghost>>

Pause ==
  /\ state' = [state EXCEPT !.paused = TRUE]
  /\ UNCHANGED <<kind, place, arrived, asked, out, at, mem, ghost>>

\* Also clears a halt.
Resume ==
  /\ state' = [state EXCEPT !.paused = FALSE, !.stopped = "none", !.failures = 0]
  /\ late' = Forgiven(state')
  /\ UNCHANGED <<kind, place, arrived, asked, out, at, mem, ran, tried, answered>>

\* reset deletes state.json without its lock: an update under way may put it
\* back, as if there had been no reset.
Reset ==
  /\ state' = NewState
  /\ late' = Forgiven(state')
  /\ UNCHANGED <<kind, place, arrived, asked, out, at, mem, ran, tried, answered>>

\* today_cost: yesterday's spending does not count.
DayRolls ==
  /\ state.over = "daily"
  /\ state' = [state EXCEPT !.over = "none"]
  /\ late' = Forgiven(state')
  /\ UNCHANGED <<kind, place, arrived, asked, out, at, mem, ran, tried, answered>>

OutputChanges ==
  /\ kind = "poll"
  /\ out' \in (Outputs \cup {Nothing}) \ {out}
  /\ UNCHANGED <<kind, disk, at, mem, ghost>>

\* The marker's tick began longer ago than its timeout and the grace.  The
\* clock is the wall's: a machine that slept may find the tick still running.
MarkerAges ==
  /\ state.marker = "fresh"
  /\ state' = [state EXCEPT !.marker = "stale"]
  /\ UNCHANGED <<kind, place, arrived, asked, out, at, mem, ghost>>

Loop(h) ==
  \/ Requeue(h) \/ Look(h) \/ Reclaim(h) \/ Halt(h) \/ Listen(h)
  \/ Take(h) \/ NothingDue(h) \/ IntervalFires(h) \/ PollStarts(h) \/ PollAnswers(h)
  \/ TickStarts(h) \/ TickEnds(h) \/ Ack(h)

World ==
  \/ \E e \in Events : Poke(e)
  \/ RunNow \/ Pause \/ Resume \/ Reset \/ DayRolls \/ OutputChanges \/ MarkerAges

Next ==
  \/ \E h \in Hubs : Loop(h) \/ HubStarts(h) \/ PollFails(h) \/ TickUnrecorded(h) \/ Elapses(h)
  \/ \E r \in Runners : Dies(r)
  \/ \E c \in Clis : Once(c) \/ OnceStarts(c) \/ OnceEnds(c)
  \/ World

Spec == Init /\ [][Next]_vars

-----------------------------------------------------------------------------
(* Fairness                                                                *)

\* The TUI keeps polling its loops, a run ends by its own timeout, intervals
\* pass, and markers age.  A poll that keeps working is one that works again
\* and again, and no hub is restarted for ever.
Fairness ==
  /\ \A h \in Hubs :
       /\ WF_vars(HubStarts(h))
       /\ WF_vars(Loop(h))
       /\ WF_vars(Elapses(h))
       /\ SF_vars(PollAnswers(h))
       /\ <>[][~Dies(h)]_vars
  /\ WF_vars(MarkerAges)
  /\ \A c \in Clis : WF_vars(OnceStarts(c)) /\ WF_vars(OnceEnds(c))

FairSpec == Spec /\ Fairness

-----------------------------------------------------------------------------
(* Properties                                                              *)

\* An event's file ends in done/ only if a run of it succeeded, in failed/
\* only if a run of it failed or could not be recorded -- also when another
\* process has put the file back and taken it again in the meantime.
FiledAsRun ==
  \A e \in Events :
    /\ place[e] = "done" => TRUE \in ran[e]
    /\ place[e] = "failed" => FALSE \in ran[e]

\* trigger.rs: "a burst is handled in arrival order".  With one hub no event
\* is touched before every earlier one is filed, restarts included.
HandledInOrder ==
  Cardinality(Hubs) = 1 =>
    \A i, j \in 1..Len(arrived) :
      i < j /\ place[arrived[j]] # "inbox" => place[arrived[i]] \in {"done", "failed"}

\* A loop decides on a state it read before; whatever changes after that, it
\* begins at most one tick of an agent that is paused, halted or over its
\* budget.
OneLateTick == \A h \in Hubs : late[h] <= 1

\* trigger.rs: "Durable and at-least-once".  An event in the inbox is filed,
\* across restarts of the hub, unless the agent comes to be refused.
EventsFiled ==
  \A e \in Events :
    place[e] \in {"inbox", "processing"}
      ~> (place[e] \in {"done", "failed"} \/ Refused(state))

\* A marker whose process is gone is cleared, even for an agent that is
\* paused or halted: the tab must not show it running for ever.
MarkerFreed ==
  (state.marker # "none" /\ InFlight = {}) ~> (state.marker = "none" \/ InFlight # {})

\* What a poll prints and keeps printing is run once, whatever the hub
\* forgot on the way.
OutputTried ==
  \A v \in Outputs : out = v ~> (tried = v \/ out # v \/ Refused(state))

\* A run by hand makes the poll's output count even when the last poll
\* printed the same.
RunNowAnswered ==
  \A n \in 1..MaxAsks :
    (kind = "poll" /\ asked = n) ~> (answered >= n \/ Refused(state))

\* spec.rs says the daily budget "halts the agent for the rest of the day":
\* the halt does not outlive the day.
DailyHaltEnds == state.stopped = "daily" => state.over = "daily"
=============================================================================

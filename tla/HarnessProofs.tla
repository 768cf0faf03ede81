--------------------------- MODULE HarnessProofs ---------------------------
(***************************************************************************)
(* What holds of Harness for every number of hubs, events and failures:    *)
(* its types, that an event's file is filed by a verdict some run of it    *)
(* was given, that a loop begins at most one tick too late; and that one   *)
(* hub handles events in the order in which they came.                     *)
(***************************************************************************)
EXTENDS Harness, FiniteSetTheorems, TLAPS

Places == {"none", "inbox", "processing", "done", "failed"}
Points == {"off", "start", "look", "reclaim", "halt", "ready", "next",
           "poll", "taken", "running", "ack"}
States == [marker : {"none", "fresh", "stale"}, over : {"none", "daily", "total"},
           failures : 0..MaxFailures,
           stopped : {"none", "failures", "daily", "total"}, paused : BOOLEAN]
Memories == [event : Events \cup Outputs \cup {Nothing, Tick},
             ok : BOOLEAN, reason : {"none", "daily", "total"},
             due : BOOLEAN, digest : Outputs \cup {Nothing}, seen : -1..MaxAsks]

\* The updates of state.json keep its shape.
LEMMA StateUpdates ==
  ASSUME NEW s \in States
  PROVE  /\ NewState \in States
         /\ Marked(s) \in States
         /\ \A ok \in BOOLEAN, used \in Budgets \cup {"none"} : Recorded(s, ok, used) \in States
         /\ [s EXCEPT !.marker = "none"] \in States
         /\ [s EXCEPT !.marker = "stale"] \in States
         /\ [s EXCEPT !.over = "none"] \in States
         /\ [s EXCEPT !.paused = TRUE] \in States
         /\ [s EXCEPT !.paused = FALSE, !.stopped = "none", !.failures = 0] \in States
<1>1. MaxFailures \in Nat \ {0} /\ Budgets \subseteq {"daily", "total"}
  BY HarnessAssumption
<1>2. ASSUME NEW ok \in BOOLEAN, NEW used \in Budgets \cup {"none"}
      PROVE  Recorded(s, ok, used) \in States
  <2>1. Spent(s, used) \in {"none", "daily", "total"}
    BY DEF Spent
  <2>2. (IF ok THEN 0 ELSE IF s.failures = MaxFailures THEN MaxFailures ELSE s.failures + 1)
          \in 0..MaxFailures
    BY <1>1 DEF States
  <2> QED
    BY <2>1, <2>2 DEF Recorded, States
<1>3. NewState \in States
  BY <1>1 DEF States, NewState
<1>4. Marked(s) \in States /\ [s EXCEPT !.marker = "none"] \in States
  BY DEF States, Marked
<1>5. [s EXCEPT !.marker = "stale"] \in States /\ [s EXCEPT !.over = "none"] \in States
  BY DEF States
<1>6. [s EXCEPT !.paused = TRUE] \in States
  BY DEF States
<1>7. [s EXCEPT !.paused = FALSE, !.stopped = "none", !.failures = 0] \in States
  <2> DEFINE t == [s EXCEPT !.paused = FALSE]
  <2>1. t \in States
    BY DEF States
  <2>2. 0 \in 0..MaxFailures
    BY <1>1
  <2>3. [t EXCEPT !.stopped = "none", !.failures = 0] \in States
    BY <2>1, <2>2 DEF States
  <2>4. [t EXCEPT !.stopped = "none", !.failures = 0]
          = [s EXCEPT !.paused = FALSE, !.stopped = "none", !.failures = 0]
    BY DEF States
  <2> QED
    BY <2>3, <2>4
<1> QED
  BY <1>2, <1>3, <1>4, <1>5, <1>6, <1>7

LEMMA MemoryUpdates ==
  ASSUME NEW m \in Memories
  PROVE  /\ NewMemory \in Memories
         /\ \A x \in {"none", "daily", "total"} : [m EXCEPT !.reason = x] \in Memories
         /\ \A e \in Events : [m EXCEPT !.event = e] \in Memories
         /\ \A v \in Outputs : [m EXCEPT !.digest = v, !.event = v] \in Memories
         /\ \A ok \in BOOLEAN : [m EXCEPT !.ok = ok] \in Memories
         /\ [m EXCEPT !.due = FALSE, !.event = Tick] \in Memories
         /\ [m EXCEPT !.due = FALSE] \in Memories
         /\ [m EXCEPT !.due = TRUE] \in Memories
         /\ [m EXCEPT !.event = Nothing, !.ok = FALSE] \in Memories
         /\ \A n \in 0..MaxAsks :
              /\ [m EXCEPT !.seen = n] \in Memories
              /\ [m EXCEPT !.seen = n, !.due = TRUE, !.digest = Nothing] \in Memories
<1>1. MaxAsks \in Nat
  BY HarnessAssumption
<1>2. NewMemory \in Memories
  BY <1>1 DEF Memories, NewMemory
<1>3. \A x \in {"none", "daily", "total"} : [m EXCEPT !.reason = x] \in Memories
  BY DEF Memories
<1>4. \A e \in Events : [m EXCEPT !.event = e] \in Memories
  BY DEF Memories
<1>5. \A v \in Outputs : [m EXCEPT !.digest = v, !.event = v] \in Memories
  BY DEF Memories
<1>6. \A ok \in BOOLEAN : [m EXCEPT !.ok = ok] \in Memories
  BY DEF Memories
<1>7. [m EXCEPT !.due = FALSE, !.event = Tick] \in Memories
  BY DEF Memories
<1>8. [m EXCEPT !.due = FALSE] \in Memories /\ [m EXCEPT !.due = TRUE] \in Memories
  BY DEF Memories
<1>9. [m EXCEPT !.event = Nothing, !.ok = FALSE] \in Memories
  BY DEF Memories
<1>10. ASSUME NEW n \in 0..MaxAsks
       PROVE  /\ [m EXCEPT !.seen = n] \in Memories
              /\ [m EXCEPT !.seen = n, !.due = TRUE, !.digest = Nothing] \in Memories
  <2>1. n \in -1..MaxAsks
    BY <1>1
  <2>2. [m EXCEPT !.seen = n] \in Memories
    BY <2>1 DEF Memories
  <2>3. [m EXCEPT !.seen = n, !.due = TRUE, !.digest = Nothing] \in Memories
    BY <2>1 DEF Memories
  <2> QED
    BY <2>2, <2>3
<1> QED
  BY <1>2, <1>3, <1>4, <1>5, <1>6, <1>7, <1>8, <1>9, <1>10

-----------------------------------------------------------------------------
(* Types                                                                   *)

\* TypeOK over the named sets above, conjunct by conjunct.
TypeInv ==
  /\ kind \in Kinds
  /\ state \in States
  /\ place \in [Events -> Places]
  /\ arrived \in Seq(Events)
  /\ out \in Outputs \cup {Nothing}
  /\ asked \in 0..MaxAsks
  /\ at \in [Runners -> Points]
  /\ mem \in [Runners -> Memories]
  /\ ran \in [Events -> SUBSET BOOLEAN]
  /\ late \in [Hubs -> 0..2]
  /\ tried \in Outputs \cup {Nothing}
  /\ answered \in 0..MaxAsks
  \* A loop past its first look has recorded a stamp.
  /\ \A h \in Hubs : at[h] \in {"next", "poll"} => mem[h].seen \in 0..MaxAsks

LEMMA TypeInit == Init => TypeInv
<1> SUFFICES ASSUME Init PROVE TypeInv
  OBVIOUS
<1>1. MaxFailures \in Nat /\ MaxAsks \in Nat
  BY HarnessAssumption
<1>2. NewState \in States /\ NewMemory \in Memories
  BY <1>1 DEF NewState, NewMemory, States, Memories
<1>3. /\ at \in [Runners -> Points] /\ mem \in [Runners -> Memories]
      /\ \A h \in Hubs : at[h] \notin {"next", "poll"}
  BY <1>2 DEF Init, Points, Runners
<1>4. arrived \in Seq(Events)
  BY DEF Init
<1>5. /\ place \in [Events -> Places] /\ ran \in [Events -> SUBSET BOOLEAN]
      /\ late \in [Hubs -> 0..2] /\ asked \in 0..MaxAsks /\ answered \in 0..MaxAsks
  BY <1>1 DEF Init, Places
<1> QED
  BY <1>2, <1>3, <1>4, <1>5 DEF Init, TypeInv

\* What a process does leaves every other process where it is.
LEMMA ProcessMoves ==
  ASSUME TypeInv, NEW r \in Runners, NEW p \in Points, NEW m \in Memories,
         Go(r, p), Remember(r, m) \/ UNCHANGED mem,
         p \in {"next", "poll"} => mem'[r].seen \in 0..MaxAsks
  PROVE  /\ at' \in [Runners -> Points]
         /\ mem' \in [Runners -> Memories]
         /\ \A h \in Hubs : at'[h] \in {"next", "poll"} => mem'[h].seen \in 0..MaxAsks
<1>1. at' \in [Runners -> Points]
  BY DEF Go, TypeInv
<1>2. mem' \in [Runners -> Memories]
  <2>1. mem \in [Runners -> Memories]
    BY DEF TypeInv
  <2>2. CASE Remember(r, m)
    BY <2>1, <2>2 DEF Remember
  <2>3. CASE UNCHANGED mem
    BY <2>1, <2>3
  <2> QED
    BY <2>2, <2>3
<1>3. ASSUME NEW h \in Hubs, at'[h] \in {"next", "poll"}
      PROVE  mem'[h].seen \in 0..MaxAsks
  <2>1. CASE h = r
    BY <1>3, <2>1 DEF Go, TypeInv, Runners
  <2>2. CASE h # r
    BY <1>3, <2>2 DEF Go, Remember, TypeInv, Runners
  <2> QED
    BY <2>1, <2>2
<1> QED
  BY <1>1, <1>2, <1>3


LEMMA TypeLoop ==
  ASSUME TypeInv, NEW h \in Hubs, Loop(h)
  PROVE  TypeInv'
<1>1. /\ h \in Runners /\ at[h] \in Points /\ mem[h] \in Memories /\ state \in States
      /\ place \in [Events -> Places] /\ asked \in 0..MaxAsks
  BY DEF TypeInv, Runners
<1> DEFINE Moved == /\ at' \in [Runners -> Points]
                    /\ mem' \in [Runners -> Memories]
                    /\ \A g \in Hubs : at'[g] \in {"next", "poll"} => mem'[g].seen \in 0..MaxAsks
<1>2. ASSUME NEW s \in States, Rule(h, s)
      PROVE  Moved
  <2>1. Ruling(s) \in {"look", "halt", "ready"}
    BY DEF Ruling
  <2>2. (IF Ruling(s) = "halt" THEN s.over ELSE "none") \in {"none", "daily", "total"}
    BY DEF States
  <2>3. [mem[h] EXCEPT !.reason = IF Ruling(s) = "halt" THEN s.over ELSE "none"] \in Memories
    BY <1>1, <2>2, MemoryUpdates
  <2> QED
    BY <1>1, <1>2, <2>1, <2>3, ProcessMoves DEF Rule, Points
<1>3. ASSUME NEW p \in Points, Go(h, p), UNCHANGED mem, p \notin {"next", "poll"}
      PROVE  Moved
  BY <1>1, <1>3, ProcessMoves
<1>4. ASSUME NEW p \in Points, NEW m \in Memories, Go(h, p), Remember(h, m),
             p \in {"next", "poll"} => m.seen \in 0..MaxAsks
      PROVE  Moved
  <2>1. mem'[h] = m
    BY <1>1, <1>4 DEF Remember, TypeInv
  <2> QED
    BY <1>1, <1>4, <2>1, ProcessMoves
<1> HIDE DEF Moved
<1>5. ASSUME Moved, state' \in States, place' \in [Events -> Places], ran' \in [Events -> SUBSET BOOLEAN],
             late' \in [Hubs -> 0..2], tried' \in Outputs \cup {Nothing}, answered' \in 0..MaxAsks,
             UNCHANGED <<kind, arrived, out, asked>>
      PROVE  TypeInv'
  BY <1>5 DEF TypeInv, Moved
<1>6. CASE Requeue(h)
  <2>1. place' \in [Events -> Places]
    BY <1>1, <1>6 DEF Requeue, Refile, Places
  <2>2. Moved
    BY <1>3, <1>6 DEF Requeue, Points
  <2> QED
    BY <1>5, <1>6, <2>1, <2>2 DEF Requeue, TypeInv, ghost
<1>7. CASE Look(h)
  <2>1. CASE state.marker = "stale"
    BY <1>1, <1>3, <1>5, <1>7, <2>1 DEF Look, Points, TypeInv, disk, ghost
  <2>2. CASE state.marker # "stale"
    BY <1>1, <1>2, <1>5, <1>7, <2>2 DEF Look, TypeInv, disk, ghost
  <2> QED
    BY <2>1, <2>2
<1>8. CASE Reclaim(h)
  <2>1. state' \in States
    BY <1>1, <1>8, StateUpdates DEF Reclaim
  <2>2. Moved
    BY <1>2, <1>8, <2>1 DEF Reclaim
  <2> QED
    BY <1>5, <1>8, <2>1, <2>2 DEF Reclaim, TypeInv, ghost
<1>9. CASE Halt(h)
  <2>1. mem[h].reason \in {"none", "daily", "total"}
    BY <1>1 DEF Memories
  <2>2. state' \in States
    BY <1>1, <1>9, <2>1 DEF Halt, States
  <2>3. Moved
    BY <1>3, <1>9 DEF Halt, Points
  <2> QED
    BY <1>5, <1>9, <2>2, <2>3 DEF Halt, TypeInv, ghost
<1>10. CASE Listen(h)
  <2> DEFINE m == IF Woken(h)
                  THEN [mem[h] EXCEPT !.seen = asked, !.due = TRUE, !.digest = Nothing]
                  ELSE [mem[h] EXCEPT !.seen = asked]
  <2>1. m \in Memories /\ m.seen = asked
    <3>1. mem[h] \in Memories /\ asked \in 0..MaxAsks
      BY <1>1
    <3>2. /\ [mem[h] EXCEPT !.seen = asked] \in Memories
          /\ [mem[h] EXCEPT !.seen = asked, !.due = TRUE, !.digest = Nothing] \in Memories
      BY <3>1, MemoryUpdates
    <3>3. [mem[h] EXCEPT !.seen = asked].seen = asked
      BY <3>1 DEF Memories
    <3>4. [mem[h] EXCEPT !.seen = asked, !.due = TRUE, !.digest = Nothing].seen = asked
      BY <3>1 DEF Memories
    <3> QED
      BY <3>2, <3>3, <3>4
  <2>2. Go(h, "next") /\ Remember(h, m)
    BY <1>10 DEF Listen
  <2> HIDE DEF m
  <2>3. Moved
    BY <1>1, <1>4, <2>1, <2>2 DEF Points
  <2> QED
    BY <1>5, <1>10, <2>3 DEF Listen, TypeInv, disk, ghost
<1>11. CASE Take(h)
  <2>1. PICK e \in Events : /\ place' = [place EXCEPT ![e] = "processing"]
                            /\ Remember(h, [mem[h] EXCEPT !.event = e])
    BY <1>11 DEF Take
  <2>2. Go(h, "taken") /\ UNCHANGED <<kind, state, arrived, asked, out, ran, late, tried, answered>>
    BY <1>11 DEF Take, ghost
  <2>3. place' \in [Events -> Places]
    BY <1>1, <2>1 DEF Places
  <2>4. [mem[h] EXCEPT !.event = e] \in Memories
    BY <1>1, MemoryUpdates
  <2>5. Moved
    BY <1>4, <2>1, <2>2, <2>4 DEF Points
  <2> QED
    BY <1>5, <2>2, <2>3, <2>5 DEF TypeInv
<1>12. CASE NothingDue(h)
  BY <1>3, <1>5, <1>12 DEF NothingDue, Points, TypeInv, disk, ghost
<1>13. CASE IntervalFires(h)
  <2>1. [mem[h] EXCEPT !.due = FALSE, !.event = Tick] \in Memories
    BY <1>1, MemoryUpdates
  <2>2. Moved
    BY <1>4, <1>13, <2>1 DEF IntervalFires, Points
  <2> QED
    BY <1>5, <1>13, <2>2 DEF IntervalFires, TypeInv, disk, ghost
<1>14. CASE PollStarts(h)
  <2>1. [mem[h] EXCEPT !.due = FALSE] \in Memories /\ [mem[h] EXCEPT !.due = FALSE].seen = mem[h].seen
    <3>1. mem[h] \in Memories
      BY <1>1
    <3>2. [mem[h] EXCEPT !.due = FALSE] \in Memories
      BY <3>1, MemoryUpdates
    <3>3. [mem[h] EXCEPT !.due = FALSE].seen = mem[h].seen
      BY <3>1 DEF Memories
    <3> QED
      BY <3>2, <3>3
  <2>2. mem[h].seen \in 0..MaxAsks
    BY <1>14 DEF PollStarts, TypeInv
  <2>3. Moved
    BY <1>4, <1>14, <2>1, <2>2 DEF PollStarts, Points
  <2> QED
    BY <1>5, <1>14, <2>3 DEF PollStarts, TypeInv, disk, ghost
<1>15. CASE PollAnswers(h)
  <2>1. mem[h].seen \in 0..MaxAsks
    BY <1>15 DEF PollAnswers, TypeInv
  <2>2. answered' \in 0..MaxAsks
    BY <1>15, <2>1 DEF PollAnswers, TypeInv
  <2>3. Moved
    <3>1. CASE out = Nothing \/ out = mem[h].digest
      BY <1>3, <1>15, <3>1 DEF PollAnswers, Points
    <3>2. CASE ~(out = Nothing \/ out = mem[h].digest)
      <4>1. out \in Outputs
        BY <3>2 DEF TypeInv
      <4>2. [mem[h] EXCEPT !.digest = out, !.event = out] \in Memories
        BY <1>1, <4>1, MemoryUpdates
      <4> QED
        BY <1>4, <1>15, <3>2, <4>2 DEF PollAnswers, Points
    <3> QED
      BY <3>1, <3>2
  <2> QED
    BY <1>5, <1>15, <2>2, <2>3 DEF PollAnswers, TypeInv, disk
<1>16. CASE TickStarts(h)
  <2>1. state' \in States
    BY <1>1, <1>16, StateUpdates DEF TickStarts
  <2>2. late' \in [Hubs -> 0..2]
    BY <1>16 DEF TickStarts, TypeInv
  <2>3. tried' \in Outputs \cup {Nothing}
    BY <1>16 DEF TickStarts, TypeInv
  <2>4. Moved
    BY <1>3, <1>16 DEF TickStarts, Points
  <2> QED
    BY <1>5, <1>16, <2>1, <2>2, <2>3, <2>4 DEF TickStarts, TypeInv
<1>17. CASE TickEnds(h)
  <2>1. PICK ok \in BOOLEAN, used \in Budgets \cup {"none"} :
          /\ state' = Recorded(state, ok, used)
          /\ Remember(h, [mem[h] EXCEPT !.ok = ok])
          /\ Judge(mem[h].event, ok)
          /\ Go(h, "ack")
          /\ UNCHANGED <<kind, place, arrived, asked, out, late, tried, answered>>
    BY <1>17 DEF TickEnds
  <2>2. state' \in States
    BY <1>1, <2>1, StateUpdates
  <2>3. ran' \in [Events -> SUBSET BOOLEAN]
    BY <2>1 DEF Judge, TypeInv
  <2>4. [mem[h] EXCEPT !.ok = ok] \in Memories
    BY <1>1, MemoryUpdates
  <2>5. Moved
    BY <1>4, <2>1, <2>4 DEF Points
  <2> QED
    BY <1>5, <2>1, <2>2, <2>3, <2>5 DEF TypeInv
<1>18. CASE Ack(h)
  <2>1. place' \in [Events -> Places]
    BY <1>1, <1>18 DEF Ack, Places
  <2>2. [mem[h] EXCEPT !.event = Nothing, !.ok = FALSE] \in Memories
    BY <1>1, MemoryUpdates
  <2>3. Moved
    BY <1>4, <1>18, <2>2 DEF Ack, Points
  <2> QED
    BY <1>5, <1>18, <2>1, <2>3 DEF Ack, TypeInv, ghost
<1> QED
  BY <1>6, <1>7, <1>8, <1>9, <1>10, <1>11, <1>12, <1>13, <1>14, <1>15, <1>16, <1>17, <1>18 DEF Loop

LEMMA TypeStep == TypeInv /\ [Next]_vars => TypeInv'
<1> SUFFICES ASSUME TypeInv, [Next]_vars PROVE TypeInv'
  OBVIOUS
<1>1. /\ state \in States /\ place \in [Events -> Places] /\ asked \in 0..MaxAsks
      /\ \A r \in Runners : mem[r] \in Memories
      /\ \A h \in Hubs : h \in Runners
  BY DEF TypeInv, Runners
<1> DEFINE Moved == /\ at' \in [Runners -> Points]
                    /\ mem' \in [Runners -> Memories]
                    /\ \A g \in Hubs : at'[g] \in {"next", "poll"} => mem'[g].seen \in 0..MaxAsks
<1>2. UNCHANGED <<at, mem>> => Moved
  BY DEF TypeInv
<1>3. ASSUME Moved, UNCHANGED <<kind, disk, out>>, ran' \in [Events -> SUBSET BOOLEAN],
             UNCHANGED <<late, answered>>, tried' \in Outputs \cup {Nothing}
      PROVE  TypeInv'
  BY <1>3 DEF TypeInv, disk
<1>4. ASSUME UNCHANGED <<at, mem, kind, place, arrived, asked, out>>, state' \in States,
             late' \in [Hubs -> 0..2], UNCHANGED <<ran, tried, answered>>
      PROVE  TypeInv'
  BY <1>4 DEF TypeInv
<1> HIDE DEF Moved
<1>5. ASSUME NEW h \in Hubs, Loop(h)
      PROVE  TypeInv'
  BY <1>5, TypeLoop
<1>6. ASSUME NEW h \in Hubs, HubStarts(h)
      PROVE  TypeInv'
  <2>1. Moved
    BY <1>1, <1>6, ProcessMoves DEF HubStarts, Points, Moved
  <2> QED
    BY <1>3, <1>6, <2>1 DEF HubStarts, TypeInv, ghost
<1>7. ASSUME NEW h \in Hubs, PollFails(h)
      PROVE  TypeInv'
  <2>1. Moved
    BY <1>1, <1>7, ProcessMoves DEF PollFails, Points, Moved
  <2> QED
    BY <1>3, <1>7, <2>1 DEF PollFails, TypeInv, ghost
<1>8. ASSUME NEW h \in Hubs, TickUnrecorded(h)
      PROVE  TypeInv'
  <2>1. [mem[h] EXCEPT !.ok = FALSE] \in Memories
    BY <1>1, MemoryUpdates
  <2>2. Moved
    BY <1>1, <1>8, <2>1, ProcessMoves DEF TickUnrecorded, Points, Moved
  <2>3. ran' \in [Events -> SUBSET BOOLEAN] /\ tried' \in Outputs \cup {Nothing}
    BY <1>8 DEF TickUnrecorded, Judge, TypeInv
  <2> QED
    BY <1>3, <1>8, <2>2, <2>3 DEF TickUnrecorded
<1>9. ASSUME NEW h \in Hubs, Elapses(h)
      PROVE  TypeInv'
  <2>1. [mem[h] EXCEPT !.due = TRUE] \in Memories
    BY <1>1, MemoryUpdates
  <2>2. [mem[h] EXCEPT !.due = TRUE].seen = mem[h].seen
    <3>1. mem[h] \in Memories
      BY <1>1
    <3> QED
      BY <3>1 DEF Memories
  <2>3. mem' \in [Runners -> Memories]
    BY <1>9, <2>1 DEF Elapses, Remember, TypeInv
  <2>4. ASSUME NEW g \in Hubs, at[g] \in {"next", "poll"}
        PROVE  mem'[g].seen \in 0..MaxAsks
    <3>1. mem[g].seen \in 0..MaxAsks
      BY <2>4 DEF TypeInv
    <3>2. mem'[g].seen = mem[g].seen
      BY <1>1, <1>9, <2>2 DEF Elapses, Remember, TypeInv
    <3> QED
      BY <3>1, <3>2
  <2>5. Moved
    BY <1>9, <2>3, <2>4 DEF Elapses, Moved, TypeInv
  <2> QED
    BY <1>3, <1>9, <2>5 DEF Elapses, TypeInv, ghost
<1>10. ASSUME NEW r \in Runners, Dies(r)
       PROVE  TypeInv'
  <2>1. NewMemory \in Memories
    BY <1>1, MemoryUpdates
  <2>2. Moved
    BY <1>10, <2>1, ProcessMoves DEF Dies, Points, Moved
  <2> QED
    BY <1>3, <1>10, <2>2 DEF Dies, TypeInv, ghost
<1>11. ASSUME NEW c \in Clis, Once(c) \/ OnceStarts(c) \/ OnceEnds(c)
       PROVE  TypeInv'
  <2>1. c \in Runners /\ mem[c] \in Memories
    BY <1>1 DEF Runners
  <2>2. PICK p \in {"taken", "running", "off"} : Go(c, p) /\ UNCHANGED mem
    BY <1>11 DEF Once, OnceStarts, OnceEnds
  <2>3. Moved
    BY <2>1, <2>2, ProcessMoves DEF Points, Moved
  <2>4. state' \in States
    BY <1>1, <1>11, StateUpdates DEF Once, OnceStarts, OnceEnds, disk
  <2>5. UNCHANGED <<kind, place, arrived, asked, out, ghost>>
    BY <1>11 DEF Once, OnceStarts, OnceEnds, disk
  <2> QED
    BY <2>3, <2>4, <2>5 DEF Moved, TypeInv, ghost
<1>12. ASSUME NEW e \in Events, Poke(e)
       PROVE  TypeInv'
  <2>1. place' \in [Events -> Places]
    BY <1>1, <1>12 DEF Poke, Places
  <2>2. arrived' \in Seq(Events)
    BY <1>12 DEF Poke, TypeInv
  <2> QED
    BY <1>12, <2>1, <2>2 DEF Poke, TypeInv, ghost
<1>13. CASE RunNow
  <2>1. asked' \in 0..MaxAsks
    BY <1>1, <1>13, HarnessAssumption DEF RunNow
  <2> QED
    BY <1>13, <2>1 DEF RunNow, TypeInv, ghost
<1>14. CASE Pause
  BY <1>1, <1>4, <1>14, StateUpdates DEF Pause, ghost, TypeInv
<1>15. CASE Resume
  <2>1. state' \in States
    BY <1>1, <1>15, StateUpdates DEF Resume
  <2>2. late' \in [Hubs -> 0..2]
    BY <1>15 DEF Resume, Forgiven, TypeInv
  <2> QED
    BY <1>4, <1>15, <2>1, <2>2 DEF Resume
<1>16. CASE Reset
  <2>1. state' \in States
    BY <1>1, <1>16, StateUpdates DEF Reset
  <2>2. late' \in [Hubs -> 0..2]
    BY <1>16 DEF Reset, Forgiven, TypeInv
  <2> QED
    BY <1>4, <1>16, <2>1, <2>2 DEF Reset
<1>17. CASE DayRolls
  <2>1. state' \in States
    BY <1>1, <1>17, StateUpdates DEF DayRolls
  <2>2. late' \in [Hubs -> 0..2]
    BY <1>17 DEF DayRolls, Forgiven, TypeInv
  <2> QED
    BY <1>4, <1>17, <2>1, <2>2 DEF DayRolls
<1>18. CASE OutputChanges
  BY <1>18 DEF OutputChanges, TypeInv, disk, ghost
<1>19. CASE MarkerAges
  BY <1>1, <1>4, <1>19, StateUpdates DEF MarkerAges, ghost, TypeInv
<1>20. CASE UNCHANGED vars
  BY <1>20 DEF vars, disk, ghost, TypeInv
<1> QED
  BY <1>5, <1>6, <1>7, <1>8, <1>9, <1>10, <1>11, <1>12, <1>13, <1>14, <1>15, <1>16, <1>17,
     <1>18, <1>19, <1>20 DEF Next, World

\* Every variable keeps its type, whatever the hubs, the CLI and the user do.
THEOREM TypeCorrect == Spec => []TypeOK
<1>1. TypeInv => TypeOK
  BY DEF TypeInv, TypeOK, States, Places, Points, Memories
<1> QED
  BY <1>1, TypeInit, TypeStep, PTL DEF Spec

-----------------------------------------------------------------------------
(* Filing                                                                  *)

\* A loop about to file an event holds a verdict that was given on it.
FiledInv ==
  /\ TypeInv
  /\ FiledAsRun
  /\ \A h \in Hubs :
       at[h] = "ack" /\ mem[h].event \in Events => mem[h].ok \in ran[mem[h].event]

LEMMA FiledKept ==
  ASSUME FiledInv, TypeInv',
         \A e \in Events : place'[e] \in {"done", "failed"} => place'[e] = place[e],
         \A e \in Events : ran[e] \subseteq ran'[e],
         \A h \in Hubs : at'[h] = "ack" =>
           at[h] = "ack" /\ mem'[h].event = mem[h].event /\ mem'[h].ok = mem[h].ok
  PROVE  FiledInv'
<1>1. FiledAsRun'
  BY DEF FiledInv, FiledAsRun
<1>2. ASSUME NEW h \in Hubs, at'[h] = "ack", mem'[h].event \in Events
      PROVE  mem'[h].ok \in ran'[mem'[h].event]
  BY <1>2 DEF FiledInv
<1> QED
  BY <1>1, <1>2 DEF FiledInv

\* A step of one process that neither files nor judges.
LEMMA FiledElsewhere ==
  ASSUME FiledInv, TypeInv', NEW r \in Runners, NEW p \in Points, Go(r, p), p # "ack",
         UNCHANGED ran, \A e \in Events : place'[e] \in {"done", "failed"} => place'[e] = place[e],
         \A g \in Runners : g # r => mem'[g] = mem[g]
  PROVE  FiledInv'
<1>1. ASSUME NEW h \in Hubs, at'[h] = "ack"
      PROVE  h # r /\ at[h] = "ack" /\ mem'[h] = mem[h]
  BY <1>1 DEF FiledInv, TypeInv, Go, Runners
<1> QED
  BY <1>1, FiledKept

LEMMA RememberOnly ==
  ASSUME TypeInv, NEW r \in Runners, NEW m, Remember(r, m) \/ UNCHANGED mem
  PROVE  \A g \in Runners : g # r => mem'[g] = mem[g]
BY DEF Remember, TypeInv

LEMMA FiledJudged ==
  ASSUME FiledInv, TypeInv', NEW h \in Hubs, NEW ok \in BOOLEAN,
         Remember(h, [mem[h] EXCEPT !.ok = ok]), Judge(mem[h].event, ok), Go(h, "ack"), UNCHANGED place
  PROVE  FiledInv'
<1>1. h \in Runners /\ mem[h] \in Memories /\ ran \in [Events -> SUBSET BOOLEAN]
  BY DEF FiledInv, TypeInv, Runners
<1>2. \A e \in Events : ran[e] \subseteq ran'[e]
  BY <1>1 DEF Judge
<1>3. FiledAsRun'
  BY <1>2 DEF FiledInv, FiledAsRun
<1>4. mem'[h].ok = ok /\ mem'[h].event = mem[h].event
  <2>1. mem'[h] = [mem[h] EXCEPT !.ok = ok]
    BY <1>1 DEF FiledInv, TypeInv, Remember
  <2> QED
    BY <1>1, <2>1 DEF Memories
<1>5. ASSUME NEW g \in Hubs, at'[g] = "ack", mem'[g].event \in Events
      PROVE  mem'[g].ok \in ran'[mem'[g].event]
  <2>1. CASE g = h
    BY <1>1, <1>4, <1>5, <2>1 DEF Judge
  <2>2. CASE g # h
    <3>1. at[g] = "ack" /\ mem'[g] = mem[g]
      BY <1>5, <2>2 DEF FiledInv, TypeInv, Go, Remember, Runners
    <3> QED
      BY <1>2, <1>5, <3>1 DEF FiledInv
  <2> QED
    BY <2>1, <2>2
<1> QED
  BY <1>3, <1>5 DEF FiledInv

LEMMA FiledAck ==
  ASSUME FiledInv, TypeInv', NEW h \in Hubs, Ack(h)
  PROVE  FiledInv'
<1>1. h \in Runners /\ mem[h] \in Memories /\ place \in [Events -> Places] /\ at[h] = "ack"
  BY DEF FiledInv, TypeInv, Ack, Runners
<1>2. UNCHANGED ran
  BY DEF Ack, ghost
<1>3. ASSUME NEW e \in Events
      PROVE  /\ place'[e] = "done" => TRUE \in ran[e]
             /\ place'[e] = "failed" => FALSE \in ran[e]
  <2>1. CASE mem[h].event = e /\ place[e] = "processing"
    <3>1. place'[e] = IF mem[h].ok THEN "done" ELSE "failed"
      BY <1>1, <2>1 DEF Ack
    <3>2. mem[h].ok \in ran[e] /\ mem[h].ok \in BOOLEAN
      BY <1>1, <2>1 DEF FiledInv, Memories
    <3>3. CASE mem[h].ok = TRUE
      BY <3>1, <3>2, <3>3
    <3>4. CASE mem[h].ok = FALSE
      BY <3>1, <3>2, <3>4
    <3> QED
      BY <3>2, <3>3, <3>4
  <2>2. CASE ~(mem[h].event = e /\ place[e] = "processing")
    <3>1. place'[e] = place[e]
      BY <1>1, <2>2 DEF Ack
    <3> QED
      BY <3>1 DEF FiledInv, FiledAsRun
  <2> QED
    BY <2>1, <2>2
<1>4. ASSUME NEW g \in Hubs, at'[g] = "ack"
      PROVE  at[g] = "ack" /\ mem'[g] = mem[g]
  BY <1>4 DEF FiledInv, TypeInv, Ack, Go, Remember, Runners
<1> QED
  BY <1>2, <1>3, <1>4 DEF FiledInv, FiledAsRun

LEMMA FiledStep == FiledInv /\ [Next]_vars => FiledInv'
<1> SUFFICES ASSUME FiledInv, [Next]_vars PROVE FiledInv'
  OBVIOUS
<1>1. TypeInv /\ TypeInv' /\ place \in [Events -> Places]
  BY TypeStep DEF FiledInv, TypeInv
<1>2. \A h \in Hubs : h \in Runners
  BY DEF Runners
<1>3. ASSUME UNCHANGED <<at, mem, ran>>,
             \A e \in Events : place'[e] \in {"done", "failed"} => place'[e] = place[e]
      PROVE  FiledInv'
  BY <1>1, <1>3, FiledKept
<1>4. ASSUME NEW h \in Hubs, Requeue(h)
      PROVE  FiledInv'
  <2>1. \A e \in Events : place'[e] \in {"done", "failed"} => place'[e] = place[e]
    BY <1>1, <1>4 DEF Requeue, Refile
  <2> QED
    BY <1>1, <1>2, <1>4, <2>1, FiledElsewhere DEF Requeue, Points, ghost
<1>5. ASSUME NEW h \in Hubs, Take(h)
      PROVE  FiledInv'
  <2>1. PICK e \in Events : /\ place' = [place EXCEPT ![e] = "processing"]
                            /\ Remember(h, [mem[h] EXCEPT !.event = e])
    BY <1>5 DEF Take
  <2>2. Go(h, "taken") /\ UNCHANGED ran
    BY <1>5 DEF Take, ghost
  <2>3. \A f \in Events : place'[f] \in {"done", "failed"} => place'[f] = place[f]
    BY <1>1, <2>1
  <2>4. \A g \in Runners : g # h => mem'[g] = mem[g]
    BY <1>1, <1>2, <2>1, RememberOnly
  <2> QED
    BY <1>1, <1>2, <2>2, <2>3, <2>4, FiledElsewhere DEF Points
<1>6. ASSUME NEW h \in Hubs, Look(h) \/ Reclaim(h)
      PROVE  FiledInv'
  <2>1. PICK p \in {"look", "halt", "ready", "reclaim"} : Go(h, p)
    BY <1>6 DEF Look, Reclaim, Rule, Ruling
  <2>2. \A g \in Runners : g # h => mem'[g] = mem[g]
    BY <1>1, <1>2, <1>6, RememberOnly DEF Look, Reclaim, Rule
  <2>3. UNCHANGED <<place, ran>>
    BY <1>6 DEF Look, Reclaim, disk, ghost
  <2> QED
    BY <1>1, <1>2, <2>1, <2>2, <2>3, FiledElsewhere DEF Points
<1>7. ASSUME NEW h \in Hubs,
             \/ Halt(h) \/ Listen(h) \/ NothingDue(h) \/ IntervalFires(h) \/ PollStarts(h)
             \/ PollAnswers(h) \/ TickStarts(h) \/ HubStarts(h) \/ PollFails(h)
      PROVE  FiledInv'
  <2>1. PICK p \in {"look", "next", "taken", "poll", "running", "start"} : Go(h, p)
    BY <1>7 DEF Halt, Listen, NothingDue, IntervalFires, PollStarts, PollAnswers, TickStarts,
                HubStarts, PollFails
  <2>2. \A g \in Runners : g # h => mem'[g] = mem[g]
    BY <1>1, <1>2, <1>7, RememberOnly
       DEF Halt, Listen, NothingDue, IntervalFires, PollStarts, PollAnswers, TickStarts,
           HubStarts, PollFails
  <2>3. UNCHANGED <<place, ran>>
    BY <1>7 DEF Halt, Listen, NothingDue, IntervalFires, PollStarts, PollAnswers, TickStarts,
                HubStarts, PollFails, disk, ghost
  <2> QED
    BY <1>1, <1>2, <2>1, <2>2, <2>3, FiledElsewhere DEF Points
<1>8. ASSUME NEW h \in Hubs, TickEnds(h) \/ TickUnrecorded(h)
      PROVE  FiledInv'
  <2>1. PICK ok \in BOOLEAN : /\ Remember(h, [mem[h] EXCEPT !.ok = ok])
                              /\ Judge(mem[h].event, ok)
    BY <1>8 DEF TickEnds, TickUnrecorded
  <2>2. Go(h, "ack") /\ UNCHANGED place
    BY <1>8 DEF TickEnds, TickUnrecorded, disk
  <2> QED
    BY <1>1, <2>1, <2>2, FiledJudged
<1>9. ASSUME NEW h \in Hubs, Elapses(h)
      PROVE  FiledInv'
  <2>1. UNCHANGED <<at, place, ran>> /\ Remember(h, [mem[h] EXCEPT !.due = TRUE])
    BY <1>9 DEF Elapses, disk, ghost
  <2>2. ASSUME NEW g \in Hubs
        PROVE  mem'[g].event = mem[g].event /\ mem'[g].ok = mem[g].ok
    <3>1. mem[g] \in Memories
      BY <1>1, <1>2 DEF TypeInv
    <3>2. CASE g = h
      <4>1. mem'[g] = [mem[g] EXCEPT !.due = TRUE]
        BY <1>1, <1>2, <2>1, <3>2 DEF Remember, TypeInv
      <4> QED
        BY <3>1, <4>1 DEF Memories
    <3>3. CASE g # h
      BY <1>1, <1>2, <2>1, <3>3, RememberOnly
    <3> QED
      BY <3>2, <3>3
  <2> QED
    BY <1>1, <2>1, <2>2, FiledKept
<1>10. ASSUME NEW r \in Runners, Dies(r)
       PROVE  FiledInv'
  <2>1. \A g \in Runners : g # r => mem'[g] = mem[g]
    BY <1>1, <1>10, RememberOnly DEF Dies
  <2> QED
    BY <1>1, <1>10, <2>1, FiledElsewhere DEF Dies, Points, disk, ghost
<1>11. ASSUME NEW c \in Clis, Once(c) \/ OnceStarts(c) \/ OnceEnds(c)
       PROVE  FiledInv'
  <2>1. c \in Runners
    BY DEF Runners
  <2>2. PICK p \in {"taken", "running", "off"} : Go(c, p)
    BY <1>11 DEF Once, OnceStarts, OnceEnds
  <2>3. UNCHANGED <<mem, place, ran>>
    BY <1>11 DEF Once, OnceStarts, OnceEnds, disk, ghost
  <2> QED
    BY <1>1, <2>1, <2>2, <2>3, FiledElsewhere DEF Points
<1>12. ASSUME NEW e \in Events, Poke(e)
       PROVE  FiledInv'
  BY <1>1, <1>3, <1>12 DEF Poke, ghost
<1>13. CASE RunNow \/ Pause \/ Resume \/ Reset \/ DayRolls \/ OutputChanges \/ MarkerAges
  BY <1>3, <1>13 DEF RunNow, Pause, Resume, Reset, DayRolls, OutputChanges, MarkerAges, disk, ghost
<1>14. CASE UNCHANGED vars
  BY <1>3, <1>14 DEF vars, disk, ghost
<1>15. ASSUME NEW h \in Hubs, Ack(h)
       PROVE  FiledInv'
  BY <1>1, <1>15, FiledAck
<1> QED
  BY <1>4, <1>5, <1>6, <1>7, <1>8, <1>9, <1>10, <1>11, <1>12, <1>13, <1>14, <1>15
     DEF Next, World, Loop

\* However many hubs put an event back and take it again, done/ and failed/
\* never contradict what its runs said.
THEOREM FiledByVerdict == Spec => []FiledAsRun
<1>1. Init => FiledInv
  <2> SUFFICES ASSUME Init PROVE FiledInv
    OBVIOUS
  <2>1. TypeInv
    BY TypeInit
  <2> QED
    BY <2>1 DEF Init, FiledInv, FiledAsRun, Runners
<1>2. FiledInv => FiledAsRun
  BY DEF FiledInv
<1> QED
  BY <1>1, <1>2, FiledStep, PTL DEF Spec

-----------------------------------------------------------------------------
(* Late ticks                                                              *)

\* Where a loop is between the state it decided on and its tick.
Decided == {"ready", "next", "poll", "taken"}

\* A loop that has had its late tick looks again before the next one, and
\* finds the agent still refused.
LateInv ==
  /\ TypeInv
  /\ \A h \in Hubs : late[h] = 0 \/ (late[h] = 1 /\ Refused(state) /\ at[h] \notin Decided)

LEMMA LateKept ==
  ASSUME LateInv, TypeInv',
         \A h \in Hubs : late'[h] = 0 \/ (late'[h] = late[h] /\ (Refused(state) => Refused(state'))),
         \A h \in Hubs : at'[h] \in Decided => at[h] \in Decided \/ ~Refused(state) \/ late'[h] = 0
  PROVE  LateInv'
BY DEF LateInv

LEMMA LateStep == LateInv /\ [Next]_vars => LateInv'
<1> SUFFICES ASSUME LateInv, [Next]_vars PROVE LateInv'
  OBVIOUS
<1>1. TypeInv /\ TypeInv' /\ state \in States /\ late \in [Hubs -> 0..2]
  BY TypeStep DEF LateInv, TypeInv
<1>2. \A h \in Hubs : h \in Runners
  BY DEF Runners
<1>3. ASSUME UNCHANGED late, Refused(state) => Refused(state'),
             NEW r \in Runners, NEW p \in Points, Go(r, p),
             p \in Decided => at[r] \in Decided \/ ~Refused(state)
      PROVE  LateInv'
  <2>1. \A h \in Hubs : at'[h] \in Decided => at[h] \in Decided \/ ~Refused(state)
    BY <1>1, <1>2, <1>3 DEF Go, TypeInv
  <2> QED
    BY <1>1, <1>3, <2>1, LateKept
<1>4. ASSUME UNCHANGED <<late, at>>, Refused(state) => Refused(state')
      PROVE  LateInv'
  BY <1>1, <1>4, LateKept
<1>5. ASSUME UNCHANGED at, late' = Forgiven(state')
      PROVE  LateInv'
  <2>1. CASE Refused(state')
    BY <1>1, <1>4, <1>5, <2>1 DEF Forgiven
  <2>2. CASE ~Refused(state')
    <3>1. \A h \in Hubs : late'[h] = 0
      BY <1>5, <2>2 DEF Forgiven
    <3> QED
      BY <1>1, <3>1 DEF LateInv
  <2> QED
    BY <2>1, <2>2
<1>6. ASSUME NEW h \in Hubs, NEW s, Rule(h, s), UNCHANGED late,
             Refused(s) <=> Refused(state), Refused(state) => Refused(state')
      PROVE  LateInv'
  <2>1. Ruling(s) = "ready" => ~Refused(state)
    BY <1>6 DEF Ruling, Refused
  <2>2. Ruling(s) \in {"look", "halt", "ready"} /\ Go(h, Ruling(s))
    BY <1>6 DEF Ruling, Rule
  <2> QED
    BY <1>2, <1>3, <1>6, <2>1, <2>2 DEF Points, Decided
<1>7. ASSUME NEW h \in Hubs, Look(h)
      PROVE  LateInv'
  <2>1. UNCHANGED <<late, state>>
    BY <1>7 DEF Look, disk, ghost
  <2>2. CASE Go(h, "reclaim")
    BY <1>2, <1>3, <2>1, <2>2 DEF Points, Decided, Refused
  <2>3. CASE Rule(h, state)
    BY <1>6, <2>1, <2>3
  <2> QED
    BY <1>7, <2>2, <2>3 DEF Look
<1>8. ASSUME NEW h \in Hubs, Reclaim(h)
      PROVE  LateInv'
  <2>1. Refused(state') <=> Refused(state)
    BY <1>1, <1>8 DEF Reclaim, Refused, States
  <2>2. UNCHANGED late /\ Rule(h, state')
    BY <1>8 DEF Reclaim, ghost
  <2> QED
    BY <1>6, <2>1, <2>2
<1>9. ASSUME NEW h \in Hubs, Halt(h)
      PROVE  LateInv'
  <2>1. Refused(state) => Refused(state')
    BY <1>1, <1>9 DEF Halt, Refused, States
  <2>2. UNCHANGED late /\ Go(h, "look")
    BY <1>9 DEF Halt, ghost
  <2> QED
    BY <1>2, <1>3, <2>1, <2>2 DEF Points, Decided
<1>10. ASSUME NEW h \in Hubs,
              \/ Requeue(h) \/ Listen(h) \/ Take(h) \/ NothingDue(h) \/ IntervalFires(h)
              \/ PollStarts(h) \/ PollAnswers(h) \/ Ack(h) \/ HubStarts(h) \/ PollFails(h)
              \/ TickUnrecorded(h)
       PROVE  LateInv'
  <2>1. UNCHANGED <<state, late>>
    BY <1>10 DEF Requeue, Listen, Take, NothingDue, IntervalFires, PollStarts, PollAnswers, Ack,
                 HubStarts, PollFails, TickUnrecorded, disk, ghost
  <2>2. PICK p \in Points : Go(h, p) /\ (p \in Decided => at[h] \in Decided)
    <3>1. CASE Listen(h) \/ PollStarts(h) \/ IntervalFires(h)
      BY <3>1 DEF Listen, PollStarts, IntervalFires, Points, Decided
    <3>2. CASE Take(h) \/ NothingDue(h)
      BY <3>2 DEF Take, NothingDue, Points, Decided
    <3>3. CASE PollAnswers(h)
      BY <3>3 DEF PollAnswers, Points, Decided
    <3>4. CASE Requeue(h) \/ Ack(h) \/ HubStarts(h) \/ PollFails(h) \/ TickUnrecorded(h)
      BY <3>4 DEF Requeue, Ack, HubStarts, PollFails, TickUnrecorded, Points, Decided
    <3> QED
      BY <1>10, <3>1, <3>2, <3>3, <3>4
  <2>3. Refused(state) => Refused(state')
    BY <2>1 DEF Refused
  <2> QED
    BY <1>2, <1>3, <2>1, <2>2, <2>3
<1>11. ASSUME NEW h \in Hubs, TickStarts(h)
       PROVE  LateInv'
  <2>1. Refused(state') <=> Refused(state)
    BY <1>1, <1>11 DEF TickStarts, Marked, Refused, States
  <2>2. late[h] = 0
    BY <1>11 DEF TickStarts, LateInv, Decided
  <2>3. late'[h] = IF Refused(state) THEN 1 ELSE 0
    BY <1>1, <1>11, <2>2 DEF TickStarts
  <2>4. at'[h] = "running"
    BY <1>1, <1>2, <1>11 DEF TickStarts, Go, TypeInv
  <2>5. \A g \in Hubs : g # h => late'[g] = late[g] /\ at'[g] = at[g]
    BY <1>1, <1>2, <1>11 DEF TickStarts, Go, TypeInv
  <2> QED
    BY <1>1, <2>1, <2>3, <2>4, <2>5 DEF LateInv, Decided
<1>12. ASSUME NEW ok \in BOOLEAN, NEW used \in Budgets \cup {"none"}, state' = Recorded(state, ok, used)
       PROVE  Refused(state) => Refused(state')
  <2>1. state'.paused = state.paused
    BY <1>1, <1>12 DEF Recorded, States
  <2>2. state.stopped # "none" => state'.stopped # "none"
    BY <1>1, <1>12 DEF Recorded, States
  <2>3. state'.over = Spent(state, used)
    BY <1>1, <1>12 DEF Recorded, States
  <2>4. state.over # "none" => Spent(state, used) # "none"
    BY <1>1 DEF Spent, States
  <2> QED
    BY <2>1, <2>2, <2>3, <2>4 DEF Refused
<1>13. ASSUME NEW h \in Hubs, TickEnds(h)
       PROVE  LateInv'
  <2>1. Refused(state) => Refused(state')
    BY <1>12, <1>13 DEF TickEnds
  <2>2. UNCHANGED late /\ Go(h, "ack")
    BY <1>13 DEF TickEnds
  <2> QED
    BY <1>2, <1>3, <2>1, <2>2 DEF Points, Decided
<1>14. ASSUME NEW h \in Hubs, Elapses(h)
       PROVE  LateInv'
  BY <1>4, <1>14 DEF Elapses, disk, ghost, Refused
<1>15. ASSUME NEW r \in Runners, Dies(r)
       PROVE  LateInv'
  BY <1>3, <1>15 DEF Dies, disk, ghost, Points, Decided, Refused
<1>16. ASSUME NEW c \in Clis, Once(c) \/ OnceStarts(c) \/ OnceEnds(c)
       PROVE  LateInv'
  <2>1. Refused(state) => Refused(state')
    <3>1. CASE Once(c)
      BY <3>1 DEF Once, disk, Refused
    <3>2. CASE OnceStarts(c)
      BY <1>1, <3>2 DEF OnceStarts, Marked, Refused, States
    <3>3. CASE OnceEnds(c)
      BY <1>12, <3>3 DEF OnceEnds
    <3> QED
      BY <1>16, <3>1, <3>2, <3>3
  <2>2. UNCHANGED late /\ \E p \in Points : Go(c, p)
    BY <1>16 DEF Once, OnceStarts, OnceEnds, ghost, Points
  <2>3. \A h \in Hubs : h # c
    BY HarnessAssumption
  <2>4. \A h \in Hubs : at'[h] = at[h]
    BY <1>1, <1>2, <2>2, <2>3 DEF Go, TypeInv
  <2> QED
    BY <1>1, <2>1, <2>2, <2>4, LateKept
<1>17. CASE Resume \/ Reset \/ DayRolls
  BY <1>5, <1>17 DEF Resume, Reset, DayRolls
<1>18. CASE Pause
  BY <1>1, <1>4, <1>18 DEF Pause, ghost, Refused, States
<1>19. CASE MarkerAges
  BY <1>1, <1>4, <1>19 DEF MarkerAges, ghost, Refused, States
<1>20. ASSUME NEW e \in Events, Poke(e)
       PROVE  LateInv'
  BY <1>4, <1>20 DEF Poke, ghost, Refused
<1>21. CASE RunNow \/ OutputChanges \/ UNCHANGED vars
  BY <1>4, <1>21 DEF RunNow, OutputChanges, vars, disk, ghost, Refused
<1> QED
  BY <1>7, <1>8, <1>9, <1>10, <1>11, <1>13, <1>14, <1>15, <1>16, <1>17, <1>18, <1>19, <1>20, <1>21
     DEF Next, World, Loop

\* Whatever a loop has read before, a paused, halted or overspent agent runs
\* at most once more in it.
THEOREM AtMostOneLateTick == Spec => []OneLateTick
<1>1. Init => LateInv
  <2> SUFFICES ASSUME Init PROVE LateInv
    OBVIOUS
  <2>1. TypeInv
    BY TypeInit
  <2> QED
    BY <2>1 DEF Init, LateInv
<1>2. LateInv => OneLateTick
  BY DEF LateInv, OneLateTick
<1> QED
  BY <1>1, <1>2, LateStep, PTL DEF Spec

-----------------------------------------------------------------------------
(* One hub handles events in the order in which they came.                 *)

\* Of what has arrived nothing is nowhere, and nothing arrived twice.
Queued(pl, q) ==
  /\ \A i \in DOMAIN q : pl[q[i]] # "none"
  /\ \A i, j \in DOMAIN q : i < j =>
       q[i] # q[j] /\ (pl[q[j]] # "inbox" => pl[q[i]] \in {"done", "failed"})

\* What is in processing/ is what the loop has in hand, or what it will put back
\* when it starts.
InHand(h) ==
  at[h] \notin {"off", "start"} =>
    \A e \in Events : place[e] = "processing" =>
      at[h] \in {"taken", "running", "ack"} /\ mem[h].event = e

OrderInv == TypeInv /\ Queued(place, arrived) /\ \A h \in Hubs : InHand(h)

\* Nothing is filed, and what the loop had in hand it keeps or had not.
LEMMA OrderKept ==
  ASSUME NEW h, Hubs = {h}, OrderInv, TypeInv', UNCHANGED <<place, arrived>>,
         \/ at'[h] \in {"off", "start"}
         \/ at[h] \in {"look", "reclaim", "halt", "ready", "next", "poll"}
         \/ at'[h] = at[h] /\ mem'[h].event = mem[h].event
         \/ /\ at[h] \in {"taken", "running"} /\ at'[h] \in {"running", "ack"}
            /\ mem'[h].event = mem[h].event
  PROVE  OrderInv'
<1>1. Queued(place', arrived')
  BY DEF OrderInv
<1>2. InHand(h)'
  BY DEF OrderInv, InHand
<1> QED
  BY <1>1, <1>2 DEF OrderInv

LEMMA OrderFiled ==
  ASSUME NEW h, Hubs = {h}, OrderInv, TypeInv', Requeue(h) \/ Take(h) \/ Ack(h)
  PROVE  OrderInv'
<1>1. /\ h \in Hubs /\ h \in Runners /\ at \in [Runners -> Points] /\ mem \in [Runners -> Memories]
      /\ place \in [Events -> Places] /\ DOMAIN arrived = 1..Len(arrived) /\ Len(arrived) \in Nat
      /\ \A i \in DOMAIN arrived : arrived[i] \in Events
      /\ Queued(place, arrived) /\ InHand(h)
  BY DEF OrderInv, TypeInv, Runners
<1>2. arrived' = arrived
  BY DEF Requeue, Take, Ack
<1>3. CASE Requeue(h)
  <2>1. \A e \in Events : place'[e] = IF place[e] = "processing" THEN "inbox" ELSE place[e]
    BY <1>3 DEF Requeue, Refile
  <2>2. Queued(place', arrived')
    BY <1>1, <1>2, <2>1 DEF Queued
  <2>3. InHand(h)'
    BY <2>1 DEF InHand
  <2> QED
    BY <2>2, <2>3 DEF OrderInv
<1>4. CASE Take(h)
  <2>1. PICK e \in Events : /\ at[h] = "next" /\ Oldest(e)
                            /\ place' = [place EXCEPT ![e] = "processing"]
                            /\ Remember(h, [mem[h] EXCEPT !.event = e])
                            /\ Go(h, "taken")
    BY <1>4 DEF Take
  <2>2. \A f \in Events : place[f] # "processing"
    BY <1>1, <2>1 DEF InHand
  <2>3. /\ place'[e] = "processing" /\ \A f \in Events : f # e => place'[f] = place[f]
        /\ place[e] = "inbox"
    BY <1>1, <2>1 DEF Oldest, Pending
  \* Whatever came before the oldest that waits was filed.
  <2>4. ASSUME NEW i \in DOMAIN arrived, NEW j \in DOMAIN arrived, i < j
        PROVE  /\ arrived[i] # arrived[j]
               /\ place'[arrived[j]] # "inbox" => place'[arrived[i]] \in {"done", "failed"}
    <3>1. arrived[i] # arrived[j] /\ arrived[i] \in Events /\ arrived[j] \in Events
      BY <1>1, <2>4 DEF Queued
    <3>2. CASE arrived[j] = e
      <4>1. arrived[i] \notin Pending
        BY <1>1, <2>1, <2>4, <3>2 DEF Oldest
      <4>2. place[arrived[i]] \in Places \ {"inbox", "processing", "none"}
        BY <1>1, <2>2, <3>1, <4>1 DEF Pending, Queued
      <4> QED
        BY <2>3, <3>1, <3>2, <4>2 DEF Places
    <3>3. CASE arrived[j] # e
      <4>1. place[arrived[j]] # "inbox" => place[arrived[i]] \in {"done", "failed"}
        BY <1>1, <2>4 DEF Queued
      <4> QED
        BY <2>3, <3>1, <3>3, <4>1
    <3> QED
      BY <3>2, <3>3
  <2>5. Queued(place', arrived')
    BY <1>1, <1>2, <2>3, <2>4 DEF Queued
  <2>6. at'[h] = "taken" /\ mem'[h].event = e
    BY <1>1, <2>1 DEF Go, Remember, Memories
  <2>7. InHand(h)'
    BY <2>2, <2>3, <2>6 DEF InHand
  <2> QED
    BY <2>5, <2>7 DEF OrderInv
<1>5. CASE Ack(h)
  <2>1. at[h] = "ack" /\ at'[h] = "look"
    BY <1>1, <1>5 DEF Ack, Go
  <2>2. \A e \in Events : IF place[e] = "processing" THEN place'[e] \in {"done", "failed"}
                                                     ELSE place'[e] = place[e]
    <3> TAKE e \in Events
    <3>1. CASE place[e] = "processing"
      <4>1. mem[h].event = e
        BY <1>1, <2>1, <3>1 DEF InHand
      <4>2. place' = [place EXCEPT ![e] = IF mem[h].ok THEN "done" ELSE "failed"]
        BY <1>5, <3>1, <4>1 DEF Ack
      <4> QED
        BY <1>1, <3>1, <4>2
    <3>2. CASE place[e] # "processing"
      <4>1. \/ place' = place
            \/ \E f \in Events, to \in {"done", "failed"} :
                 f # e /\ place' = [place EXCEPT ![f] = to]
        BY <1>5, <3>2 DEF Ack
      <4> QED
        BY <1>1, <3>2, <4>1
    <3> QED
      BY <3>1, <3>2
  <2>3. Queued(place', arrived')
    BY <1>1, <1>2, <2>2 DEF Queued
  <2>4. InHand(h)'
    BY <2>2 DEF InHand
  <2> QED
    BY <2>3, <2>4 DEF OrderInv
<1> QED
  BY <1>3, <1>4, <1>5

LEMMA OrderStep ==
  ASSUME NEW h, Hubs = {h}, OrderInv, [Next]_vars
  PROVE  OrderInv'
<1>1. /\ TypeInv' /\ h \in Hubs /\ h \in Runners
      /\ at \in [Runners -> Points] /\ mem \in [Runners -> Memories]
      /\ place \in [Events -> Places] /\ arrived \in Seq(Events)
  BY TypeStep DEF OrderInv, TypeInv, Runners
<1>2. CASE Requeue(h) \/ Take(h) \/ Ack(h)
  BY <1>1, <1>2, OrderFiled
\* The loop looks, listens or waits: nothing is in processing/.
<1>3. CASE \/ Look(h) \/ Reclaim(h) \/ Halt(h) \/ Listen(h) \/ NothingDue(h) \/ IntervalFires(h)
           \/ PollStarts(h) \/ PollAnswers(h) \/ PollFails(h)
  <2>1. UNCHANGED <<place, arrived>> /\ at[h] \in {"look", "reclaim", "halt", "ready", "next", "poll"}
    BY <1>3 DEF Look, Reclaim, Halt, Listen, NothingDue, IntervalFires, PollStarts, PollAnswers,
                PollFails, disk
  <2> QED
    BY <1>1, <2>1, OrderKept
<1>4. CASE TickStarts(h) \/ TickUnrecorded(h) \/ TickEnds(h)
  <2>1. /\ UNCHANGED <<place, arrived>>
        /\ at[h] \in {"taken", "running"} /\ \E p \in {"running", "ack"} : Go(h, p)
        /\ UNCHANGED mem \/ \E ok \in BOOLEAN : Remember(h, [mem[h] EXCEPT !.ok = ok])
    BY <1>4 DEF TickStarts, TickUnrecorded, TickEnds, disk
  <2>2. at'[h] \in {"running", "ack"}
    BY <1>1, <2>1 DEF Go
  <2>3. mem'[h].event = mem[h].event
    BY <1>1, <2>1 DEF Remember, Memories
  <2> QED
    BY <1>1, <2>1, <2>2, <2>3, OrderKept
<1>5. CASE HubStarts(h)
  <2>1. at'[h] = "start" /\ UNCHANGED <<place, arrived>>
    BY <1>1, <1>5 DEF HubStarts, Go, disk
  <2> QED
    BY <1>1, <2>1, OrderKept
<1>6. CASE Elapses(h)
  <2>1. at' = at /\ UNCHANGED <<place, arrived>> /\ mem' = [mem EXCEPT ![h] = [mem[h] EXCEPT !.due = TRUE]]
    BY <1>6 DEF Elapses, disk, Remember
  <2>2. mem'[h].event = mem[h].event
    BY <1>1, <2>1 DEF Memories
  <2> QED
    BY <1>1, <2>1, <2>2, OrderKept
\* A process that ends leaves what it had in hand where it was.
<1>7. ASSUME NEW r \in Runners, Dies(r) PROVE OrderInv'
  <2>1. /\ UNCHANGED <<place, arrived>>
        /\ at'[h] = "off" \/ (at'[h] = at[h] /\ mem'[h] = mem[h])
    BY <1>1, <1>7 DEF Dies, Go, Remember, disk
  <2> QED
    BY <1>1, <2>1, OrderKept
<1>8. ASSUME NEW c \in Clis, Once(c) \/ OnceStarts(c) \/ OnceEnds(c) PROVE OrderInv'
  <2>1. c # h /\ c \in Runners
    BY HarnessAssumption DEF Runners
  <2>2. UNCHANGED <<place, arrived, mem>> /\ \E p \in {"taken", "running", "off"} : Go(c, p)
    BY <1>8 DEF Once, OnceStarts, OnceEnds, disk
  <2>3. at'[h] = at[h]
    BY <1>1, <2>1, <2>2 DEF Go
  <2> QED
    BY <1>1, <2>2, <2>3, OrderKept
<1>9. ASSUME NEW e \in Events, Poke(e) PROVE OrderInv'
  <2>1. /\ place[e] = "none" /\ arrived' = Append(arrived, e) /\ UNCHANGED <<at, mem>>
        /\ place'[e] = "inbox" /\ \A f \in Events : f # e => place'[f] = place[f]
    BY <1>1, <1>9 DEF Poke
  <2>2. /\ DOMAIN arrived = 1..Len(arrived) /\ Len(arrived) \in Nat
        /\ DOMAIN arrived' = 1..(Len(arrived) + 1) /\ arrived'[Len(arrived) + 1] = e
        /\ \A i \in DOMAIN arrived : arrived'[i] = arrived[i] /\ arrived[i] \in Events
    BY <1>1, <2>1
  <2>3. \A i \in DOMAIN arrived : arrived[i] # e /\ place'[arrived[i]] = place[arrived[i]]
    BY <2>1, <2>2 DEF OrderInv, Queued
  <2>4. \A i \in DOMAIN arrived' : i \in DOMAIN arrived \/ (i = Len(arrived) + 1 /\ arrived'[i] = e)
    BY <2>2
  <2>5. ASSUME NEW i \in DOMAIN arrived', NEW j \in DOMAIN arrived', i < j
        PROVE  /\ arrived'[i] # arrived'[j]
               /\ place'[arrived'[j]] # "inbox" => place'[arrived'[i]] \in {"done", "failed"}
    <3>1. i \in DOMAIN arrived
      BY <2>2, <2>5
    <3>2. CASE j \in DOMAIN arrived
      BY <2>2, <2>3, <2>5, <3>1, <3>2 DEF OrderInv, Queued
    <3>3. CASE j = Len(arrived) + 1
      BY <2>1, <2>2, <2>3, <3>1, <3>3
    <3> QED
      BY <2>4, <3>2, <3>3
  <2>6. \A i \in DOMAIN arrived' : place'[arrived'[i]] # "none"
    BY <2>1, <2>2, <2>3, <2>4 DEF OrderInv, Queued
  <2>7. Queued(place', arrived')
    BY <2>5, <2>6 DEF Queued
  <2>8. InHand(h)'
    BY <1>1, <2>1 DEF OrderInv, InHand
  <2> QED
    BY <1>1, <2>7, <2>8 DEF OrderInv
<1>10. CASE \/ RunNow \/ Pause \/ Resume \/ Reset \/ DayRolls \/ OutputChanges \/ MarkerAges
            \/ UNCHANGED vars
  <2>1. UNCHANGED <<place, arrived, at, mem>>
    BY <1>10 DEF RunNow, Pause, Resume, Reset, DayRolls, OutputChanges, MarkerAges, vars, disk
  <2> QED
    BY <1>1, <2>1, OrderKept
<1> QED
  BY <1>2, <1>3, <1>4, <1>5, <1>6, <1>7, <1>8, <1>9, <1>10 DEF Next, World, Loop

\* A burst is handled in arrival order (trigger.rs): with one hub no event is
\* touched before every earlier one is filed, however often the hub is killed and
\* puts back what it had in hand, and whatever `hal agent once` does meanwhile.
THEOREM EventsInOrder ==
  ASSUME IsFiniteSet(Hubs)
  PROVE  Spec => []HandledInOrder
<1>1. CASE Cardinality(Hubs) # 1
  <2>1. HandledInOrder
    BY <1>1 DEF HandledInOrder
  <2> QED
    BY <2>1, PTL
<1>2. CASE Cardinality(Hubs) = 1
  <2>1. PICK h : Hubs = {h}
    BY <1>2, FS_Singleton
  <2>2. Init => OrderInv
    <3> SUFFICES ASSUME Init PROVE OrderInv
      OBVIOUS
    <3>1. TypeInv /\ arrived = <<>> /\ \A e \in Events : place[e] = "none"
      BY TypeInit DEF Init
    <3> QED
      BY <3>1 DEF OrderInv, Queued, InHand
  <2>3. OrderInv => HandledInOrder
    <3> SUFFICES ASSUME OrderInv PROVE HandledInOrder
      OBVIOUS
    <3>1. DOMAIN arrived = 1..Len(arrived)
      BY DEF OrderInv, TypeInv
    <3> QED
      BY <3>1 DEF OrderInv, Queued, HandledInOrder
  <2>4. OrderInv /\ [Next]_vars => OrderInv'
    BY <2>1, OrderStep
  <2> QED
    BY <2>2, <2>3, <2>4, PTL DEF Spec
<1> QED
  BY <1>1, <1>2

=============================================================================

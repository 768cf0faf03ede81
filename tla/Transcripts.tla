---------------------------- MODULE Transcripts ----------------------------
(***************************************************************************)
(* What the hub makes of one Claude transcript.  The agent appends lines   *)
(* to it, so that part of a line may be on disk, and may rewrite it        *)
(* shorter; beside it, the session file says whether a prompt is open.     *)
(* The scanner goes over both again and again, one read at a time, and     *)
(* keeps three caches: the state, for as long as the file's modification   *)
(* time is the same; the count of tool uses, which goes on from the last   *)
(* whole line while the file grows; and the first thing the user said,     *)
(* once it is found.                                                       *)
(***************************************************************************)
EXTENDS Naturals, Sequences, FiniteSets

CONSTANTS
  None,
  Entries,     \* the kinds of line that are told apart
  FirstTail,   \* the window of the first read of the tail
  MaxLines     \* bound: lines of a transcript

\* What a line may be: nothing the state depends on (a tool result, a command,
\* a system line), a prompt, an interrupt, and an answer that is not finished or
\* stopped for a reason nobody knows, ends the turn, runs a tool, asks for approval or asks a question.
AllEntries == {"other", "user", "interrupt", "partial", "end", "tool", "plan", "question"}

\* Sizes are counted in half lines.  A tail of the largest size is one that
\* holds the whole file.
ASSUME TranscriptsAssumption ==
  Entries \subseteq AllEntries /\ FirstTail \in Nat \ {0} /\ MaxLines \in Nat

VARIABLES
  file,      \* the whole lines of the transcript
  torn,      \* part of a line is written after them
  waiting,   \* the session file: a prompt is open
  quiet,     \* the agent writes nothing any more
  scan,      \* what the scan under way has read
  state,     \* the state cache
  said,      \* the summary cache: the first thing the user said is known
  tools,     \* the cache of tool-use counts
  cut        \* whether a scan has looked since the file was cut

vars == <<file, torn, waiting, quiet, scan, state, said, tools, cut>>
agent == <<file, torn, waiting, quiet>>
caches == <<state, said, tools>>

MaxSize == 2 * MaxLines + 1
Size == 2 * Len(file) + (IF torn THEN 1 ELSE 0)

Steps == {"idle", "stat", "measure", "tail", "head", "size", "tools", "done"}
States == {"idle", "processing", "waiting", "question"}
Scans ==
  [at : Steps, waiting : BOOLEAN, fresh : BOOLEAN, total : 0..MaxSize, window : Nat,
   size : 0..MaxSize]
NoScan ==
  [at |-> "idle", waiting |-> FALSE, fresh |-> FALSE, total |-> 0, window |-> 0,
   size |-> 0]

\* Types; and the count goes on from the end of a line, never from inside one.
TypeOK ==
  /\ file \in Seq(Entries) /\ Len(file) <= MaxLines
  /\ torn \in BOOLEAN /\ waiting \in BOOLEAN /\ quiet \in BOOLEAN /\ said \in BOOLEAN
  /\ scan \in Scans
  /\ state \in [fresh : BOOLEAN, state : States] \cup {None}
  /\ tools \in [size : 0..MaxSize, offset : {2 * n : n \in 0..MaxLines}, count : 0..MaxLines] \cup {None}
  /\ cut \in {"no", "yes", "looking"}

Init ==
  /\ file = <<>> /\ torn = FALSE /\ waiting = FALSE /\ quiet = FALSE
  /\ scan = NoScan /\ state = None /\ said = FALSE /\ tools = None /\ cut = "no"

-----------------------------------------------------------------------------
(* What the lines mean.                                                    *)

Assistant == {"partial", "end", "tool", "plan", "question"}
Meaningful == Assistant \cup {"user", "interrupt"}
Uses == {"tool", "plan", "question"}

\* classify: the state is that of the last line with a role.
StateAfter(e) ==
  CASE e \in {"user", "partial", "tool"} -> "processing"
    [] e \in {"interrupt", "end", "plan"} -> "waiting"
    [] OTHER -> "question"

Classify(lines) ==
  LET last == {i \in DOMAIN lines : /\ lines[i] \in Meaningful
                                    /\ \A j \in (i + 1)..Len(lines) : lines[j] \notin Meaningful}
  IN IF last = {} THEN "idle" ELSE StateAfter(lines[CHOOSE i \in last : TRUE])

Said(lines) == \E i \in DOMAIN lines : lines[i] = "user"
UsesFrom(n, lines) == Cardinality({i \in DOMAIN lines : i > n /\ lines[i] \in Uses})

-----------------------------------------------------------------------------
(* The agent.                                                              *)

\* Every write changes the modification time, and a time is only ever compared
\* with the file's: fresh says whether a time that was read is still that.
Touched ==
  /\ scan' = [scan EXCEPT !.fresh = FALSE]
  /\ state' = IF state = None THEN None ELSE [state EXCEPT !.fresh = FALSE]

\* The sizes that are remembered of the file.
Remembered ==
  (IF tools = None THEN {} ELSE {tools.size}) \cup (IF scan.at = "tools" THEN {scan.size} ELSE {})

\* Assumed of a file that was cut: it is not as long again as it was known to
\* be before a scan has looked at it.
Noticed(size) == \A n \in Remembered : size < n

Written(lines, t) ==
  /\ ~quiet /\ file' = lines /\ torn' = t /\ Touched
  /\ UNCHANGED <<waiting, quiet, said, tools>>

StartsLine ==
  /\ ~torn /\ Len(file) < MaxLines /\ (cut = "yes" => Noticed(Size + 1))
  /\ Written(file, TRUE) /\ cut' = cut

EndsLine(e) ==
  /\ torn /\ (cut = "yes" => Noticed(Size + 1))
  /\ Written(Append(file, e), FALSE) /\ cut' = cut

\* A rewrite leaves fewer lines, perhaps others, and never what the user said first.
Rewrites(n, e) ==
  /\ n + 1 < Len(file) \/ (torn /\ n + 1 = Len(file))
  /\ Noticed(2 * (n + 1)) /\ (Said(file) => Said(SubSeq(file, 1, n)))
  /\ Written(Append(SubSeq(file, 1, n), e), FALSE) /\ cut' = "yes"

\* A prompt is opened or answered.
Prompt ==
  /\ ~quiet /\ waiting' = ~waiting
  /\ UNCHANGED <<file, torn, quiet, scan, caches, cut>>

Quiet ==
  /\ ~quiet /\ quiet' = TRUE
  /\ UNCHANGED <<file, torn, waiting, scan, caches, cut>>

-----------------------------------------------------------------------------
(* The scan.                                                               *)

\* read_raw_sessions.
Begin ==
  /\ scan.at = "idle" /\ scan' = [NoScan EXCEPT !.at = "stat", !.waiting = waiting]
  /\ UNCHANGED <<agent, caches, cut>>

\* derive_state_cached: the time is read before the lines are.
Stat ==
  /\ scan.at = "stat"
  /\ scan' = IF state # None /\ state.fresh
               THEN [scan EXCEPT !.at = "head"]
               ELSE [scan EXCEPT !.at = "measure", !.fresh = TRUE]
  /\ UNCHANGED <<agent, caches, cut>>

Measure ==
  /\ scan.at = "measure"
  /\ scan' = [scan EXCEPT !.at = "tail", !.total = Size, !.window = FirstTail]
  /\ UNCHANGED <<agent, caches, cut>>

\* read_jsonl_tail: a window that does not reach back to the start drops the
\* line it begins in.  What is written of the last line does not parse.
TailOf(window) ==
  IF Size <= window THEN file ELSE SubSeq(file, ((Size - window) \div 2) + 2, Len(file))

\* For comparison: the time that is kept is that of the file as it is now.
StampedLate == TRUE
\* The time that goes with the state is the one that was read first.
Stamped == scan.fresh

\* read_jsonl_tail_for_state, one read: twice the window, until it holds an answer.
ReadTail ==
  LET lines == TailOf(scan.window)
      enough == (\E i \in DOMAIN lines : lines[i] \in Assistant) \/ scan.window >= scan.total
  IN /\ scan.at = "tail"
     /\ IF enough
          THEN /\ state' = [fresh |-> Stamped, state |-> Classify(lines)]
               /\ scan' = [scan EXCEPT !.at = "head", !.fresh = FALSE, !.total = 0, !.window = 0]
          ELSE /\ scan' = [scan EXCEPT !.window = 2 * scan.window] /\ state' = state
     /\ UNCHANGED <<agent, said, tools, cut>>

\* first_user_message_cached: what is not there yet is not remembered.
ReadHead ==
  /\ scan.at = "head" /\ said' = (said \/ Said(file))
  /\ scan' = [scan EXCEPT !.at = "size"]
  /\ UNCHANGED <<agent, state, tools, cut>>

StatSize ==
  /\ scan.at = "size" /\ scan' = [scan EXCEPT !.at = "tools", !.size = Size]
  /\ cut' = IF cut = "yes" THEN "looking" ELSE cut
  /\ UNCHANGED <<agent, caches>>

\* For comparison: goes on from the end of what was there, in a line or not.
CountedToSize(offset, count) ==
  [size |-> scan.size, count |-> count + UsesFrom(offset \div 2, file), offset |-> Size]

\* count_from: the whole lines after an offset, and where they end.
CountedFrom(offset, count) ==
  [size |-> scan.size, count |-> count + UsesFrom(offset \div 2, file),
   offset |-> IF Len(file) * 2 > offset THEN Len(file) * 2 ELSE offset]

\* For comparison: a file is cut when it ends before the offset.
GrewPastOffset == scan.size >= tools.offset
\* A file has grown when it is longer than it was, and else is counted anew.
Grew == scan.size > tools.size

\* count_with_kind.
Counted ==
  IF tools = None THEN CountedFrom(0, 0)
  ELSE IF tools.size = scan.size THEN tools
  ELSE IF Grew THEN CountedFrom(tools.offset, tools.count) ELSE CountedFrom(0, 0)

CountTools ==
  /\ scan.at = "tools" /\ tools' = Counted
  /\ scan' = [scan EXCEPT !.at = "done", !.size = 0]
  /\ cut' = IF cut = "looking" THEN "no" ELSE cut
  /\ UNCHANGED <<agent, state, said>>

\* What the row of a scan that is done says; reconcile_with_session_status.  (An
\* idle one reads processing for half a minute after a write, and one whose
\* process is gone reads inactive: left out.)
Row == [state |-> IF scan.waiting THEN "question" ELSE state.state, said |-> said, count |-> tools.count]

Publish ==
  /\ scan.at = "done" /\ scan' = NoScan
  /\ UNCHANGED <<agent, caches, cut>>

\* retain_cached, after a scan that did not come upon the session.
Evict ==
  /\ scan.at = "idle" /\ state' = None /\ said' = FALSE /\ tools' = None
  /\ UNCHANGED <<agent, scan, cut>>

Scan ==
  Begin \/ Stat \/ Measure \/ ReadTail \/ ReadHead \/ StatSize \/ CountTools \/ Publish

Next ==
  \/ StartsLine \/ (\E e \in Entries : EndsLine(e))
  \/ \E n \in 0..MaxLines, e \in Entries : Rewrites(n, e)
  \/ Prompt \/ Quiet \/ Evict \/ Scan

Spec == Init /\ [][Next]_vars

\* A scan ends, and the timer of the scanner starts the next one.
FairSpec == Spec /\ WF_vars(Scan)

-----------------------------------------------------------------------------
\* Whatever the file did while it was read: a count that is kept for the size
\* the file has is the number of tool uses in its whole lines, once a scan has
\* looked since the last cut.
CountMatches ==
  tools # None /\ tools.size = Size /\ cut = "no" => tools.count = UsesFrom(0, file)

\* Once the agent has written its last, the rows of the scans come to say what the
\* transcript and the session file say, and go on saying it: nothing that was read
\* too early, or half written, is kept in a cache for good.
RowSettles ==
  quiet ~> [](scan.at = "done" =>
                Row = [state |-> IF waiting THEN "question" ELSE Classify(file),
                       said |-> Said(file), count |-> UsesFrom(0, file)])
=============================================================================

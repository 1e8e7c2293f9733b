------------------------------ MODULE FlowTool ------------------------------
(***************************************************************************)
(* scripts/flow.py: keeps the task groups of a change, numbered headers of *)
(* its tasks.md, and the sub-issues of its parent issue on GitHub in step. *)
(* tasks.md is in every checkout, where it can be behind that of others;   *)
(* GitHub is shared.  A command can die at any call it makes.              *)
(*                                                                         *)
(* An issue's "(group N)" suffix is its suffix here, 0 for none.           *)
(***************************************************************************)
EXTENDS Naturals, FiniteSets, Sequences, SequencesExt

CONSTANTS Groups,    \* the pieces of work a group can stand for
          Trees,     \* checkouts
          main,      \* the one of the main branch
          MaxIssues, \* bounds on sub-issues, on edits of tasks.md and on deaths
          MaxEdits, MaxFaults

FlowAssumption == main \in Trees

VARIABLES issue,  \* the sub-issues in order of number
          parent, \* the parent: none yet, unnamed (no directory carries it), open, closed
          tasks,  \* tasks.md of each checkout: [group, issue] by number, issue 0 unrecorded
          sync,   \* the command that runs, one at a time
          branch, \* the group's sub-issue each checkout's branch is for, 0 for none
          edits, faults

flowVars == <<issue, parent, tasks, sync, branch, edits, faults>>

Idle == [at |-> "idle", tree |-> main, lines |-> <<>>, linked |-> {}, i |-> 1]

Init ==
    /\ issue = <<>> /\ parent = "none"
    /\ \E g \in Groups : tasks = [t \in Trees |-> IF t = main THEN <<[group |-> g, issue |-> 0]>> ELSE <<>>]
    /\ sync = Idle /\ branch = [t \in Trees |-> 0] /\ edits = 0 /\ faults = 0

Linked == {n \in DOMAIN issue : issue[n].linked}
Recorded(lines) == {lines[i].issue : i \in DOMAIN lines} \ {0}
-----------------------------------------------------------------------------
(* Between commands.                                                       *)

\* A group is put in, taken out or moved; its header keeps the issue it records.
EditTasks(t) ==
    /\ sync.at = "idle" /\ edits < MaxEdits /\ edits' = edits + 1
    /\ tasks[t] # <<>>
    /\ \/ \E g \in Groups, i \in 1 .. Len(tasks[t]) + 1 :
             /\ \A u \in Trees : \A j \in DOMAIN tasks[u] : tasks[u][j].group # g
             /\ \A n \in DOMAIN issue : issue[n].about # g
             /\ tasks' = [tasks EXCEPT ![t] = InsertAt(@, i, [group |-> g, issue |-> 0])]
       \/ \E i \in DOMAIN tasks[t] :
             Len(tasks[t]) > 1 /\ tasks' = [tasks EXCEPT ![t] = RemoveAt(@, i)]
       \/ \E i \in 1 .. Len(tasks[t]) - 1 :
             tasks' = [tasks EXCEPT ![t] = [@ EXCEPT ![i] = tasks[t][i + 1], ![i + 1] = tasks[t][i]]]
    /\ UNCHANGED <<issue, parent, sync, branch, faults>>

\* A branch of main as it is, for whatever work.
Branch(t) ==
    /\ sync.at = "idle" /\ t # main /\ tasks[t] = <<>>
    /\ tasks' = [tasks EXCEPT ![t] = tasks[main]]
    /\ UNCHANGED <<issue, parent, sync, branch, edits, faults>>

\* cmd_start, from main: what it refuses, it refuses before it changes anything.
StartGroup(t, i) ==
    /\ sync.at = "idle" /\ t # main /\ tasks[t] = <<>> /\ parent \in {"open", "closed"}
    /\ i \in DOMAIN tasks[main] /\ tasks[main][i].issue \in Linked
    /\ \A u \in Trees : branch[u] # tasks[main][i].issue
    /\ tasks' = [tasks EXCEPT ![t] = tasks[main]]
    /\ branch' = [branch EXCEPT ![t] = tasks[main][i].issue]
    /\ issue' = [issue EXCEPT ![tasks[main][i].issue].board = IF @ = "Done" THEN @ ELSE "In Progress"]
    /\ UNCHANGED <<parent, sync, edits, faults>>

\* cmd_pr, and its trailer takes effect: the group's issue is closed, and the parent with
\* it when no other sub-issue is open and the checkout has no group without one.  Where
\* main has another tasks.md by now, one of the two is kept.
Finish(t) ==
    /\ sync.at = "idle" /\ branch[t] # 0
    /\ issue' = [issue EXCEPT ![branch[t]].open = FALSE, ![branch[t]].board = "Done"]
    /\ parent' = IF /\ branch[t] \in Recorded(tasks[t])
                    /\ \A n \in Linked \ {branch[t]} : ~issue[n].open
                    /\ \A i \in DOMAIN tasks[t] : tasks[t][i].issue \in Linked
                 THEN "closed" ELSE parent
    /\ branch' = [branch EXCEPT ![t] = 0]
    /\ \E kept \in {tasks[main], tasks[t]} : tasks' = [tasks EXCEPT ![t] = <<>>, ![main] = kept]
    /\ UNCHANGED <<sync, edits, faults>>
-----------------------------------------------------------------------------
(* init and sync.                                                          *)

\* cmd_init: the parent is found by its marker or created, and the directory is renamed;
\* until then the command can only be run again.
CreateParent ==
    /\ sync.at = "idle" /\ parent = "none"
    /\ parent' = "unnamed"
    /\ UNCHANGED <<issue, tasks, sync, branch, edits, faults>>
NameParent ==
    /\ sync.at = "idle" /\ parent = "unnamed"
    /\ parent' = "open"
    /\ UNCHANGED <<issue, tasks, sync, branch, edits, faults>>

\* cmd_sync, and init once it has named the parent: tasks.md is read, then GitHub.
StartSync(t) ==
    /\ sync.at = "idle" /\ parent \in {"open", "closed"} /\ tasks[t] # <<>>
    /\ sync' = [at |-> "link", tree |-> t, lines |-> tasks[t], linked |-> Linked, i |-> 1]
    /\ UNCHANGED <<issue, parent, tasks, branch, edits, faults>>

\* match_groups, first pass: a recorded issue that is no sub-issue becomes one.
LinkRecorded ==
    /\ sync.at = "link"
    /\ LET loose == Recorded(sync.lines) \ sync.linked
       IN  IF loose = {} THEN sync' = [sync EXCEPT !.at = "group"] /\ UNCHANGED issue
           ELSE \E n \in loose :
                   /\ \A k \in loose : n =< k
                   /\ issue' = [issue EXCEPT ![n].linked = TRUE]
                   /\ sync' = [sync EXCEPT !.linked = @ \cup {n}]
    /\ UNCHANGED <<parent, tasks, branch, edits, faults>>

\* Who has issue n: the first group that records it.
Claimed(lines) == {i \in DOMAIN lines : lines[i].issue # 0
                      /\ \A j \in 1 .. i - 1 : lines[j].issue # lines[i].issue}

\* Second pass: a group that records none can have one by its suffix that nobody has.
BySuffix(lines, i) ==
    {n \in sync.linked : issue[n].suffix = i /\ n \notin Recorded(lines)}

Matched(lines, i) ==
    IF i \in Claimed(lines) THEN lines[i].issue
    ELSE IF BySuffix(lines, i) = {} THEN 0
    ELSE CHOOSE n \in BySuffix(lines, i) : \A k \in BySuffix(lines, i) : n =< k

Goto(at, i) == sync' = [sync EXCEPT !.at = at, !.i = i]

\* Mutant: the suffix is left as it is.
SuffixKept(n, i) == issue[n].suffix

\* retitle_sub_issue.
Suffix(n, i) == i

\* reconcile, a group that has one: retitled and put on the board.
TakeMatched ==
    /\ sync.at = "group" /\ sync.i =< Len(sync.lines)
    /\ LET n == Matched(sync.lines, sync.i)
       IN  /\ n # 0
           /\ issue' = [issue EXCEPT ![n].suffix = Suffix(n, sync.i),
                                     ![n].board = IF @ = "off" THEN "Todo" ELSE @]
           /\ sync' = [sync EXCEPT !.lines[sync.i].issue = n, !.i = @ + 1]
    /\ UNCHANGED <<parent, tasks, branch, edits, faults>>

\* A group that has none: an issue is created, recorded in tasks.md, and linked.
CreateIssue ==
    /\ sync.at = "group" /\ sync.i =< Len(sync.lines)
    /\ Matched(sync.lines, sync.i) = 0 /\ Len(issue) < MaxIssues
    /\ issue' = Append(issue, [about |-> sync.lines[sync.i].group, suffix |-> sync.i,
                               linked |-> FALSE, open |-> TRUE, board |-> "off"])
    /\ Goto("record", sync.i)
    /\ UNCHANGED <<parent, tasks, branch, edits, faults>>
RecordIssue ==
    /\ sync.at = "record"
    /\ tasks' = [tasks EXCEPT ![sync.tree][sync.i].issue = Len(issue)]
    /\ sync' = [sync EXCEPT !.at = "attach", !.lines[sync.i].issue = Len(issue)]
    /\ UNCHANGED <<issue, parent, branch, edits, faults>>
LinkIssue ==
    /\ sync.at = "attach"
    /\ issue' = [issue EXCEPT ![Len(issue)].linked = TRUE]
    /\ Goto("board", sync.i)
    /\ UNCHANGED <<parent, tasks, branch, edits, faults>>
BoardIssue ==
    /\ sync.at = "board"
    /\ issue' = [issue EXCEPT ![Len(issue)].board = "Todo"]
    /\ Goto("group", sync.i + 1)
    /\ UNCHANGED <<parent, tasks, branch, edits, faults>>

\* write_tasks: the lines that were read, with the issues that were found or made.
WriteTasks ==
    /\ sync.at = "group" /\ sync.i > Len(sync.lines)
    /\ tasks' = [tasks EXCEPT ![sync.tree] = sync.lines]
    /\ Goto("written", 1)
    /\ UNCHANGED <<issue, parent, branch, edits, faults>>
EndSync ==
    /\ sync.at = "written" /\ sync' = Idle
    /\ UNCHANGED <<issue, parent, tasks, branch, edits, faults>>

Die ==
    /\ sync.at \notin {"idle", "written"} /\ faults < MaxFaults
    /\ faults' = faults + 1 /\ sync' = Idle
    /\ UNCHANGED <<issue, parent, tasks, branch, edits>>

Next ==
    \/ \E t \in Trees : EditTasks(t) \/ Branch(t) \/ Finish(t) \/ StartSync(t)
    \/ \E t \in Trees, i \in 1 .. Cardinality(Groups) : StartGroup(t, i)
    \/ CreateParent \/ NameParent
    \/ LinkRecorded \/ TakeMatched \/ CreateIssue \/ RecordIssue \/ LinkIssue \/ BoardIssue
    \/ WriteTasks \/ EndSync \/ Die
Spec == Init /\ [][Next]_flowVars
-----------------------------------------------------------------------------
\* Nothing refers to an issue there is not.
TypeOK ==
    /\ parent \in {"none", "unnamed", "open", "closed"}
    /\ \A n \in DOMAIN issue : issue[n].board \in {"off", "Todo", "In Progress", "Done"}
    /\ \A t \in Trees : Recorded(tasks[t]) \subseteq DOMAIN issue /\ branch[t] \in 0 .. Len(issue)
    /\ sync.at \in {"idle", "link", "group", "record", "attach", "board", "written"}

\* When sync is done every group of its checkout records a sub-issue of its own, which is
\* linked to the parent, on the board and titled with the number of the group: whatever
\* was edited or out of date, and wherever an earlier command died.
Tracked ==
    sync.at = "written" =>
        LET lines == tasks[sync.tree] IN
        /\ \A i \in DOMAIN lines :
              LET n == lines[i].issue IN
              n \in Linked /\ issue[n].suffix = i /\ issue[n].board # "off"
        /\ IsInjective([i \in DOMAIN lines |-> lines[i].issue])

\* "re-running can never create a duplicate even when tasks.md is stale, renumbered, or on
\* the wrong branch": no group is given a second issue while no command has died.
\* Not so when a branch synced before main was renumbered: on main the new group takes the
\* branch's issue by its suffix, and the old group gets another.
NoDuplicate ==
    faults = 0 => \A m, n \in DOMAIN issue : issue[m].about = issue[n].about => m = n
=============================================================================

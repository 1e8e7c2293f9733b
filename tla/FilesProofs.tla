----------------------------- MODULE FilesProofs -----------------------------
(***************************************************************************)
(* The four parts of MCFiles, for any number of lines, uploads, rows,      *)
(* groups and checkouts: what the variables hold; a sync that ends leaves  *)
(* every group a sub-issue of its own; a saved layout replays what it was  *)
(* saved from; what passes the limits is within them for the reader; what  *)
(* an export totals is what it read.                                       *)
(*                                                                         *)
(* Each part has an inductive invariant of its own, and the names of what  *)
(* belongs to it begin alike: Flow, Limits, Import, Export.                *)
(***************************************************************************)
EXTENDS MCFiles, SumTheorems
-----------------------------------------------------------------------------
(* The tool that keeps tasks.md and GitHub in step (FlowTool).             *)

\* A sub-issue, a line of tasks.md, and a command.
FlowIssue == [about : Groups, suffix : Nat, linked : BOOLEAN, open : BOOLEAN,
              board : {"off", "Todo", "In Progress", "Done"}]
FlowLine == [group : Groups, issue : Nat]
FlowSync == [at : {"idle", "link", "group", "record", "attach", "board", "written"}, tree : Trees,
             lines : Seq(FlowLine), linked : SUBSET Nat, i : Nat \ {0}]

\* What the variables hold, and nothing refers to an issue there is not.
FlowTypes ==
  /\ issue \in Seq(FlowIssue) /\ parent \in {"none", "unnamed", "open", "closed"}
  /\ tasks \in [Trees -> Seq(FlowLine)] /\ branch \in [Trees -> Nat] /\ sync \in FlowSync
  /\ \A t \in Trees : Flow!Recorded(tasks[t]) \subseteq DOMAIN issue /\ branch[t] \in 0 .. Len(issue)
  /\ Flow!Recorded(sync.lines) \subseteq DOMAIN issue

\* Issue n is settled for group i: linked, on the board and titled.
FlowSettled(n, i) == n \in Flow!Linked /\ issue[n].suffix = i /\ issue[n].board # "off"

\* The inductive invariant of a command: what it took from GitHub is still so, what a group
\* records is linked but for the issue it made last, and the groups it is done with are settled.
FlowSyncInv ==
  /\ sync.linked \subseteq Flow!Linked
  /\ sync.at \in {"group", "record", "attach", "board"} =>
       \A n \in Flow!Recorded(sync.lines) :
         n \in Flow!Linked \/ (sync.at = "attach" /\ n = Len(issue))
  /\ sync.at \in {"group", "record", "attach", "board"} =>
       \A j \in DOMAIN sync.lines : j < sync.i => FlowSettled(sync.lines[j].issue, j)
  /\ sync.at = "link" => sync.i = 1
  /\ sync.at \in {"record", "attach", "board"} =>
       sync.i \in DOMAIN sync.lines /\ Len(issue) # 0 /\ issue[Len(issue)].suffix = sync.i
  /\ sync.at = "record" => ~issue[Len(issue)].linked
  /\ sync.at \in {"attach", "board"} => sync.lines[sync.i].issue = Len(issue)
  /\ sync.at # "idle" => Len(tasks[sync.tree]) = Len(sync.lines)
  /\ sync.at = "written" =>
       /\ tasks[sync.tree] = sync.lines
       /\ \A j \in DOMAIN sync.lines : FlowSettled(sync.lines[j].issue, j)

FlowInv == FlowTypes /\ FlowSyncInv

\* It holds at the start.
LEMMA FlowInvInit ==
  ASSUME Flow!FlowAssumption, Flow!Init
  PROVE  FlowInv
  <1>1. PICK g \in Groups :
          tasks = [t \in Trees |-> IF t = main THEN <<[group |-> g, issue |-> 0]>> ELSE <<>>]
    BY DEF Flow!Init
  <1>2. [group |-> g, issue |-> 0] \in FlowLine /\ <<>> \in Seq(FlowLine)
    BY DEF FlowLine
  <1>3. <<[group |-> g, issue |-> 0]>> \in Seq(FlowLine)
    BY <1>2
  <1>4. tasks \in [Trees -> Seq(FlowLine)]
    BY <1>1, <1>2, <1>3
  <1>5. sync = Flow!Idle /\ sync \in FlowSync /\ sync.lines = <<>> /\ sync.linked = {} /\ sync.at = "idle"
    BY <1>2 DEF Flow!Init, Flow!Idle, FlowSync, Flow!FlowAssumption
  <1>6. issue = <<>> /\ issue \in Seq(FlowIssue) /\ Len(issue) = 0
    BY DEF Flow!Init
  <1>7. \A t \in Trees : Flow!Recorded(tasks[t]) = {}
    <2> SUFFICES ASSUME NEW t \in Trees PROVE Flow!Recorded(tasks[t]) = {}
      OBVIOUS
    <2>1. tasks[t] = <<[group |-> g, issue |-> 0]>> \/ tasks[t] = <<>>
      BY <1>1
    <2>2. \A i \in DOMAIN tasks[t] : tasks[t][i].issue = 0
      BY <2>1
    <2> QED BY <2>2 DEF Flow!Recorded
  <1>8. Flow!Recorded(sync.lines) = {}
    BY <1>5 DEF Flow!Recorded
  <1>9. branch \in [Trees -> Nat] /\ (\A t \in Trees : branch[t] = 0) /\ parent = "none"
    BY DEF Flow!Init
  <1>10. FlowTypes
    BY <1>4, <1>5, <1>6, <1>7, <1>8, <1>9 DEF FlowTypes
  <1> QED BY <1>5, <1>10 DEF FlowInv, FlowSyncInv

\* One issue is changed and keeps its type.
LEMMA FlowIssueChanged ==
  ASSUME FlowTypes, NEW n \in DOMAIN issue, NEW row \in FlowIssue,
         issue' = [issue EXCEPT ![n] = row]
  PROVE  /\ issue' \in Seq(FlowIssue) /\ Len(issue') = Len(issue) /\ DOMAIN issue' = DOMAIN issue
         /\ issue'[n] = row /\ \A k \in DOMAIN issue : k # n => issue'[k] = issue[k]
  <1>1. issue \in Seq(FlowIssue)
    BY DEF FlowTypes
  <1> QED BY <1>1

\* One sequence of lines is changed, to lines that record issues there are.
LEMMA FlowTasksChanged ==
  ASSUME FlowTypes, NEW t \in Trees, NEW new \in Seq(FlowLine),
         tasks' = [tasks EXCEPT ![t] = new]
  PROVE  /\ tasks' \in [Trees -> Seq(FlowLine)] /\ tasks'[t] = new
         /\ \A u \in Trees : u # t => tasks'[u] = tasks[u]
  BY DEF FlowTypes

\* Issues that keep what a group needs of them stay settled.
LEMMA FlowStaysSettled ==
  ASSUME FlowTypes, DOMAIN issue \subseteq DOMAIN issue', NEW n, NEW j, FlowSettled(n, j),
         issue'[n] = issue[n]
  PROVE  FlowSettled(n, j)'
  BY DEF FlowSettled, Flow!Linked

\* What lines record, by line.
LEMMA FlowRecords ==
  ASSUME NEW s \in Seq(FlowLine)
  PROVE  /\ \A i \in DOMAIN s : s[i].issue \in Nat /\ (s[i].issue # 0 => s[i].issue \in Flow!Recorded(s))
         /\ \A n \in Flow!Recorded(s) : n \in Nat \ {0} /\ \E i \in DOMAIN s : s[i].issue = n
         /\ 0 \notin Flow!Recorded(s)
  <1>1. \A i \in DOMAIN s : s[i] \in FlowLine
    OBVIOUS
  <1>2. \A i \in DOMAIN s : s[i].issue \in Nat
    BY <1>1 DEF FlowLine
  <1> QED BY <1>2 DEF Flow!Recorded

\* What is in a sequence put together of two is in one of them.
LEMMA Concatenated ==
  ASSUME NEW S, NEW a \in Seq(S), NEW b \in Seq(S)
  PROVE  a \o b \in Seq(S) /\ Range(a \o b) \subseteq Range(a) \cup Range(b)
  <1>1. a \o b \in Seq(S) /\ Len(a \o b) = Len(a) + Len(b)
    OBVIOUS
  <1>2. ASSUME NEW k \in 1 .. Len(a) + Len(b) PROVE (a \o b)[k] \in Range(a) \cup Range(b)
    <2>1. ASSUME k =< Len(a) PROVE (a \o b)[k] \in Range(a)
      <3>1. k \in DOMAIN a /\ (a \o b)[k] = a[k]
        BY <2>1
      <3> QED BY <3>1 DEF Range
    <2>2. ASSUME k > Len(a) PROVE (a \o b)[k] \in Range(b)
      <3>1. k - Len(a) \in DOMAIN b /\ (a \o b)[k] = b[k - Len(a)]
        BY <2>2
      <3> QED BY <3>1 DEF Range
    <2> QED BY <2>1, <2>2
  <1>3. DOMAIN (a \o b) = 1 .. Len(a) + Len(b)
    BY <1>1
  <1> QED BY <1>1, <1>2, <1>3 DEF Range

\* What is in a part of a sequence is in the sequence.
LEMMA Part ==
  ASSUME NEW S, NEW s \in Seq(S), NEW i \in Nat \ {0}, NEW j \in Nat, j =< Len(s)
  PROVE  SubSeq(s, i, j) \in Seq(S) /\ Range(SubSeq(s, i, j)) \subseteq Range(s)
  <1> DEFINE piece == SubSeq(s, i, j)
  <1>1. piece \in Seq(S) /\ Len(piece) = IF i =< j THEN j - i + 1 ELSE 0
    OBVIOUS
  <1>2. ASSUME NEW k \in 1 .. Len(piece) PROVE \E m \in DOMAIN s : piece[k] = s[m]
    <2>1. piece[k] = s[i + k - 1] /\ i + k - 1 \in DOMAIN s
      BY <1>1
    <2> QED BY <2>1
  <1> QED BY <1>1, <1>2 DEF Range

\* Lines that are among others record what they do.
LEMMA FlowRecordedAmong ==
  ASSUME NEW s, NEW new, \A e \in Range(new) : e \in Range(s) \/ e.issue = 0
  PROVE  Flow!Recorded(new) \subseteq Flow!Recorded(s)
  BY DEF Flow!Recorded, Range

\* A line put in that records nothing.
LEMMA FlowPutIn ==
  ASSUME NEW s \in Seq(FlowLine), NEW e \in FlowLine, e.issue = 0, NEW i \in 1 .. Len(s) + 1
  PROVE  /\ Flow!InsertAt(s, i, e) \in Seq(FlowLine)
         /\ Flow!Recorded(Flow!InsertAt(s, i, e)) \subseteq Flow!Recorded(s)
  <1> DEFINE head == SubSeq(s, 1, i - 1)
             rest == SubSeq(s, i, Len(s))
             one == <<e>>
             both == head \o one
             new == both \o rest
  <1>1. Flow!InsertAt(s, i, e) = new
    BY DEF Flow!InsertAt
  <1>2. i - 1 \in Nat /\ i - 1 =< Len(s) /\ Len(s) \in Nat /\ Len(s) =< Len(s) /\ i \in Nat \ {0}
        /\ 1 \in Nat \ {0}
    OBVIOUS
  <1>3. head \in Seq(FlowLine) /\ Range(head) \subseteq Range(s)
    BY <1>2, Part
  <1>4. rest \in Seq(FlowLine) /\ Range(rest) \subseteq Range(s)
    BY <1>2, Part
  <1>5. one \in Seq(FlowLine) /\ Range(one) = {e}
    BY DEF Range
  <1> HIDE DEF head, rest, one
  <1>6. both \in Seq(FlowLine) /\ Range(both) \subseteq Range(head) \cup Range(one)
    BY <1>3, <1>5, Concatenated
  <1> HIDE DEF both
  <1>7. new \in Seq(FlowLine) /\ Range(new) \subseteq Range(both) \cup Range(rest)
    BY <1>4, <1>6, Concatenated
  <1> HIDE DEF new
  <1>8. Flow!Recorded(new) \subseteq Flow!Recorded(s)
    BY <1>3, <1>4, <1>5, <1>6, <1>7, FlowRecordedAmong
  <1> QED BY <1>1, <1>7, <1>8

\* A line taken out.
LEMMA FlowTakenOut ==
  ASSUME NEW s \in Seq(FlowLine), NEW i \in DOMAIN s
  PROVE  /\ Flow!RemoveAt(s, i) \in Seq(FlowLine)
         /\ Flow!Recorded(Flow!RemoveAt(s, i)) \subseteq Flow!Recorded(s)
  <1> DEFINE head == SubSeq(s, 1, i - 1)
             rest == SubSeq(s, i + 1, Len(s))
             new == head \o rest
  <1>1. Flow!RemoveAt(s, i) = new
    BY DEF Flow!RemoveAt
  <1>2. i \in 1 .. Len(s) /\ Len(s) \in Nat
    OBVIOUS
  <1>3. i - 1 \in Nat /\ i - 1 =< Len(s) /\ Len(s) =< Len(s) /\ i + 1 \in Nat \ {0} /\ 1 \in Nat \ {0}
    BY <1>2
  <1>4. head \in Seq(FlowLine) /\ Range(head) \subseteq Range(s)
    BY <1>3, Part
  <1>5. rest \in Seq(FlowLine) /\ Range(rest) \subseteq Range(s)
    BY <1>2, <1>3, Part
  <1> HIDE DEF head, rest
  <1>6. new \in Seq(FlowLine) /\ Range(new) \subseteq Range(head) \cup Range(rest)
    BY <1>4, <1>5, Concatenated
  <1> HIDE DEF new
  <1>7. Flow!Recorded(new) \subseteq Flow!Recorded(s)
    BY <1>4, <1>5, <1>6, FlowRecordedAmong
  <1> QED BY <1>1, <1>6, <1>7

\* Two neighbours exchanged.
LEMMA FlowExchanged ==
  ASSUME NEW s \in Seq(FlowLine), NEW i \in 1 .. Len(s) - 1
  PROVE  LET new == [s EXCEPT ![i] = s[i + 1], ![i + 1] = s[i]]
         IN  new \in Seq(FlowLine) /\ Flow!Recorded(new) \subseteq Flow!Recorded(s)
  <1> DEFINE half == [s EXCEPT ![i] = s[i + 1]]
             new == [s EXCEPT ![i] = s[i + 1], ![i + 1] = s[i]]
  <1>1. i \in DOMAIN s /\ i + 1 \in DOMAIN s /\ s[i] \in FlowLine /\ s[i + 1] \in FlowLine
    OBVIOUS
  <1>2. half \in Seq(FlowLine) /\ DOMAIN half = DOMAIN s
        /\ \A k \in DOMAIN s : half[k] = IF k = i THEN s[i + 1] ELSE s[k]
    BY <1>1
  <1>3. new = [half EXCEPT ![i + 1] = s[i]]
    OBVIOUS
  <1> HIDE DEF half, new
  <1>4. new \in Seq(FlowLine) /\ DOMAIN new = DOMAIN s
        /\ \A k \in DOMAIN s : new[k] = IF k = i + 1 THEN s[i] ELSE half[k]
    BY <1>1, <1>2, <1>3
  <1>5. \A k \in DOMAIN new : \E j \in DOMAIN s : new[k] = s[j]
    BY <1>1, <1>2, <1>4
  <1>6. Flow!Recorded(new) \subseteq Flow!Recorded(s)
    BY <1>5 DEF Flow!Recorded
  <1> QED BY <1>4, <1>6 DEF new

\* What the fields of a command are.
LEMMA FlowSyncIs ==
  ASSUME FlowTypes
  PROVE  /\ sync.at \in {"idle", "link", "group", "record", "attach", "board", "written"}
         /\ sync.tree \in Trees /\ sync.lines \in Seq(FlowLine) /\ sync.linked \subseteq Nat
         /\ sync.i \in Nat \ {0}
         /\ issue \in Seq(FlowIssue) /\ tasks[sync.tree] \in Seq(FlowLine)
  BY DEF FlowTypes, FlowSync

\* The types of a step, by variable.
LEMMA FlowTypesNext ==
  ASSUME issue' \in Seq(FlowIssue), parent' \in {"none", "unnamed", "open", "closed"},
         tasks' \in [Trees -> Seq(FlowLine)], branch' \in [Trees -> Nat], sync' \in FlowSync,
         \A u \in Trees : Flow!Recorded(tasks'[u]) \subseteq DOMAIN issue',
         \A u \in Trees : branch'[u] \in 0 .. Len(issue'),
         Flow!Recorded(sync'.lines) \subseteq DOMAIN issue'
  PROVE  FlowTypes'
  BY DEF FlowTypes, Flow!Recorded

\* The types, by variable.
LEMMA FlowTypesAre ==
  ASSUME FlowTypes
  PROVE  /\ issue \in Seq(FlowIssue) /\ parent \in {"none", "unnamed", "open", "closed"}
         /\ tasks \in [Trees -> Seq(FlowLine)] /\ branch \in [Trees -> Nat] /\ sync \in FlowSync
         /\ \A u \in Trees : Flow!Recorded(tasks[u]) \subseteq DOMAIN issue
         /\ \A u \in Trees : branch[u] \in 0 .. Len(issue)
         /\ Flow!Recorded(sync.lines) \subseteq DOMAIN issue
  BY DEF FlowTypes

\* What a step leaves settled.
FlowSettledNext(n, i) ==
  n \in DOMAIN issue' /\ issue'[n].linked /\ issue'[n].suffix = i /\ issue'[n].board # "off"

\* The invariant of a command after a step, by the command it leaves.
LEMMA FlowSyncNext ==
  ASSUME sync'.linked \subseteq Flow!Linked',
         sync'.at \in {"group", "record", "attach", "board"} =>
           /\ \A n \in Flow!Recorded(sync'.lines) :
                n \in Flow!Linked' \/ (sync'.at = "attach" /\ n = Len(issue'))
           /\ \A j \in DOMAIN sync'.lines : j < sync'.i => FlowSettledNext(sync'.lines[j].issue, j),
         sync'.at = "link" => sync'.i = 1,
         sync'.at \in {"record", "attach", "board"} =>
           sync'.i \in DOMAIN sync'.lines /\ Len(issue') # 0 /\ issue'[Len(issue')].suffix = sync'.i,
         sync'.at = "record" => ~issue'[Len(issue')].linked,
         sync'.at \in {"attach", "board"} => sync'.lines[sync'.i].issue = Len(issue'),
         sync'.at # "idle" => Len(tasks'[sync'.tree]) = Len(sync'.lines),
         sync'.at = "written" =>
           /\ tasks'[sync'.tree] = sync'.lines
           /\ \A j \in DOMAIN sync'.lines : FlowSettledNext(sync'.lines[j].issue, j)
  PROVE  FlowSyncInv'
  BY DEF FlowSyncInv, FlowSettled, FlowSettledNext, Flow!Linked, Flow!Recorded

\* The same for a command that is between groups.
LEMMA FlowGroupNext ==
  ASSUME sync'.at = "group", sync'.linked \subseteq Flow!Linked',
         \A n \in Flow!Recorded(sync'.lines) : n \in Flow!Linked',
         \A j \in DOMAIN sync'.lines : j < sync'.i => FlowSettledNext(sync'.lines[j].issue, j),
         Len(tasks'[sync'.tree]) = Len(sync'.lines)
  PROVE  FlowSyncInv'
  <1>1. sync'.at \notin {"idle", "link", "record", "attach", "board", "written"}
    OBVIOUS
  <1> QED BY <1>1, FlowSyncNext

\* Between commands nothing is asked of the command.
LEMMA FlowIdle ==
  ASSUME sync.at = "idle", sync' = sync, sync.linked \subseteq Flow!Linked, Flow!Linked \subseteq Flow!Linked'
  PROVE  FlowSyncInv'
  BY DEF FlowSyncInv

\* tasks.md is edited in a checkout.
LEMMA FlowEditTasks ==
  ASSUME FlowInv, NEW t \in Trees, Flow!EditTasks(t)
  PROVE  FlowInv'
  <1>1. sync.at = "idle" /\ UNCHANGED <<issue, parent, sync, branch>>
    BY DEF Flow!EditTasks
  <1>2. tasks[t] \in Seq(FlowLine) /\ Flow!Recorded(tasks[t]) \subseteq DOMAIN issue
    BY DEF FlowInv, FlowTypes
  <1>3. PICK new \in Seq(FlowLine) : /\ tasks' = [tasks EXCEPT ![t] = new]
                                     /\ Flow!Recorded(new) \subseteq Flow!Recorded(tasks[t])
    <2>1. ASSUME NEW g \in Groups, NEW i \in 1 .. Len(tasks[t]) + 1,
                 tasks' = [tasks EXCEPT ![t] = Flow!InsertAt(@, i, [group |-> g, issue |-> 0])]
          PROVE  \E new \in Seq(FlowLine) : /\ tasks' = [tasks EXCEPT ![t] = new]
                                     /\ Flow!Recorded(new) \subseteq Flow!Recorded(tasks[t])
      <3> DEFINE e == [group |-> g, issue |-> 0]
                 new == Flow!InsertAt(tasks[t], i, e)
      <3>1. e \in FlowLine /\ e.issue = 0
        BY DEF FlowLine
      <3>2. tasks' = [tasks EXCEPT ![t] = new]
        BY <2>1
      <3> HIDE DEF e
      <3>3. new \in Seq(FlowLine) /\ Flow!Recorded(new) \subseteq Flow!Recorded(tasks[t])
        BY <1>2, <3>1, FlowPutIn
      <3> HIDE DEF new
      <3> QED BY <3>2, <3>3
    <2>2. ASSUME NEW i \in DOMAIN tasks[t], tasks' = [tasks EXCEPT ![t] = Flow!RemoveAt(@, i)]
          PROVE  \E new \in Seq(FlowLine) : /\ tasks' = [tasks EXCEPT ![t] = new]
                                     /\ Flow!Recorded(new) \subseteq Flow!Recorded(tasks[t])
      <3> DEFINE new == Flow!RemoveAt(tasks[t], i)
      <3>1. tasks' = [tasks EXCEPT ![t] = new]
        BY <2>2
      <3>2. new \in Seq(FlowLine) /\ Flow!Recorded(new) \subseteq Flow!Recorded(tasks[t])
        BY <1>2, FlowTakenOut
      <3> HIDE DEF new
      <3> QED BY <3>1, <3>2
    <2>3. ASSUME NEW i \in 1 .. Len(tasks[t]) - 1,
                 tasks' = [tasks EXCEPT ![t] = [@ EXCEPT ![i] = tasks[t][i + 1], ![i + 1] = tasks[t][i]]]
          PROVE  \E new \in Seq(FlowLine) : /\ tasks' = [tasks EXCEPT ![t] = new]
                                     /\ Flow!Recorded(new) \subseteq Flow!Recorded(tasks[t])
      <3> DEFINE new == [tasks[t] EXCEPT ![i] = tasks[t][i + 1], ![i + 1] = tasks[t][i]]
      <3>1. tasks' = [tasks EXCEPT ![t] = new]
        BY <2>3
      <3>2. new \in Seq(FlowLine) /\ Flow!Recorded(new) \subseteq Flow!Recorded(tasks[t])
        BY <1>2, FlowExchanged
      <3> HIDE DEF new
      <3> QED BY <3>1, <3>2
    <2> QED BY <2>1, <2>2, <2>3 DEF Flow!EditTasks
  <1>4. tasks' \in [Trees -> Seq(FlowLine)] /\ tasks'[t] = new /\ \A u \in Trees : u # t => tasks'[u] = tasks[u]
    BY <1>3, FlowTasksChanged DEF FlowInv
  <1>5. \A u \in Trees : Flow!Recorded(tasks'[u]) \subseteq DOMAIN issue
    <2> SUFFICES ASSUME NEW u \in Trees PROVE Flow!Recorded(tasks'[u]) \subseteq DOMAIN issue
      OBVIOUS
    <2>1. CASE u = t
      BY <1>2, <1>3, <1>4, <2>1
    <2>2. CASE u # t
      BY <1>4, <2>2, FlowTypesAre DEF FlowInv
    <2> QED BY <2>1, <2>2
  <1>6. FlowTypes'
    BY <1>1, <1>4, <1>5, FlowTypesNext, FlowTypesAre DEF FlowInv
  <1>7. Flow!Linked' = Flow!Linked
    BY <1>1 DEF Flow!Linked
  <1> QED BY <1>1, <1>6, <1>7, FlowIdle DEF FlowInv, FlowSyncInv

\* A checkout gets the tasks.md of main.
LEMMA FlowCopied ==
  ASSUME Flow!FlowAssumption, FlowTypes, NEW t \in Trees, tasks' = [tasks EXCEPT ![t] = tasks[main]]
  PROVE  /\ tasks' \in [Trees -> Seq(FlowLine)]
         /\ \A u \in Trees : \E v \in Trees : tasks'[u] = tasks[v]
  BY DEF Flow!FlowAssumption, FlowTypes

\* A branch of main.
LEMMA FlowBranch ==
  ASSUME Flow!FlowAssumption, FlowInv, NEW t \in Trees, Flow!Branch(t)
  PROVE  FlowInv'
  <1>1. sync.at = "idle" /\ UNCHANGED <<issue, parent, sync, branch>> /\ tasks' = [tasks EXCEPT ![t] = tasks[main]]
    BY DEF Flow!Branch
  <1>2. tasks' \in [Trees -> Seq(FlowLine)] /\ \A u \in Trees : \E v \in Trees : tasks'[u] = tasks[v]
    BY <1>1, FlowCopied DEF FlowInv
  <1>3. \A u \in Trees : Flow!Recorded(tasks'[u]) \subseteq DOMAIN issue
    <2> SUFFICES ASSUME NEW u \in Trees PROVE Flow!Recorded(tasks'[u]) \subseteq DOMAIN issue
      OBVIOUS
    <2>1. PICK v \in Trees : tasks'[u] = tasks[v]
      BY <1>2
    <2> QED BY <2>1, FlowTypesAre DEF FlowInv
  <1>4. FlowTypes'
    BY <1>1, <1>2, <1>3, FlowTypesNext, FlowTypesAre DEF FlowInv
  <1>5. Flow!Linked' = Flow!Linked
    BY <1>1 DEF Flow!Linked
  <1> QED BY <1>1, <1>4, <1>5, FlowIdle DEF FlowInv, FlowSyncInv

\* Work on a group is begun: its issue is put in progress.
LEMMA FlowStartGroup ==
  ASSUME Flow!FlowAssumption, FlowInv, NEW t \in Trees, NEW i, Flow!StartGroup(t, i)
  PROVE  FlowInv'
  <1> DEFINE n == tasks[main][i].issue
             row == [issue[n] EXCEPT !.board = IF issue[n].board = "Done" THEN issue[n].board ELSE "In Progress"]
  <1>1. /\ sync.at = "idle" /\ UNCHANGED <<parent, sync>> /\ tasks' = [tasks EXCEPT ![t] = tasks[main]]
        /\ branch' = [branch EXCEPT ![t] = n] /\ n \in Flow!Linked
        /\ issue' = [issue EXCEPT ![n].board = IF @ = "Done" THEN @ ELSE "In Progress"]
    BY DEF Flow!StartGroup
  <1>2. n \in DOMAIN issue /\ issue \in Seq(FlowIssue)
    BY <1>1 DEF Flow!Linked, FlowInv, FlowTypes
  <1>3. issue' = [issue EXCEPT ![n] = row]
    BY <1>1, <1>2
  <1>4. issue[n] \in FlowIssue
    BY <1>2
  <1>5. row \in FlowIssue /\ row.linked = issue[n].linked
    BY <1>4 DEF FlowIssue
  <1> HIDE DEF n, row
  <1>6. /\ issue' \in Seq(FlowIssue) /\ Len(issue') = Len(issue) /\ DOMAIN issue' = DOMAIN issue
        /\ issue'[n] = row /\ \A k \in DOMAIN issue : k # n => issue'[k] = issue[k]
    BY <1>2, <1>3, <1>5, FlowIssueChanged DEF FlowInv
  <1>7. tasks' \in [Trees -> Seq(FlowLine)] /\ \A u \in Trees : \E v \in Trees : tasks'[u] = tasks[v]
    BY <1>1, FlowCopied DEF FlowInv
  <1>8. \A u \in Trees : Flow!Recorded(tasks'[u]) \subseteq DOMAIN issue
    <2> SUFFICES ASSUME NEW u \in Trees PROVE Flow!Recorded(tasks'[u]) \subseteq DOMAIN issue
      OBVIOUS
    <2>1. PICK v \in Trees : tasks'[u] = tasks[v]
      BY <1>7
    <2> QED BY <2>1, FlowTypesAre DEF FlowInv
  <1>9. branch' \in [Trees -> Nat] /\ \A u \in Trees : branch'[u] \in 0 .. Len(issue)
    <2>1. n \in 0 .. Len(issue) /\ n \in Nat
      BY <1>2
    <2>2. branch \in [Trees -> Nat] /\ \A u \in Trees : branch[u] \in 0 .. Len(issue)
      BY DEF FlowInv, FlowTypes
    <2> QED BY <1>1, <2>1, <2>2
  <1>10. FlowTypes'
    BY <1>1, <1>6, <1>7, <1>8, <1>9, FlowTypesNext, FlowTypesAre DEF FlowInv
  <1>11. Flow!Linked' = Flow!Linked
    BY <1>5, <1>6 DEF Flow!Linked
  <1> QED BY <1>1, <1>10, <1>11, FlowIdle DEF FlowInv, FlowSyncInv

\* The work on a group is merged: its issue is closed, and one of two tasks.md kept.
LEMMA FlowFinish ==
  ASSUME Flow!FlowAssumption, FlowInv, NEW t \in Trees, Flow!Finish(t)
  PROVE  FlowInv'
  <1> DEFINE n == branch[t]
             row == [issue[n] EXCEPT !.open = FALSE, !.board = "Done"]
  <1>1. /\ sync.at = "idle" /\ UNCHANGED sync /\ branch' = [branch EXCEPT ![t] = 0] /\ n # 0
        /\ issue' = [issue EXCEPT ![n].open = FALSE, ![n].board = "Done"]
        /\ parent' \in {"closed", parent}
        /\ \E kept \in {tasks[main], tasks[t]} : tasks' = [tasks EXCEPT ![t] = <<>>, ![main] = kept]
    BY DEF Flow!Finish
  <1>2. n \in DOMAIN issue /\ issue \in Seq(FlowIssue)
    BY <1>1 DEF FlowInv, FlowTypes
  <1>3. issue' = [issue EXCEPT ![n] = row]
    BY <1>1, <1>2
  <1>4. issue[n] \in FlowIssue
    BY <1>2
  <1>5. row \in FlowIssue /\ row.linked = issue[n].linked
    BY <1>4 DEF FlowIssue
  <1> HIDE DEF n, row
  <1>6. /\ issue' \in Seq(FlowIssue) /\ Len(issue') = Len(issue) /\ DOMAIN issue' = DOMAIN issue
        /\ issue'[n] = row /\ \A k \in DOMAIN issue : k # n => issue'[k] = issue[k]
    BY <1>2, <1>3, <1>5, FlowIssueChanged DEF FlowInv
  <1>7. /\ tasks' \in [Trees -> Seq(FlowLine)]
        /\ \A u \in Trees : tasks'[u] = <<>> \/ \E v \in Trees : tasks'[u] = tasks[v]
    <2>1. <<>> \in Seq(FlowLine) /\ main \in Trees /\ tasks \in [Trees -> Seq(FlowLine)]
      BY DEF Flow!FlowAssumption, FlowInv, FlowTypes
    <2> QED BY <1>1, <2>1
  <1>8. \A u \in Trees : Flow!Recorded(tasks'[u]) \subseteq DOMAIN issue
    <2> SUFFICES ASSUME NEW u \in Trees PROVE Flow!Recorded(tasks'[u]) \subseteq DOMAIN issue
      OBVIOUS
    <2>1. CASE tasks'[u] = <<>>
      <3>1. DOMAIN tasks'[u] = {}
        BY <2>1
      <3> QED BY <3>1 DEF Flow!Recorded
    <2>2. ASSUME NEW v \in Trees, tasks'[u] = tasks[v] PROVE Flow!Recorded(tasks'[u]) \subseteq DOMAIN issue
      BY <2>2 DEF FlowInv, FlowTypes
    <2> QED BY <1>7, <2>1, <2>2
  <1>9. branch' \in [Trees -> Nat] /\ \A u \in Trees : branch'[u] \in 0 .. Len(issue)
    <2>1. 0 \in 0 .. Len(issue)
      BY <1>2
    <2> QED BY <1>1, <2>1 DEF FlowInv, FlowTypes
  <1>10. FlowTypes'
    BY <1>1, <1>6, <1>7, <1>8, <1>9, FlowTypesNext, FlowTypesAre DEF FlowInv
  <1>11. Flow!Linked' = Flow!Linked
    BY <1>5, <1>6 DEF Flow!Linked
  <1> QED BY <1>1, <1>10, <1>11, FlowIdle DEF FlowInv, FlowSyncInv

\* The parent is created, and named.
LEMMA FlowParent ==
  ASSUME FlowInv, Flow!CreateParent \/ Flow!NameParent
  PROVE  FlowInv'
  <1>1. sync.at = "idle" /\ UNCHANGED <<issue, tasks, sync, branch>> /\ parent' \in {"unnamed", "open"}
    BY DEF Flow!CreateParent, Flow!NameParent
  <1>2. FlowTypes'
    BY <1>1, FlowTypesNext, FlowTypesAre DEF FlowInv
  <1>3. Flow!Linked' = Flow!Linked
    BY <1>1 DEF Flow!Linked
  <1> QED BY <1>1, <1>2, <1>3, FlowIdle DEF FlowInv, FlowSyncInv

\* A command starts: it reads tasks.md, then what is linked.
LEMMA FlowStartSync ==
  ASSUME FlowInv, NEW t \in Trees, Flow!StartSync(t)
  PROVE  FlowInv'
  <1> DEFINE new == [at |-> "link", tree |-> t, lines |-> tasks[t], linked |-> Flow!Linked, i |-> 1]
  <1>1. sync' = new /\ UNCHANGED <<issue, parent, tasks, branch>>
    BY DEF Flow!StartSync
  <1>2. tasks[t] \in Seq(FlowLine) /\ Flow!Linked \subseteq Nat
    BY FlowTypesAre DEF FlowInv, Flow!Linked
  <1>3. new \in FlowSync
    BY <1>2 DEF FlowSync
  <1>4. sync'.at = "link" /\ sync'.lines = tasks[t] /\ sync'.linked = Flow!Linked /\ sync'.tree = t
    BY <1>1
  <1>5. FlowTypes'
    BY <1>1, <1>3, <1>4, FlowTypesNext, FlowTypesAre DEF FlowInv
  <1>6. Flow!Linked' = Flow!Linked
    BY <1>1 DEF Flow!Linked
  <1> QED BY <1>1, <1>4, <1>5, <1>6 DEF FlowInv, FlowSyncInv

\* A recorded issue that is loose is linked; or none is, and the groups are next.
LEMMA FlowLinkRecorded ==
  ASSUME FlowInv, Flow!LinkRecorded
  PROVE  FlowInv'
  <1>1. sync.at = "link" /\ UNCHANGED <<parent, tasks, branch>>
    BY DEF Flow!LinkRecorded
  <1>2. sync \in FlowSync /\ Flow!Recorded(sync.lines) \subseteq DOMAIN issue /\ sync.linked \subseteq Flow!Linked
    BY FlowTypesAre DEF FlowInv, FlowSyncInv
  <1>3. ASSUME Flow!Recorded(sync.lines) \ sync.linked = {}, sync' = [sync EXCEPT !.at = "group"], UNCHANGED issue
        PROVE  FlowInv'
    <2>1. sync' \in FlowSync /\ sync'.at = "group" /\ sync'.lines = sync.lines /\ sync'.linked = sync.linked
          /\ sync'.tree = sync.tree /\ sync'.i = sync.i
      BY <1>2, <1>3 DEF FlowSync
    <2>2. FlowTypes'
      BY <1>1, <1>2, <1>3, <2>1, FlowTypesNext, FlowTypesAre DEF FlowInv
    <2>3. Flow!Linked' = Flow!Linked /\ Flow!Recorded(sync.lines)' = Flow!Recorded(sync.lines)
      BY <1>3, <2>1 DEF Flow!Linked, Flow!Recorded
    <2>4. sync.i = 1
      BY <1>1 DEF FlowInv, FlowSyncInv
    <2>5. \A j \in DOMAIN sync.lines : ~(j < 1)
      BY FlowSyncIs DEF FlowInv
    <2>6. Len(tasks[sync.tree]) = Len(sync.lines)
      BY <1>1 DEF FlowInv, FlowSyncInv
    <2>7. \A n \in Flow!Recorded(sync.lines) : n \in Flow!Linked
      BY <1>2, <1>3
    <2>8. FlowSyncInv'
      <3>1. sync'.linked \subseteq Flow!Linked' /\ sync'.i = 1 /\ sync'.at = "group"
        BY <1>2, <2>1, <2>3, <2>4
      <3>2. \A n \in Flow!Recorded(sync'.lines) : n \in Flow!Linked'
        BY <2>1, <2>3, <2>7
      <3>3. \A j \in DOMAIN sync'.lines : ~(j < sync'.i)
        BY <2>1, <2>5, <3>1
      <3>4. Len(tasks'[sync'.tree]) = Len(sync'.lines)
        BY <1>1, <2>1, <2>6
      <3> QED BY <3>1, <3>2, <3>3, <3>4, FlowGroupNext
    <2> QED BY <2>2, <2>8 DEF FlowInv
  <1>4. ASSUME NEW n \in Flow!Recorded(sync.lines) \ sync.linked,
               issue' = [issue EXCEPT ![n].linked = TRUE],
               sync' = [sync EXCEPT !.linked = @ \cup {n}]
        PROVE  FlowInv'
    <2> DEFINE row == [issue[n] EXCEPT !.linked = TRUE]
    <2>1. n \in DOMAIN issue /\ issue \in Seq(FlowIssue) /\ n \in Nat
      BY <1>2, <1>4, FlowTypesAre DEF FlowInv
    <2>2. issue' = [issue EXCEPT ![n] = row] /\ issue[n] \in FlowIssue
      BY <1>4, <2>1
    <2>3. row \in FlowIssue /\ row.linked
      BY <2>2 DEF FlowIssue
    <2> HIDE DEF row
    <2>4. /\ issue' \in Seq(FlowIssue) /\ Len(issue') = Len(issue) /\ DOMAIN issue' = DOMAIN issue
          /\ issue'[n] = row /\ \A k \in DOMAIN issue : k # n => issue'[k] = issue[k]
      BY <2>1, <2>2, <2>3, FlowIssueChanged DEF FlowInv
    <2>5. sync' \in FlowSync /\ sync'.at = "link" /\ sync'.lines = sync.lines
          /\ sync'.linked = sync.linked \cup {n} /\ sync'.tree = sync.tree /\ sync'.i = sync.i
      BY <1>1, <1>2, <1>4, <2>1 DEF FlowSync
    <2>6. FlowTypes'
      BY <1>1, <1>2, <2>4, <2>5, FlowTypesNext, FlowTypesAre DEF FlowInv
    <2>7. Flow!Linked' = Flow!Linked \cup {n}
      BY <2>1, <2>3, <2>4 DEF Flow!Linked
    <2>8. Len(tasks[sync.tree]) = Len(sync.lines) /\ sync.i = 1
      BY <1>1 DEF FlowInv, FlowSyncInv
    <2> QED BY <1>1, <1>2, <2>5, <2>6, <2>7, <2>8 DEF FlowInv, FlowSyncInv
  <1> QED BY <1>3, <1>4 DEF Flow!LinkRecorded

\* The issue that is matched to a group is there, is linked, and is no earlier group's.
LEMMA FlowMatched ==
  ASSUME FlowInv, sync.at = "group", NEW i \in DOMAIN sync.lines,
         Flow!Matched(sync.lines, i) # 0
  PROVE  /\ Flow!Matched(sync.lines, i) \in Flow!Linked
         /\ \A j \in DOMAIN sync.lines : j < i => sync.lines[j].issue # Flow!Matched(sync.lines, i)
  <1> DEFINE n == Flow!Matched(sync.lines, i)
             S == Flow!BySuffix(sync.lines, i)
  <1>1. sync.lines \in Seq(FlowLine) /\ i \in 1 .. Len(sync.lines)
    BY FlowSyncIs DEF FlowInv
  <1>2. \A k \in Flow!Recorded(sync.lines) : k \in Flow!Linked
    BY DEF FlowInv, FlowSyncInv
  <1>3. CASE i \in Flow!Claimed(sync.lines)
    <2>1. n = sync.lines[i].issue /\ n # 0
      BY <1>3 DEF Flow!Matched, Flow!Claimed
    <2>2. n \in Flow!Recorded(sync.lines)
      BY <1>1, <2>1, FlowRecords
    <2>3. \A j \in DOMAIN sync.lines : j < i => j \in 1 .. i - 1
      BY <1>1
    <2> QED BY <1>2, <1>3, <2>1, <2>2, <2>3 DEF Flow!Claimed
  <1>4. CASE i \notin Flow!Claimed(sync.lines)
    <2>1. S # {} /\ n = CHOOSE k \in S : \A m \in S : k =< m
      BY <1>4 DEF Flow!Matched
    <2>2. S \subseteq sync.linked /\ sync.linked \subseteq Flow!Linked /\ Flow!Linked \subseteq Nat
          /\ \A k \in S : k \notin Flow!Recorded(sync.lines)
      BY FlowTypesAre DEF Flow!BySuffix, FlowInv, FlowSyncInv, Flow!Linked
    <2>3. n \in S
      <3> HIDE DEF S, n
      <3>1. \E k \in S : \A m \in S : k =< m
        BY <2>1, <2>2, LeastNumber
      <3> QED BY <2>1, <3>1
    <2>4. \A j \in DOMAIN sync.lines : sync.lines[j].issue # n
      <3> HIDE DEF S, n
      <3> SUFFICES ASSUME NEW j \in DOMAIN sync.lines, sync.lines[j].issue = n PROVE FALSE
        OBVIOUS
      <3>1. n # 0
        BY DEF n
      <3>2. n \in Flow!Recorded(sync.lines)
        BY <1>1, <3>1, FlowRecords
      <3> QED BY <2>2, <2>3, <3>2
    <2> QED BY <2>2, <2>3, <2>4
  <1> QED BY <1>3, <1>4

\* A group has one: it is recorded, titled and on the board.
LEMMA FlowTakeMatched ==
  ASSUME FlowInv, Flow!TakeMatched
  PROVE  FlowInv'
  <1> DEFINE i == sync.i
             n == Flow!Matched(sync.lines, i)
             row == [issue[n] EXCEPT !.suffix = i,
                                     !.board = IF issue[n].board = "off" THEN "Todo" ELSE issue[n].board]
             line == [sync.lines[i] EXCEPT !.issue = n]
             new == [sync.lines EXCEPT ![i] = line]
  <1>1. /\ sync.at = "group" /\ i =< Len(sync.lines) /\ UNCHANGED <<parent, tasks, branch>> /\ n # 0
        /\ issue' = [issue EXCEPT ![n].suffix = i, ![n].board = IF @ = "off" THEN "Todo" ELSE @]
        /\ sync' = [sync EXCEPT !.lines[i].issue = n, !.i = @ + 1]
    BY DEF Flow!TakeMatched, Flow!Suffix
  <1>2. sync \in FlowSync /\ sync.lines \in Seq(FlowLine) /\ i \in DOMAIN sync.lines /\ i \in Nat \ {0}
    BY <1>1, FlowSyncIs, FlowTypesAre DEF FlowInv
  <1>3. n \in Flow!Linked /\ \A j \in DOMAIN sync.lines : j < i => sync.lines[j].issue # n
    BY <1>1, <1>2, FlowMatched
  <1> HIDE DEF n
  <1>4. n \in DOMAIN issue /\ n \in Nat /\ issue \in Seq(FlowIssue) /\ issue[n].linked /\ issue[n] \in FlowIssue
    BY <1>3, FlowTypesAre DEF FlowInv, Flow!Linked
  <1>5. issue' = [issue EXCEPT ![n] = row]
    BY <1>1, <1>4
  <1>6. row \in FlowIssue /\ row.linked /\ row.suffix = i /\ row.board # "off"
    <2>1. issue[n].board \in {"off", "Todo", "In Progress", "Done"}
      BY <1>4 DEF FlowIssue
    <2> QED BY <1>2, <1>4, <2>1 DEF FlowIssue
  <1>7. sync.lines[i] \in FlowLine
    BY <1>2
  <1>8. line \in FlowLine /\ line.issue = n
    BY <1>4, <1>7 DEF FlowLine
  <1>9. sync' = [sync EXCEPT !.lines = new, !.i = i + 1]
    BY <1>1, <1>2
  <1> HIDE DEF i, row, line
  <1>10. /\ new \in Seq(FlowLine) /\ Len(new) = Len(sync.lines) /\ DOMAIN new = DOMAIN sync.lines
         /\ new[i] = line /\ \A j \in DOMAIN sync.lines : j # i => new[j] = sync.lines[j]
    BY <1>2, <1>8
  <1> HIDE DEF new
  <1>11. /\ issue' \in Seq(FlowIssue) /\ Len(issue') = Len(issue) /\ DOMAIN issue' = DOMAIN issue
         /\ issue'[n] = row /\ \A k \in DOMAIN issue : k # n => issue'[k] = issue[k]
    BY <1>4, <1>5, <1>6, FlowIssueChanged DEF FlowInv
  <1>12. /\ sync' \in FlowSync /\ sync'.at = "group" /\ sync'.lines = new /\ sync'.i = i + 1
         /\ sync'.linked = sync.linked /\ sync'.tree = sync.tree
    <2>1. i + 1 \in Nat \ {0}
      BY <1>2
    <2> QED BY <1>1, <1>2, <1>9, <1>10, <2>1 DEF FlowSync
  <1>13. Flow!Recorded(new) \subseteq Flow!Recorded(sync.lines) \cup {n}
    BY <1>8, <1>10 DEF Flow!Recorded
  <1>14. FlowTypes'
    BY <1>1, <1>4, <1>11, <1>12, <1>13, FlowTypesNext, FlowTypesAre DEF FlowInv
  <1>15. Flow!Linked' = Flow!Linked
    BY <1>4, <1>6, <1>11 DEF Flow!Linked
  <1>16. \A k \in Flow!Recorded(new) : k \in Flow!Linked
    BY <1>1, <1>3, <1>13 DEF FlowInv, FlowSyncInv
  <1>17. ASSUME NEW j \in DOMAIN new, j < i + 1 PROVE FlowSettledNext(new[j].issue, j)
    <2>1. CASE j = i
      BY <1>4, <1>6, <1>8, <1>10, <1>11, <2>1 DEF FlowSettledNext
    <2>2. CASE j # i
      <3>1. j < i /\ j \in DOMAIN sync.lines /\ new[j] = sync.lines[j]
        BY <1>2, <1>10, <1>17, <2>2
      <3>2. FlowSettled(sync.lines[j].issue, j) /\ sync.lines[j].issue # n
        BY <1>1, <1>3, <3>1 DEF FlowInv, FlowSyncInv, i
      <3>3. sync.lines[j].issue \in DOMAIN issue
        BY <3>2 DEF FlowSettled, Flow!Linked
      <3> QED BY <1>11, <3>1, <3>2, <3>3 DEF FlowSettled, FlowSettledNext, Flow!Linked
    <2> QED BY <2>1, <2>2
  <1>18. Len(tasks[sync.tree]) = Len(sync.lines) /\ sync.linked \subseteq Flow!Linked
    BY <1>1 DEF FlowInv, FlowSyncInv
  <1>20. FlowSyncInv'
    <2>1. sync'.linked \subseteq Flow!Linked' /\ sync'.at = "group"
      BY <1>12, <1>15, <1>18
    <2>2. \A k \in Flow!Recorded(sync'.lines) : k \in Flow!Linked'
      BY <1>12, <1>15, <1>16
    <2>3. \A j \in DOMAIN sync'.lines : j < sync'.i => FlowSettledNext(sync'.lines[j].issue, j)
      BY <1>12, <1>17
    <2>4. Len(tasks'[sync'.tree]) = Len(sync'.lines)
      BY <1>1, <1>10, <1>12, <1>18
    <2> QED BY <2>1, <2>2, <2>3, <2>4, FlowGroupNext
  <1> QED BY <1>14, <1>20 DEF FlowInv

\* A command moves on: its place and its group change.
LEMMA FlowGoto ==
  ASSUME FlowTypes, NEW at \in {"record", "attach", "board", "group", "written"}, NEW i \in Nat \ {0},
         Flow!Goto(at, i)
  PROVE  /\ sync' \in FlowSync /\ sync'.at = at /\ sync'.i = i /\ sync'.tree = sync.tree
         /\ sync'.lines = sync.lines /\ sync'.linked = sync.linked
  <1>1. sync \in FlowSync /\ sync' = [sync EXCEPT !.at = at, !.i = i]
    BY FlowTypesAre DEF Flow!Goto
  <1> QED BY <1>1 DEF FlowSync

\* An issue is created for a group that has none.
LEMMA FlowCreateIssue ==
  ASSUME FlowInv, Flow!CreateIssue
  PROVE  FlowInv'
  <1> DEFINE i == sync.i
             row == [about |-> sync.lines[i].group, suffix |-> i, linked |-> FALSE, open |-> TRUE,
                     board |-> "off"]
  <1>1. /\ sync.at = "group" /\ i =< Len(sync.lines) /\ UNCHANGED <<parent, tasks, branch>>
        /\ issue' = Append(issue, row) /\ Flow!Goto("record", i)
    BY DEF Flow!CreateIssue
  <1>2. i \in DOMAIN sync.lines /\ i \in Nat \ {0} /\ issue \in Seq(FlowIssue) /\ sync.lines \in Seq(FlowLine)
    BY <1>1, FlowSyncIs DEF FlowInv
  <1>3. sync.lines[i] \in FlowLine
    BY <1>2
  <1>4. row \in FlowIssue /\ ~row.linked /\ row.suffix = i
    BY <1>2, <1>3 DEF FlowLine, FlowIssue
  <1>5. /\ sync' \in FlowSync /\ sync'.at = "record" /\ sync'.i = i /\ sync'.tree = sync.tree
        /\ sync'.lines = sync.lines /\ sync'.linked = sync.linked
    BY <1>1, <1>2, FlowGoto DEF FlowInv
  <1> HIDE DEF i, row
  <1>6. /\ issue' \in Seq(FlowIssue) /\ Len(issue') = Len(issue) + 1
        /\ DOMAIN issue \subseteq DOMAIN issue' /\ issue'[Len(issue')] = row /\ Len(issue') # 0
        /\ \A k \in DOMAIN issue : issue'[k] = issue[k]
    BY <1>1, <1>2, <1>4
  <1>7. FlowTypes'
    <2>1. \A u \in Trees : branch'[u] \in 0 .. Len(issue')
      <3> SUFFICES ASSUME NEW u \in Trees PROVE branch'[u] \in 0 .. Len(issue')
        OBVIOUS
      <3>1. branch'[u] \in 0 .. Len(issue) /\ Len(issue) \in Nat
        BY <1>1, <1>2, FlowTypesAre DEF FlowInv
      <3> QED BY <1>6, <3>1
    <2>2. \A u \in Trees : Flow!Recorded(tasks'[u]) \subseteq DOMAIN issue'
      BY <1>1, <1>6, FlowTypesAre DEF FlowInv
    <2>3. Flow!Recorded(sync'.lines) \subseteq DOMAIN issue'
      BY <1>5, <1>6, FlowTypesAre DEF FlowInv
    <2> QED BY <1>1, <1>5, <1>6, <2>1, <2>2, <2>3, FlowTypesNext, FlowTypesAre DEF FlowInv
  <1>8. Flow!Linked \subseteq Flow!Linked'
    BY <1>6 DEF Flow!Linked
  <1>9. FlowSyncInv'
    <2>1. \A n \in Flow!Recorded(sync'.lines) : n \in Flow!Linked'
      BY <1>1, <1>5, <1>8 DEF FlowInv, FlowSyncInv
    <2>2. \A j \in DOMAIN sync'.lines : j < sync'.i => FlowSettledNext(sync'.lines[j].issue, j)
      <3> SUFFICES ASSUME NEW j \in DOMAIN sync.lines, j < i
                   PROVE  FlowSettledNext(sync.lines[j].issue, j)
        BY <1>5
      <3>1. FlowSettled(sync.lines[j].issue, j)
        BY <1>1 DEF FlowInv, FlowSyncInv, i
      <3> QED BY <1>6, <3>1 DEF FlowSettled, FlowSettledNext, Flow!Linked
    <2>3. sync'.linked \subseteq Flow!Linked' /\ Len(tasks'[sync'.tree]) = Len(sync'.lines)
      BY <1>1, <1>5, <1>8 DEF FlowInv, FlowSyncInv
    <2>4. sync'.i \in DOMAIN sync'.lines /\ Len(issue') # 0 /\ issue'[Len(issue')].suffix = sync'.i
          /\ ~issue'[Len(issue')].linked
      BY <1>2, <1>4, <1>5, <1>6
    <2> QED BY <1>5, <2>1, <2>2, <2>3, <2>4, FlowSyncNext
  <1> QED BY <1>7, <1>9 DEF FlowInv

\* The issue is recorded in tasks.md.
LEMMA FlowRecordIssue ==
  ASSUME FlowInv, Flow!RecordIssue
  PROVE  FlowInv'
  <1> DEFINE i == sync.i
             n == Len(issue)
             line == [sync.lines[i] EXCEPT !.issue = n]
             new == [sync.lines EXCEPT ![i] = line]
             kept == [tasks[sync.tree][i] EXCEPT !.issue = n]
             there == [tasks[sync.tree] EXCEPT ![i] = kept]
  <1>1. /\ sync.at = "record" /\ UNCHANGED <<issue, parent, branch>>
        /\ tasks' = [tasks EXCEPT ![sync.tree][i].issue = n]
        /\ sync' = [sync EXCEPT !.at = "attach", !.lines[i].issue = n]
    BY DEF Flow!RecordIssue
  <1>2. /\ sync \in FlowSync /\ sync.lines \in Seq(FlowLine) /\ sync.tree \in Trees
        /\ tasks[sync.tree] \in Seq(FlowLine) /\ issue \in Seq(FlowIssue)
        /\ tasks \in [Trees -> Seq(FlowLine)]
    BY FlowSyncIs, FlowTypesAre DEF FlowInv
  <1>3. /\ i \in DOMAIN sync.lines /\ n # 0 /\ issue[n].suffix = i /\ ~issue[n].linked
        /\ Len(tasks[sync.tree]) = Len(sync.lines)
    BY <1>1 DEF FlowInv, FlowSyncInv
  <1>4. n \in Nat /\ n \in DOMAIN issue
    BY <1>2, <1>3
  <1>5. i \in DOMAIN tasks[sync.tree]
    BY <1>2, <1>3
  <1>6. tasks' = [tasks EXCEPT ![sync.tree] = there]
    BY <1>1, <1>2, <1>5
  <1>7. sync' = [sync EXCEPT !.at = "attach", !.lines = new]
    BY <1>1, <1>2, <1>3
  <1>8. sync.lines[i] \in FlowLine /\ tasks[sync.tree][i] \in FlowLine
    BY <1>2, <1>3, <1>5
  <1>9. line \in FlowLine /\ line.issue = n /\ kept \in FlowLine /\ kept.issue = n
    BY <1>4, <1>8 DEF FlowLine
  <1> HIDE DEF i, n, line, kept
  <1>10. /\ new \in Seq(FlowLine) /\ Len(new) = Len(sync.lines) /\ DOMAIN new = DOMAIN sync.lines
         /\ new[i] = line /\ \A j \in DOMAIN sync.lines : j # i => new[j] = sync.lines[j]
    BY <1>2, <1>3, <1>9
  <1>11. /\ there \in Seq(FlowLine) /\ Len(there) = Len(tasks[sync.tree])
         /\ DOMAIN there = DOMAIN tasks[sync.tree]
         /\ there[i] = kept /\ \A j \in DOMAIN tasks[sync.tree] : j # i => there[j] = tasks[sync.tree][j]
    BY <1>2, <1>5, <1>9
  <1> HIDE DEF new, there
  <1>12. Flow!Recorded(new) \subseteq Flow!Recorded(sync.lines) \cup {n}
    BY <1>9, <1>10 DEF Flow!Recorded
  <1>13. Flow!Recorded(there) \subseteq Flow!Recorded(tasks[sync.tree]) \cup {n}
    BY <1>9, <1>11 DEF Flow!Recorded
  <1>14. /\ sync' \in FlowSync /\ sync'.at = "attach" /\ sync'.lines = new /\ sync'.i = i
         /\ sync'.linked = sync.linked /\ sync'.tree = sync.tree
    BY <1>2, <1>7, <1>10 DEF FlowSync, i
  <1>15. /\ tasks' \in [Trees -> Seq(FlowLine)] /\ tasks'[sync.tree] = there
         /\ \A u \in Trees : u # sync.tree => tasks'[u] = tasks[u]
    BY <1>2, <1>6, <1>11, FlowTasksChanged DEF FlowInv
  <1>16. \A u \in Trees : Flow!Recorded(tasks'[u]) \subseteq DOMAIN issue
    <2> SUFFICES ASSUME NEW u \in Trees PROVE Flow!Recorded(tasks'[u]) \subseteq DOMAIN issue
      OBVIOUS
    <2>1. CASE u = sync.tree
      <3>1. Flow!Recorded(tasks[sync.tree]) \subseteq DOMAIN issue
        BY <1>2, FlowTypesAre DEF FlowInv
      <3> QED BY <1>4, <1>13, <1>15, <2>1, <3>1
    <2>2. CASE u # sync.tree
      BY <1>15, <2>2, FlowTypesAre DEF FlowInv
    <2> QED BY <2>1, <2>2
  <1>17. FlowTypes'
    <2>1. Flow!Recorded(sync'.lines) \subseteq DOMAIN issue
      BY <1>4, <1>12, <1>14, FlowTypesAre DEF FlowInv
    <2> QED BY <1>1, <1>14, <1>15, <1>16, <2>1, FlowTypesNext, FlowTypesAre DEF FlowInv
  <1>18. Flow!Linked' = Flow!Linked
    BY <1>1 DEF Flow!Linked
  <1>19. FlowSyncInv'
    <2>1. \A k \in Flow!Recorded(sync'.lines) : k \in Flow!Linked' \/ (sync'.at = "attach" /\ k = Len(issue'))
      <3> SUFFICES ASSUME NEW k \in Flow!Recorded(new), k # n PROVE k \in Flow!Linked
        BY <1>1, <1>14, <1>18 DEF n
      <3>1. k \in Flow!Recorded(sync.lines)
        BY <1>12
      <3> QED BY <1>1, <3>1 DEF FlowInv, FlowSyncInv
    <2>2. \A j \in DOMAIN sync'.lines : j < sync'.i => FlowSettledNext(sync'.lines[j].issue, j)
      <3> SUFFICES ASSUME NEW j \in DOMAIN sync.lines, j < i
                   PROVE  FlowSettledNext(new[j].issue, j)
        BY <1>10, <1>14
      <3>1. FlowSettled(sync.lines[j].issue, j)
        BY <1>1 DEF FlowInv, FlowSyncInv, i
      <3>2. j # i
        BY <1>2, <1>3
      <3> QED BY <1>1, <1>10, <3>1, <3>2 DEF FlowSettled, FlowSettledNext, Flow!Linked
    <2>3. sync'.linked \subseteq Flow!Linked' /\ Len(tasks'[sync'.tree]) = Len(sync'.lines)
      BY <1>1, <1>3, <1>10, <1>11, <1>14, <1>15, <1>18 DEF FlowInv, FlowSyncInv
    <2>4. sync'.i \in DOMAIN sync'.lines /\ Len(issue') # 0 /\ issue'[Len(issue')].suffix = sync'.i
          /\ sync'.lines[sync'.i].issue = Len(issue')
      BY <1>1, <1>3, <1>9, <1>10, <1>14 DEF n
    <2> QED BY <1>14, <2>1, <2>2, <2>3, <2>4, FlowSyncNext
  <1> QED BY <1>17, <1>19 DEF FlowInv

\* The issue is linked.
LEMMA FlowLinkIssue ==
  ASSUME FlowInv, Flow!LinkIssue
  PROVE  FlowInv'
  <1> DEFINE n == Len(issue)
             row == [issue[n] EXCEPT !.linked = TRUE]
  <1>1. /\ sync.at = "attach" /\ UNCHANGED <<parent, tasks, branch>>
        /\ issue' = [issue EXCEPT ![n].linked = TRUE] /\ Flow!Goto("board", sync.i)
    BY DEF Flow!LinkIssue
  <1>2. /\ issue \in Seq(FlowIssue) /\ sync.lines \in Seq(FlowLine) /\ sync.i \in Nat \ {0}
        /\ sync.i \in DOMAIN sync.lines /\ n # 0 /\ issue[n].suffix = sync.i /\ sync.lines[sync.i].issue = n
        /\ Len(tasks[sync.tree]) = Len(sync.lines) /\ sync.linked \subseteq Flow!Linked
    BY <1>1, FlowSyncIs DEF FlowInv, FlowSyncInv
  <1>3. n \in DOMAIN issue /\ issue[n] \in FlowIssue /\ n \in Nat
    BY <1>2
  <1>4. issue' = [issue EXCEPT ![n] = row]
    BY <1>1, <1>3
  <1>5. row \in FlowIssue /\ row.suffix = sync.i /\ row.linked /\ row.board = issue[n].board
    BY <1>2, <1>3 DEF FlowIssue
  <1>6. /\ sync' \in FlowSync /\ sync'.at = "board" /\ sync'.i = sync.i /\ sync'.tree = sync.tree
        /\ sync'.lines = sync.lines /\ sync'.linked = sync.linked
    <2>1. sync.i \in Nat \ {0}
      BY <1>2
    <2> QED BY <1>1, <2>1, FlowGoto DEF FlowInv
  <1> HIDE DEF n, row
  <1>7. /\ issue' \in Seq(FlowIssue) /\ Len(issue') = Len(issue) /\ DOMAIN issue' = DOMAIN issue
        /\ issue'[n] = row /\ \A k \in DOMAIN issue : k # n => issue'[k] = issue[k]
    BY <1>3, <1>4, <1>5, FlowIssueChanged DEF FlowInv
  <1>8. FlowTypes'
    BY <1>1, <1>6, <1>7, FlowTypesNext, FlowTypesAre DEF FlowInv
  <1>9. Flow!Linked' = Flow!Linked \cup {n}
    BY <1>3, <1>5, <1>7 DEF Flow!Linked
  <1>10. FlowSyncInv'
    <2>1. \A k \in Flow!Recorded(sync'.lines) : k \in Flow!Linked'
      BY <1>1, <1>6, <1>9 DEF FlowInv, FlowSyncInv, n
    <2>2. \A j \in DOMAIN sync'.lines : j < sync'.i => FlowSettledNext(sync'.lines[j].issue, j)
      <3> SUFFICES ASSUME NEW j \in DOMAIN sync.lines, j < sync.i
                   PROVE  FlowSettledNext(sync.lines[j].issue, j)
        BY <1>6
      <3>1. FlowSettled(sync.lines[j].issue, j)
        BY <1>1 DEF FlowInv, FlowSyncInv
      <3>2. sync.lines[j].issue # n
        BY <1>2, <3>1 DEF FlowSettled
      <3> QED BY <1>7, <3>1, <3>2 DEF FlowSettled, FlowSettledNext, Flow!Linked
    <2>3. sync'.linked \subseteq Flow!Linked' /\ Len(tasks'[sync'.tree]) = Len(sync'.lines)
      BY <1>1, <1>2, <1>6, <1>9
    <2>4. sync'.i \in DOMAIN sync'.lines /\ Len(issue') # 0 /\ issue'[Len(issue')].suffix = sync'.i
          /\ sync'.lines[sync'.i].issue = Len(issue')
      BY <1>2, <1>5, <1>6, <1>7 DEF n
    <2> QED BY <1>6, <2>1, <2>2, <2>3, <2>4, FlowSyncNext
  <1> QED BY <1>8, <1>10 DEF FlowInv

\* The issue is put on the board: the group is settled.
LEMMA FlowBoardIssue ==
  ASSUME FlowInv, Flow!BoardIssue
  PROVE  FlowInv'
  <1> DEFINE n == Len(issue)
             row == [issue[n] EXCEPT !.board = "Todo"]
  <1>1. /\ sync.at = "board" /\ UNCHANGED <<parent, tasks, branch>>
        /\ issue' = [issue EXCEPT ![n].board = "Todo"] /\ Flow!Goto("group", sync.i + 1)
    BY DEF Flow!BoardIssue
  <1>2. /\ issue \in Seq(FlowIssue) /\ sync.lines \in Seq(FlowLine) /\ sync.i \in Nat \ {0}
        /\ sync.i \in DOMAIN sync.lines /\ n # 0 /\ issue[n].suffix = sync.i /\ sync.lines[sync.i].issue = n
        /\ Len(tasks[sync.tree]) = Len(sync.lines) /\ sync.linked \subseteq Flow!Linked
    BY <1>1, FlowSyncIs DEF FlowInv, FlowSyncInv
  <1>3. n \in DOMAIN issue /\ issue[n] \in FlowIssue /\ n \in Nat
    BY <1>2
  <1>4. issue' = [issue EXCEPT ![n] = row]
    BY <1>1, <1>3
  <1>5. row \in FlowIssue /\ row.suffix = sync.i /\ row.linked = issue[n].linked /\ row.board = "Todo"
    BY <1>2, <1>3 DEF FlowIssue
  <1>6. /\ sync' \in FlowSync /\ sync'.at = "group" /\ sync'.i = sync.i + 1 /\ sync'.tree = sync.tree
        /\ sync'.lines = sync.lines /\ sync'.linked = sync.linked
    <2>1. sync.i + 1 \in Nat \ {0}
      BY <1>2
    <2> QED BY <1>1, <2>1, FlowGoto DEF FlowInv
  <1> HIDE DEF n, row
  <1>7. /\ issue' \in Seq(FlowIssue) /\ Len(issue') = Len(issue) /\ DOMAIN issue' = DOMAIN issue
        /\ issue'[n] = row /\ \A k \in DOMAIN issue : k # n => issue'[k] = issue[k]
    BY <1>3, <1>4, <1>5, FlowIssueChanged DEF FlowInv
  <1>8. FlowTypes'
    BY <1>1, <1>6, <1>7, FlowTypesNext, FlowTypesAre DEF FlowInv
  <1>9. Flow!Linked' = Flow!Linked
    BY <1>3, <1>5, <1>7 DEF Flow!Linked
  <1>10. n \in Flow!Linked
    <2>1. n \in Flow!Recorded(sync.lines)
      BY <1>2, FlowRecords
    <2> QED BY <1>1, <2>1 DEF FlowInv, FlowSyncInv
  <1>11. FlowSyncInv'
    <2>1. \A k \in Flow!Recorded(sync'.lines) : k \in Flow!Linked'
      BY <1>1, <1>6, <1>9 DEF FlowInv, FlowSyncInv
    <2>2. \A j \in DOMAIN sync'.lines : j < sync'.i => FlowSettledNext(sync'.lines[j].issue, j)
      <3> SUFFICES ASSUME NEW j \in DOMAIN sync.lines, j < sync.i + 1
                   PROVE  FlowSettledNext(sync.lines[j].issue, j)
        BY <1>6
      <3>1. CASE j = sync.i
        BY <1>2, <1>3, <1>5, <1>7, <1>10, <3>1 DEF FlowSettledNext, Flow!Linked
      <3>2. CASE j # sync.i
        <4>1. j < sync.i
          BY <1>2, <3>2
        <4>2. FlowSettled(sync.lines[j].issue, j)
          BY <1>1, <4>1 DEF FlowInv, FlowSyncInv
        <4>3. sync.lines[j].issue # n
          BY <1>2, <3>2, <4>2 DEF FlowSettled
        <4> QED BY <1>7, <4>2, <4>3 DEF FlowSettled, FlowSettledNext, Flow!Linked
      <3> QED BY <3>1, <3>2
    <2>3. sync'.linked \subseteq Flow!Linked' /\ Len(tasks'[sync'.tree]) = Len(sync'.lines)
      BY <1>1, <1>2, <1>6, <1>9
    <2> QED BY <1>6, <2>1, <2>2, <2>3, FlowGroupNext
  <1> QED BY <1>8, <1>11 DEF FlowInv

\* tasks.md is written, with every group settled.
LEMMA FlowWriteTasks ==
  ASSUME FlowInv, Flow!WriteTasks
  PROVE  FlowInv'
  <1>1. /\ sync.at = "group" /\ sync.i > Len(sync.lines) /\ UNCHANGED <<issue, parent, branch>>
        /\ tasks' = [tasks EXCEPT ![sync.tree] = sync.lines] /\ Flow!Goto("written", 1)
    BY DEF Flow!WriteTasks
  <1>2. sync.lines \in Seq(FlowLine) /\ sync.tree \in Trees /\ sync.i \in Nat /\ 1 \in Nat \ {0}
        /\ sync.linked \subseteq Flow!Linked
    BY FlowSyncIs DEF FlowInv, FlowSyncInv
  <1>3. /\ sync' \in FlowSync /\ sync'.at = "written" /\ sync'.tree = sync.tree
        /\ sync'.lines = sync.lines /\ sync'.linked = sync.linked
    BY <1>1, <1>2, FlowGoto DEF FlowInv
  <1>4. /\ tasks' \in [Trees -> Seq(FlowLine)] /\ tasks'[sync.tree] = sync.lines
        /\ \A u \in Trees : u # sync.tree => tasks'[u] = tasks[u]
    BY <1>1, <1>2, FlowTasksChanged DEF FlowInv
  <1>5. \A u \in Trees : Flow!Recorded(tasks'[u]) \subseteq DOMAIN issue
    <2> SUFFICES ASSUME NEW u \in Trees PROVE Flow!Recorded(tasks'[u]) \subseteq DOMAIN issue
      OBVIOUS
    <2>1. CASE u = sync.tree
      BY <1>4, <2>1, FlowTypesAre DEF FlowInv
    <2>2. CASE u # sync.tree
      BY <1>4, <2>2, FlowTypesAre DEF FlowInv
    <2> QED BY <2>1, <2>2
  <1>6. FlowTypes'
    BY <1>1, <1>3, <1>4, <1>5, FlowTypesNext, FlowTypesAre DEF FlowInv
  <1>7. \A j \in DOMAIN sync'.lines : FlowSettledNext(sync'.lines[j].issue, j)
    <2> SUFFICES ASSUME NEW j \in DOMAIN sync.lines PROVE FlowSettledNext(sync.lines[j].issue, j)
      BY <1>3
    <2>1. j < sync.i
      BY <1>1, <1>2
    <2>2. FlowSettled(sync.lines[j].issue, j)
      BY <1>1, <2>1 DEF FlowInv, FlowSyncInv
    <2> QED BY <1>1, <2>2 DEF FlowSettled, FlowSettledNext, Flow!Linked
  <1>8. Flow!Linked' = Flow!Linked
    BY <1>1 DEF Flow!Linked
  <1>9. FlowSyncInv'
    <2>1. sync'.linked \subseteq Flow!Linked' /\ tasks'[sync'.tree] = sync'.lines
      BY <1>2, <1>3, <1>4, <1>8
    <2> QED BY <1>3, <1>7, <2>1, FlowSyncNext
  <1> QED BY <1>6, <1>9 DEF FlowInv

\* A command ends or dies: nothing is left of it but what it did.
LEMMA FlowEnd ==
  ASSUME Flow!FlowAssumption, FlowInv, Flow!EndSync \/ Flow!Die
  PROVE  FlowInv'
  <1>1. sync' = Flow!Idle /\ UNCHANGED <<issue, parent, tasks, branch>>
    BY DEF Flow!EndSync, Flow!Die
  <1>2. <<>> \in Seq(FlowLine)
    OBVIOUS
  <1>3. sync' \in FlowSync /\ sync'.at = "idle" /\ sync'.lines = <<>> /\ sync'.linked = {}
    BY <1>1, <1>2 DEF Flow!Idle, FlowSync, Flow!FlowAssumption
  <1>4. Flow!Recorded(sync'.lines) = {}
    <2>1. DOMAIN sync'.lines = {}
      BY <1>3
    <2> QED BY <2>1 DEF Flow!Recorded
  <1>5. FlowTypes'
    BY <1>1, <1>3, <1>4, FlowTypesNext, FlowTypesAre DEF FlowInv
  <1>6. FlowSyncInv'
    BY <1>3, FlowSyncNext
  <1> QED BY <1>5, <1>6 DEF FlowInv

\* The invariant holds after every step.
LEMMA FlowInvStep ==
  ASSUME Flow!FlowAssumption, FlowInv, [Flow!Next]_(Flow!flowVars)
  PROVE  FlowInv'
  <1>1. CASE UNCHANGED Flow!flowVars
    <2>1. UNCHANGED <<issue, parent, tasks, sync, branch>>
      BY <1>1 DEF Flow!flowVars
    <2>2. FlowTypes'
      BY <2>1, FlowTypesNext, FlowTypesAre DEF FlowInv
    <2>3. FlowSyncInv'
      BY <2>1 DEF FlowInv, FlowSyncInv, FlowSettled, Flow!Linked, Flow!Recorded
    <2> QED BY <2>2, <2>3 DEF FlowInv
  <1>2. CASE Flow!Next
    BY <1>2, FlowEditTasks, FlowBranch, FlowFinish, FlowStartSync, FlowStartGroup, FlowParent,
       FlowLinkRecorded, FlowTakeMatched, FlowCreateIssue, FlowRecordIssue, FlowLinkIssue,
       FlowBoardIssue, FlowWriteTasks, FlowEnd DEF Flow!Next
  <1> QED BY <1>1, <1>2

\* It says what the type invariant says, and that a sync that is done has tracked every group.
LEMMA FlowInvImplies ==
  ASSUME FlowInv
  PROVE  Flow!TypeOK /\ Flow!Tracked
  <1>1. Flow!TypeOK
    <2>1. \A n \in DOMAIN issue : issue[n] \in FlowIssue
      BY FlowTypesAre DEF FlowInv
    <2>2. \A n \in DOMAIN issue : issue[n].board \in {"off", "Todo", "In Progress", "Done"}
      BY <2>1 DEF FlowIssue
    <2> QED BY <2>2, FlowTypesAre, FlowSyncIs DEF FlowInv, Flow!TypeOK
  <1>2. ASSUME sync.at = "written" PROVE Flow!Tracked
    <2>1. tasks[sync.tree] = sync.lines /\ \A j \in DOMAIN sync.lines : FlowSettled(sync.lines[j].issue, j)
      BY <1>2 DEF FlowInv, FlowSyncInv
    <2> DEFINE given == [i \in DOMAIN sync.lines |-> sync.lines[i].issue]
    <2>2. Flow!IsInjective(given)
      BY <2>1 DEF Flow!IsInjective, FlowSettled
    <2> HIDE DEF given
    <2> QED BY <2>1, <2>2 DEF Flow!Tracked, FlowSettled, given
  <1> QED BY <1>1, <1>2 DEF Flow!Tracked
-----------------------------------------------------------------------------
(* What an uploaded workbook must pass (WorkbookLimits).                   *)

LimitsReasons ==
  {"none", "invalid_workbook", "max_rows", "max_columns", "max_cells"}
LimitsAt == [row : Int, column : Int, cells : Int, reason : LimitsReasons]
LimitsStart == [row |-> 0, column |-> 0, cells |-> 0, reason |-> "none"]
LimitsElement == [tag : {"row", "c", "mergeCell"}, from : Int \X Int, to : Int \X Int]

\* A new row in it.
LEMMA LimitsAtRow ==
  ASSUME NEW at \in LimitsAt, NEW r \in Int, NEW c \in Int
  PROVE  [[at EXCEPT !.row = r] EXCEPT !.column = c]
           = [row |-> r, column |-> c, cells |-> at.cells, reason |-> at.reason]
  <1>1. PICK r0 \in Int, c0 \in Int, n0 \in Int, w0 \in LimitsReasons :
          at = [row |-> r0, column |-> c0, cells |-> n0, reason |-> w0]
    BY DEF LimitsAt
  <1>2. at.row = r0 /\ at.column = c0 /\ at.cells = n0 /\ at.reason = w0
    BY <1>1
  <1> DEFINE b == [at EXCEPT !.row = r]
  <1>3. b = [row |-> r, column |-> c0, cells |-> n0, reason |-> w0]
    BY <1>1
  <1> HIDE DEF b
  <1>4. [b EXCEPT !.column = c] = [row |-> r, column |-> c, cells |-> n0, reason |-> w0]
    BY <1>3
  <1> QED BY <1>2, <1>4 DEF b

\* A new cell in it.
LEMMA LimitsAtCell ==
  ASSUME NEW at \in LimitsAt, NEW c \in Int, NEW n \in Int, NEW w \in LimitsReasons
  PROVE  [[[at EXCEPT !.column = c] EXCEPT !.cells = n] EXCEPT !.reason = w]
           = [row |-> at.row, column |-> c, cells |-> n, reason |-> w]
  <1>1. PICK r0 \in Int, c0 \in Int, n0 \in Int, w0 \in LimitsReasons :
          at = [row |-> r0, column |-> c0, cells |-> n0, reason |-> w0]
    BY DEF LimitsAt
  <1>2. at.row = r0 /\ at.column = c0 /\ at.cells = n0 /\ at.reason = w0
    BY <1>1
  <1> DEFINE b == [at EXCEPT !.column = c]
             d == [b EXCEPT !.cells = n]
  <1>3. b = [row |-> r0, column |-> c, cells |-> n0, reason |-> w0]
    BY <1>1
  <1> HIDE DEF b
  <1>4. d = [row |-> r0, column |-> c, cells |-> n, reason |-> w0]
    BY <1>3
  <1> HIDE DEF d
  <1>5. [d EXCEPT !.reason = w] = [row |-> r0, column |-> c, cells |-> n, reason |-> w]
    BY <1>4
  <1> QED BY <1>2, <1>5 DEF b, d

\* A new range in it.
LEMMA LimitsAtRange ==
  ASSUME NEW at \in LimitsAt, NEW n \in Int, NEW w \in LimitsReasons
  PROVE  [[at EXCEPT !.reason = w] EXCEPT !.cells = n]
           = [row |-> at.row, column |-> at.column, cells |-> n, reason |-> w]
  <1>1. PICK r0 \in Int, c0 \in Int, n0 \in Int, w0 \in LimitsReasons :
          at = [row |-> r0, column |-> c0, cells |-> n0, reason |-> w0]
    BY DEF LimitsAt
  <1>2. at.row = r0 /\ at.column = c0 /\ at.cells = n0 /\ at.reason = w0
    BY <1>1
  <1> DEFINE b == [at EXCEPT !.reason = w]
  <1>3. b = [row |-> r0, column |-> c0, cells |-> n0, reason |-> w]
    BY <1>1
  <1> HIDE DEF b
  <1>4. [b EXCEPT !.cells = n] = [row |-> r0, column |-> c0, cells |-> n, reason |-> w]
    BY <1>3
  <1> QED BY <1>2, <1>4 DEF b

\* A place is refused for one of four reasons, or in the grid.
LEMMA LimitsCoordinate ==
  ASSUME Limits!LimitsAssumption, NEW row \in Int, NEW column \in Int
  PROVE  /\ Limits!Coordinate(row, column) \in LimitsReasons
         /\ Limits!Coordinate(row, column) = "none" => row \in 1 .. MaxRows /\ column \in 1 .. MaxColumns
  BY DEF Limits!LimitsAssumption, Limits!Coordinate, LimitsReasons

\* What merged cells take is a number, and no less than one when the range is not the wrong
\* way round.
LEMMA LimitsSpanned ==
  ASSUME NEW e \in LimitsElement
  PROVE  /\ Limits!Spanned(e) \in Int
         /\ e.from[1] =< e.to[1] /\ e.from[2] =< e.to[2] => Limits!Spanned(e) >= 0
  <1>1. e.from[1] \in Int /\ e.from[2] \in Int /\ e.to[1] \in Int /\ e.to[2] \in Int
    BY DEF LimitsElement
  <1> DEFINE a == e.to[1] - e.from[1] + 1
             b == e.to[2] - e.from[2] + 1
  <1>2. a \in Int /\ b \in Int /\ (e.from[1] =< e.to[1] => a >= 1) /\ (e.from[2] =< e.to[2] => b >= 1)
    BY <1>1
  <1>3. Limits!Spanned(e) = a * b
    BY DEF Limits!Spanned
  <1> HIDE DEF a, b
  <1>4. a >= 1 /\ b >= 1 => a * b >= 0
    BY <1>2
  <1>5. a * b \in Int
    BY <1>2
  <1> QED BY <1>2, <1>3, <1>4, <1>5

\* A workbook that was refused stays so.
LEMMA LimitsScanOver ==
  ASSUME NEW at \in LimitsAt, NEW e \in LimitsElement, at.reason # "none"
  PROVE  Limits!Scan(at, e) = at
  BY DEF Limits!Scan

\* A row is never refused.
LEMMA LimitsScanRow ==
  ASSUME NEW at \in LimitsAt, NEW e \in LimitsElement, at.reason = "none", e.tag = "row",
         at.cells =< MaxCells, Limits!LimitsAssumption
  PROVE  Limits!Scan(at, e) = [row |-> IF e.from[1] = 0 THEN at.row + 1 ELSE e.from[1],
                               column |-> 0, cells |-> at.cells, reason |-> "none"]
  <1> DEFINE r == IF e.from[1] = 0 THEN at.row + 1 ELSE e.from[1]
             next == Limits!RowStarted(at, e)
  <1>1. next = [[at EXCEPT !.row = r] EXCEPT !.column = 0]
    BY DEF Limits!RowStarted
  <1>2. at = [row |-> at.row, column |-> at.column, cells |-> at.cells, reason |-> "none"]
    BY DEF LimitsAt
  <1>3. next = [row |-> r, column |-> 0, cells |-> at.cells, reason |-> "none"]
    <2> HIDE DEF next, r
    <2> QED BY <1>1, <1>2
  <1>4. at.cells \in Int /\ MaxCells \in Int
    BY DEF LimitsAt, Limits!LimitsAssumption
  <1>5. ~(next.reason = "none" /\ next.cells > MaxCells)
    <2> HIDE DEF next
    <2> QED BY <1>3, <1>4
  <1>6. Limits!Scan(at, e) = next
    BY <1>5 DEF Limits!Scan
  <1> QED BY <1>3, <1>6

\* A cell is where Coordinate takes it to be.
LEMMA LimitsScanCell ==
  ASSUME NEW at \in LimitsAt, NEW e \in LimitsElement, at.reason = "none", e.tag = "c",
         Limits!LimitsAssumption
  PROVE  /\ Limits!Scan(at, e) \in LimitsAt
         /\ Limits!Scan(at, e).reason = "none" =>
              /\ Limits!Scan(at, e) = [row |-> at.row, column |-> Limits!CellAt(at, e)[2],
                                      cells |-> at.cells + 1, reason |-> "none"]
              /\ at.cells + 1 =< MaxCells
              /\ Limits!CellAt(at, e)[1] \in 1 .. MaxRows /\ Limits!CellAt(at, e)[2] \in 1 .. MaxColumns
  <1> DEFINE cell == Limits!CellAt(at, e)
             verdict == Limits!Coordinate(cell[1], cell[2])
             next == [[[at EXCEPT !.column = cell[2]] EXCEPT !.cells = at.cells + 1] EXCEPT !.reason = verdict]
             over == next.reason = "none" /\ next.cells > MaxCells
  <1>1. cell[1] \in Int /\ cell[2] \in Int
    BY DEF Limits!CellAt, LimitsAt, LimitsElement
  <1>2. /\ verdict \in LimitsReasons
        /\ verdict = "none" => cell[1] \in 1 .. MaxRows /\ cell[2] \in 1 .. MaxColumns
    BY <1>1, LimitsCoordinate
  <1>3. Limits!Scan(at, e) = IF over THEN [next EXCEPT !.reason = "max_cells"] ELSE next
    BY DEF Limits!Scan
  <1>4. /\ at = [row |-> at.row, column |-> at.column, cells |-> at.cells, reason |-> "none"]
        /\ at.row \in Int /\ at.cells \in Int /\ MaxCells \in Int
    BY DEF LimitsAt, Limits!LimitsAssumption
  <1>5. next = [row |-> at.row, column |-> cell[2], cells |-> at.cells + 1, reason |-> verdict]
    <2>1. cell[2] \in Int /\ verdict \in LimitsReasons /\ at.cells + 1 \in Int
      BY <1>1, <1>2, <1>4
    <2> HIDE DEF verdict, cell
    <2>2. next = [row |-> at.row, column |-> cell[2], cells |-> at.cells + 1, reason |-> verdict]
      BY Zenon, <2>1, LimitsAtCell DEF next
    <2> QED BY <2>2
  <1> HIDE DEF next, cell, verdict
  <1>6. over <=> verdict = "none" /\ at.cells + 1 > MaxCells
    BY <1>5
  <1>7. over => [next EXCEPT !.reason = "max_cells"]
                  = [row |-> at.row, column |-> cell[2], cells |-> at.cells + 1, reason |-> "max_cells"]
    BY <1>5
  <1> HIDE DEF over
  <1>8. Limits!Scan(at, e) \in LimitsAt
    <2>1. CASE over
      BY <1>1, <1>3, <1>4, <1>7, <2>1 DEF LimitsAt, LimitsReasons
    <2>2. CASE ~over
      BY <1>1, <1>2, <1>3, <1>4, <1>5, <2>2 DEF LimitsAt
    <2> QED BY <2>1, <2>2
  <1>9. ASSUME Limits!Scan(at, e).reason = "none" PROVE ~over /\ verdict = "none" /\ at.cells + 1 =< MaxCells
    <2>1. ~over
      BY <1>3, <1>7, <1>9
    <2>2. verdict = "none"
      BY <1>3, <1>5, <1>9, <2>1
    <2> QED BY <1>4, <1>6, <2>1, <2>2
  <1> QED BY <1>2, <1>3, <1>5, <1>8, <1>9 DEF cell

\* A range is within the grid, the right way round, and its cells are counted.
LEMMA LimitsScanRange ==
  ASSUME NEW at \in LimitsAt, NEW e \in LimitsElement, at.reason = "none", e.tag = "mergeCell",
         Limits!LimitsAssumption
  PROVE  /\ Limits!Scan(at, e) \in LimitsAt
         /\ Limits!Scan(at, e).reason = "none" =>
              /\ Limits!Scan(at, e) = [row |-> at.row, column |-> at.column,
                                      cells |-> at.cells + Limits!Spanned(e), reason |-> "none"]
              /\ at.cells + Limits!Spanned(e) =< MaxCells /\ Limits!Spanned(e) >= 0
              /\ e.to[1] =< MaxRows /\ e.to[2] =< MaxColumns
  <1> DEFINE first == Limits!Coordinate(e.from[1], e.from[2])
             last == Limits!Coordinate(e.to[1], e.to[2])
             wrong == e.from[1] > e.to[1] \/ e.from[2] > e.to[2]
             verdict == IF first # "none" THEN first ELSE IF last # "none" THEN last
                        ELSE IF wrong THEN "invalid_workbook" ELSE "none"
             spanned == Limits!Spanned(e)
             next == [[at EXCEPT !.reason = verdict] EXCEPT !.cells = at.cells + spanned]
             over == next.reason = "none" /\ next.cells > MaxCells
  <1>1. e.from[1] \in Int /\ e.from[2] \in Int /\ e.to[1] \in Int /\ e.to[2] \in Int
    BY DEF LimitsElement
  <1>2. /\ first \in LimitsReasons /\ last \in LimitsReasons
        /\ last = "none" => e.to[1] \in 1 .. MaxRows /\ e.to[2] \in 1 .. MaxColumns
    BY <1>1, LimitsCoordinate
  <1>3. spanned \in Int /\ (~wrong => spanned >= 0)
    BY <1>1, LimitsSpanned
  <1>4. Limits!Scan(at, e) = IF over THEN [next EXCEPT !.reason = "max_cells"] ELSE next
    BY DEF Limits!Scan
  <1>5. /\ at = [row |-> at.row, column |-> at.column, cells |-> at.cells, reason |-> "none"]
        /\ at.row \in Int /\ at.column \in Int /\ at.cells \in Int
        /\ MaxCells \in Int /\ MaxRows \in Int /\ MaxColumns \in Int
    BY DEF LimitsAt, Limits!LimitsAssumption
  <1> HIDE DEF spanned, first, last
  <1>6. verdict \in LimitsReasons /\ (verdict = "none" => last = "none" /\ ~wrong)
    BY <1>2 DEF LimitsReasons
  <1>7. next = [row |-> at.row, column |-> at.column, cells |-> at.cells + spanned, reason |-> verdict]
    <2>1. verdict \in LimitsReasons /\ at.cells + spanned \in Int
      BY <1>3, <1>5, <1>6
    <2> HIDE DEF verdict
    <2>2. next = [row |-> at.row, column |-> at.column, cells |-> at.cells + spanned, reason |-> verdict]
      BY Zenon, <2>1, LimitsAtRange DEF next
    <2> QED BY <2>2
  <1> HIDE DEF next, verdict
  <1>8. over <=> verdict = "none" /\ at.cells + spanned > MaxCells
    BY <1>7
  <1>9. over => [next EXCEPT !.reason = "max_cells"]
                  = [row |-> at.row, column |-> at.column, cells |-> at.cells + spanned, reason |-> "max_cells"]
    BY <1>7
  <1> HIDE DEF over
  <1>10. Limits!Scan(at, e) \in LimitsAt
    <2>1. CASE over
      BY <1>3, <1>4, <1>5, <1>9, <2>1 DEF LimitsAt, LimitsReasons
    <2>2. CASE ~over
      BY <1>3, <1>4, <1>5, <1>6, <1>7, <2>2 DEF LimitsAt
    <2> QED BY <2>1, <2>2
  <1>11. ASSUME Limits!Scan(at, e).reason = "none"
         PROVE  ~over /\ verdict = "none" /\ at.cells + spanned =< MaxCells
    <2>1. ~over
      BY <1>4, <1>9, <1>11
    <2>2. verdict = "none"
      BY <1>4, <1>7, <1>11, <2>1
    <2> QED BY <1>3, <1>5, <1>8, <2>1, <2>2
  <1>12. Limits!Scan(at, e).reason = "none" =>
           /\ e.to[1] =< MaxRows /\ e.to[2] =< MaxColumns /\ spanned >= 0
    <2>1. verdict = "none" => e.to[1] =< MaxRows /\ e.to[2] =< MaxColumns /\ spanned >= 0
      BY <1>1, <1>2, <1>3, <1>5, <1>6
    <2> QED BY <1>11, <2>1
  <1> QED BY <1>4, <1>7, <1>10, <1>11, <1>12 DEF spanned

\* What is known of the elements so far stays of its type.
LEMMA LimitsScanType ==
  ASSUME Limits!LimitsAssumption, NEW at \in LimitsAt, NEW e \in LimitsElement
  PROVE  Limits!Scan(at, e) \in LimitsAt
  <1>1. CASE at.reason # "none"
    BY <1>1, LimitsScanOver
  <1>2. CASE at.reason = "none" /\ e.tag = "c"
    BY <1>2, LimitsScanCell
  <1>3. CASE at.reason = "none" /\ e.tag = "mergeCell"
    BY <1>3, LimitsScanRange
  <1>4. CASE at.reason = "none" /\ e.tag = "row"
    <2> DEFINE r == IF e.from[1] = 0 THEN at.row + 1 ELSE e.from[1]
               next == Limits!RowStarted(at, e)
    <2>1. next = [[at EXCEPT !.row = r] EXCEPT !.column = 0]
      BY DEF Limits!RowStarted
    <2>2. /\ at = [row |-> at.row, column |-> at.column, cells |-> at.cells, reason |-> "none"]
          /\ at.cells \in Int /\ r \in Int
      BY <1>4 DEF LimitsAt, LimitsElement
    <2>3. next = [row |-> r, column |-> 0, cells |-> at.cells, reason |-> "none"]
      <3>1. r \in Int /\ 0 \in Int
        BY <2>2
      <3> HIDE DEF next, r
      <3>2. [[at EXCEPT !.row = r] EXCEPT !.column = 0]
              = [row |-> r, column |-> 0, cells |-> at.cells, reason |-> at.reason]
        BY Zenon, <3>1, LimitsAtRow
      <3> QED BY Zenon, <1>4, <2>1, <3>2
    <2>4. Limits!Scan(at, e) = IF next.reason = "none" /\ next.cells > MaxCells
                               THEN [next EXCEPT !.reason = "max_cells"] ELSE next
      BY <1>4 DEF Limits!Scan
    <2> HIDE DEF next, r
    <2>5. next \in LimitsAt /\ [next EXCEPT !.reason = "max_cells"] \in LimitsAt
      BY <2>2, <2>3 DEF LimitsAt, LimitsReasons
    <2> QED BY <2>4, <2>5
  <1> QED BY <1>1, <1>2, <1>3, <1>4 DEF LimitsElement

\* What the pass over the elements ends in.
LimitsFolds(it, es) ==
  it = [s \in SUBSET DOMAIN es |->
          IF s = {} THEN LimitsStart ELSE Limits!Scan(it[s \ {Last(s)}], es[Last(s)])]
LimitsExtents(es) == (CHOOSE it : LimitsFolds(it, es))[DOMAIN es].reason

\* That is its verdict.
LEMMA LimitsExtentsShown == Limits!SheetExtents = LimitsExtents(elements)
  BY Zenon DEF Limits!SheetExtents, Limits!FoldLeft, Limits!MapThenFoldSet, Limits!Max, LimitsExtents,
       LimitsFolds, LimitsStart, Last

\* After element k the pass is where its one step from where it was after k - 1 leads.
LEMMA LimitsPass ==
  ASSUME Limits!LimitsAssumption, NEW es \in Seq(LimitsElement)
  PROVE  \E at \in [0 .. Len(es) -> LimitsAt] :
           /\ at[0] = LimitsStart /\ at[Len(es)].reason = LimitsExtents(es)
           /\ \A k \in 1 .. Len(es) : at[k] = Limits!Scan(at[k - 1], es[k])
  <1> DEFINE n == Len(es)
             g == [p \in LimitsAt \X (1 .. n) |-> Limits!Scan(p[1], es[p[2]])]
             S == SUBSET (1 .. n)
  <1>1. n \in Nat /\ DOMAIN es = 1 .. n /\ \A k \in 1 .. n : es[k] \in LimitsElement
    OBVIOUS
  <1>2. \A v \in LimitsAt : \A k \in 1 .. n : g[<<v, k>>] = Limits!Scan(v, es[k]) /\ g[<<v, k>>] \in LimitsAt
    <2> SUFFICES ASSUME NEW v \in LimitsAt, NEW k \in 1 .. n
                 PROVE  g[<<v, k>>] = Limits!Scan(v, es[k]) /\ g[<<v, k>>] \in LimitsAt
      OBVIOUS
    <2>1. es[k] \in LimitsElement
      BY <1>1
    <2>2. g[<<v, k>>] = Limits!Scan(v, es[k])
      OBVIOUS
    <2> HIDE DEF g
    <2> QED BY <2>1, <2>2, LimitsScanType
  <1>3. LimitsStart \in LimitsAt
    BY DEF LimitsStart, LimitsAt, LimitsReasons
  <1> HIDE DEF g, n
  <1>stays. FoldStays(LimitsAt, g, n)
    BY <1>2 DEF FoldStays
  <1>4. PICK it \in [S -> LimitsAt] : IsFold(it, g, LimitsStart, n)
    BY <1>1, <1>stays, <1>3, FoldIsThere
  <1>5. \A s \in S : s # {} => Last(s) \in 1 .. n /\ s \ {Last(s)} \in S
    BY <1>1, LastOf
  <1>6. \A s \in S : FoldStep(it, g, LimitsStart, s)
                       = IF s = {} THEN LimitsStart ELSE Limits!Scan(it[s \ {Last(s)}], es[Last(s)])
    BY <1>2, <1>4, <1>5 DEF FoldStep
  <1>7. LimitsFolds(it, es)
    <2>1. it = [s \in S |-> FoldStep(it, g, LimitsStart, s)]
      BY <1>4 DEF IsFold
    <2>2. it = [s \in S |-> IF s = {} THEN LimitsStart ELSE Limits!Scan(it[s \ {Last(s)}], es[Last(s)])]
      BY <1>6, <2>1
    <2> QED BY <1>1, <2>2 DEF LimitsFolds
  <1> DEFINE jt == CHOOSE j : LimitsFolds(j, es)
  <1>8. LimitsFolds(jt, es)
    BY <1>7
  <1>9. LimitsExtents(es) = jt[DOMAIN es].reason
    BY DEF LimitsExtents
  <1> HIDE DEF jt
  <1>10. \A s \in S : jt[s] = IF s = {} THEN LimitsStart ELSE Limits!Scan(jt[s \ {Last(s)}], es[Last(s)])
    <2> DEFINE ft == [s \in S |-> IF s = {} THEN LimitsStart
                                  ELSE Limits!Scan(jt[s \ {Last(s)}], es[Last(s)])]
    <2>1. jt = ft
      BY Zenon, <1>1, <1>8 DEF LimitsFolds
    <2>2. \A s \in S : ft[s] = IF s = {} THEN LimitsStart
                               ELSE Limits!Scan(jt[s \ {Last(s)}], es[Last(s)])
      OBVIOUS
    <2> HIDE DEF ft
    <2> QED BY <2>1, <2>2
  <1>11. jt[{}] = LimitsStart
    BY <1>10
  <1>12. \A s \in S : s # {} /\ jt[s \ {Last(s)}] \in LimitsAt => jt[s] = g[<<jt[s \ {Last(s)}], Last(s)>>]
    BY <1>2, <1>5, <1>10
  <1>13. PICK at \in [0 .. n -> LimitsAt] :
           at[0] = LimitsStart /\ at[n] = jt[1 .. n] /\ \A k \in 1 .. n : at[k] = g[<<at[k - 1], k>>]
    <2>1. n \in Nat
      BY <1>1
    <2>2. FoldFollows(jt, LimitsAt, g, n)
      BY Zenon, <1>12 DEF FoldFollows
    <2>3. \E at \in [0 .. n -> LimitsAt] : FoldPasses(at, g, LimitsStart, jt[1 .. n], n)
      BY Zenon, <1>3, <1>11, <1>stays, <2>1, <2>2, FoldPass
    <2> QED BY Zenon, <2>3 DEF FoldPasses
  <1>14. \A k \in 1 .. n : at[k] = Limits!Scan(at[k - 1], es[k])
    <2>1. \A k \in 1 .. n : k - 1 \in 0 .. n
      BY <1>1
    <2> QED BY <1>2, <1>13, <2>1
  <1> QED BY <1>1, <1>9, <1>13, <1>14 DEF n

-----------------------------------------------------------------------------
(* Where the reader puts a cell.                                           *)

\* The row before an element, 0 for none, is before it.
LEMMA LimitsRowBefore ==
  ASSUME NEW i \in Nat \ {0}
  PROVE  /\ Limits!RowBefore(i) \in 0 .. i - 1
         /\ Limits!RowBefore(i) # 0 => elements[Limits!RowBefore(i)].tag = "row"
         /\ \A j \in 1 .. i - 1 : elements[j].tag = "row" => j =< Limits!RowBefore(i)
  <1>1. CASE Limits!Before(i) = {}
    <2>1. Limits!RowBefore(i) = 0
      BY <1>1 DEF Limits!RowBefore
    <2> QED BY <1>1, <2>1 DEF Limits!Before
  <1>2. CASE Limits!Before(i) # {}
    <2>1. Limits!Before(i) \in SUBSET (1 .. i)
      BY DEF Limits!Before
    <2>2. /\ Last(Limits!Before(i)) \in Limits!Before(i)
          /\ \A k \in Limits!Before(i) : Last(Limits!Before(i)) >= k
      BY <1>2, <2>1, LastOf
    <2>3. \E j \in Limits!Before(i) : \A k \in Limits!Before(i) : k =< j
      <3>1. Limits!Before(i) \subseteq Int
        BY DEF Limits!Before
      <3> QED BY <2>2, <3>1
    <2> DEFINE r == CHOOSE j \in Limits!Before(i) : \A k \in Limits!Before(i) : k =< j
    <2>4. r \in Limits!Before(i) /\ \A k \in Limits!Before(i) : k =< r
      BY <2>3
    <2>5. Limits!RowBefore(i) = r
      BY <1>2 DEF Limits!RowBefore
    <2> HIDE DEF r
    <2> QED BY <2>4, <2>5 DEF Limits!Before
  <1> QED BY <1>1, <1>2

\* The numbers the reader gives rows.
LimitsRowOf(f, n) ==
  IF n = 0 THEN 0
  ELSE IF elements[n].from[1] # 0 THEN elements[n].from[1] ELSE f[Limits!RowBefore(n)] + 1
LimitsNumbers(f) ==
  f = [n \in 0 .. MaxElements |->
         IF n = 0 THEN 0
         ELSE IF elements[n].from[1] # 0 THEN elements[n].from[1] ELSE f[Limits!RowBefore(n)] + 1]

\* A row has the number it states, or the next after the row before it.
LEMMA LimitsRowNumber ==
  ASSUME Limits!LimitsAssumption
  PROVE  \A n \in 0 .. MaxElements : Limits!RowNumber[n] = LimitsRowOf(Limits!RowNumber, n)
  <1> DEFINE N == 0 .. MaxElements
             Upto(f, k) == \A n \in N : n =< k => f[n] = LimitsRowOf(f, n)
             Good == {k \in Nat : \E f : Upto(f, k)}
  <1>1. MaxElements \in Nat
    BY DEF Limits!LimitsAssumption
  <1>2. \A n \in N : n # 0 => Limits!RowBefore(n) \in N /\ Limits!RowBefore(n) < n
    <2> SUFFICES ASSUME NEW n \in N, n # 0 PROVE Limits!RowBefore(n) \in N /\ Limits!RowBefore(n) < n
      OBVIOUS
    <2>1. n \in Nat \ {0} /\ n =< MaxElements
      BY <1>1
    <2>2. Limits!RowBefore(n) \in 0 .. n - 1
      BY <2>1, LimitsRowBefore
    <2> QED BY <1>1, <2>1, <2>2
  <1>3. ASSUME NEW f, NEW k \in Nat, Upto(f, k)
        PROVE  LET next == [n \in N |-> LimitsRowOf(f, n)]
               IN  /\ \A n \in N : n =< k => next[n] = f[n]
                   /\ Upto(next, k + 1)
    <2> DEFINE next == [n \in N |-> LimitsRowOf(f, n)]
    <2>1. \A n \in N : next[n] = LimitsRowOf(f, n)
      OBVIOUS
    <2> HIDE DEF next
    <2>2. \A n \in N : n =< k => next[n] = f[n]
      BY <1>3, <2>1
    <2>3. ASSUME NEW n \in N, n =< k + 1 PROVE next[n] = LimitsRowOf(next, n)
      <3>1. CASE n = 0
        BY <2>1, <3>1 DEF LimitsRowOf
      <3>2. CASE n # 0
        <4>1. Limits!RowBefore(n) \in N /\ Limits!RowBefore(n) =< k
          <5>1. Limits!RowBefore(n) \in N /\ Limits!RowBefore(n) < n
            BY <1>2, <3>2
          <5> QED BY <1>1, <2>3, <5>1
        <4>2. next[Limits!RowBefore(n)] = f[Limits!RowBefore(n)]
          BY <2>2, <4>1
        <4> QED BY <2>1, <4>2 DEF LimitsRowOf
      <3> QED BY <3>1, <3>2
    <2> QED BY <2>2, <2>3 DEF next
  <1>4. 0 \in Good
    <2> DEFINE f == [n \in N |-> 0]
    <2>1. \A n \in N : n =< 0 => n = 0
      BY <1>1
    <2>2. \A n \in N : n =< 0 => f[n] = LimitsRowOf(f, n)
      BY <2>1 DEF LimitsRowOf
    <2> HIDE DEF f
    <2> QED BY <2>2
  <1>5. \A k \in Nat : k \in Good => k + 1 \in Good
    <2> SUFFICES ASSUME NEW k \in Nat, NEW f, Upto(f, k) PROVE k + 1 \in Good
      OBVIOUS
    <2> DEFINE next == [n \in N |-> LimitsRowOf(f, n)]
    <2>1. Upto(next, k + 1)
      BY <1>3
    <2>2. k + 1 \in Nat
      OBVIOUS
    <2> HIDE DEF next, Upto
    <2> QED BY <2>1, <2>2
  <1>6. PICK f : Upto(f, MaxElements)
    <2>1. Nat \subseteq Good
      <3> HIDE DEF Good
      <3> QED BY <1>4, <1>5, NumberInduction
    <2> QED BY <1>1, <2>1
  <1> DEFINE all == [n \in N |-> LimitsRowOf(f, n)]
  <1>7. \A n \in N : all[n] = LimitsRowOf(all, n)
    <2>1. Upto(all, MaxElements + 1)
      BY <1>1, <1>3, <1>6
    <2>2. \A n \in N : n =< MaxElements + 1
      BY <1>1
    <2> QED BY <2>1, <2>2
  <1>8. LimitsNumbers(all)
    <2>1. DOMAIN all = N
      OBVIOUS
    <2>2. all = [n \in N |-> all[n]]
      OBVIOUS
    <2> HIDE DEF all
    <2>3. all = [n \in N |-> LimitsRowOf(all, n)]
      BY <1>7, <2>2
    <2> QED BY <2>3 DEF LimitsNumbers, LimitsRowOf
  <1>9. LimitsNumbers(CHOOSE e : LimitsNumbers(e))
    <2>1. \E e : LimitsNumbers(e)
      BY <1>8
    <2> QED BY <2>1
  <1>10. Limits!RowNumber = CHOOSE e : LimitsNumbers(e)
    BY Zenon DEF Limits!RowNumber, LimitsNumbers
  <1> DEFINE rows == Limits!RowNumber
             of == [n \in N |-> LimitsRowOf(rows, n)]
  <1>11. rows = of
    <2>1. LimitsNumbers(rows)
      BY <1>9, <1>10
    <2> HIDE DEF rows
    <2> QED BY <2>1 DEF LimitsNumbers, LimitsRowOf
  <1>12. \A n \in N : of[n] = LimitsRowOf(rows, n)
    OBVIOUS
  <1> HIDE DEF of
  <1> QED BY <1>11, <1>12

\* After element k: the row, the cells in it, those that state their place, and the column.
LimitsRow(k) == Limits!RowBefore(k + 1)
LimitsCells(k) == {j \in LimitsRow(k) + 1 .. k : elements[j].tag = "c"}
LimitsStated(k) == {j \in LimitsCells(k) : elements[j].from # <<0, 0>>}
LimitsSince(k) == {j \in LimitsCells(k) : j > Last(LimitsStated(k))}
LimitsColumn(k) ==
  IF LimitsStated(k) = {} THEN Cardinality(LimitsCells(k))
  ELSE elements[Last(LimitsStated(k))].from[2] + Cardinality(LimitsSince(k))

\* These are numbers, and there are finitely many of each.
LEMMA LimitsSoFar ==
  ASSUME NEW k \in Nat
  PROVE  /\ LimitsRow(k) \in 0 .. k
         /\ LimitsCells(k) \in SUBSET (1 .. k) /\ LimitsStated(k) \in SUBSET LimitsCells(k)
         /\ LimitsSince(k) \in SUBSET LimitsCells(k)
         /\ IsFiniteSet(LimitsCells(k)) /\ IsFiniteSet(LimitsSince(k))
         /\ LimitsStated(k) # {} =>
              /\ Last(LimitsStated(k)) \in LimitsStated(k)
              /\ \A j \in LimitsStated(k) : Last(LimitsStated(k)) >= j
  <1>1. LimitsRow(k) \in 0 .. k
    <2>1. k + 1 \in Nat \ {0} /\ (k + 1) - 1 = k
      OBVIOUS
    <2> QED BY <2>1, LimitsRowBefore DEF LimitsRow
  <1>2. LimitsCells(k) \in SUBSET (1 .. k)
    BY <1>1 DEF LimitsCells
  <1>3. LimitsStated(k) \in SUBSET LimitsCells(k) /\ LimitsSince(k) \in SUBSET LimitsCells(k)
    BY DEF LimitsStated, LimitsSince
  <1>4. IsFiniteSet(1 .. k)
    BY FS_Interval
  <1>5. IsFiniteSet(LimitsCells(k)) /\ IsFiniteSet(LimitsSince(k))
    BY <1>2, <1>3, <1>4, FS_Subset
  <1>6. LimitsStated(k) \in SUBSET (1 .. k)
    BY <1>2, <1>3
  <1> QED BY <1>1, <1>2, <1>3, <1>5, <1>6, LastOf

\* Nothing is before the first element.
LEMMA LimitsAtStart == LimitsRow(0) = 0 /\ LimitsColumn(0) = 0
  <1>1. LimitsRow(0) = 0 /\ LimitsCells(0) = {} /\ LimitsStated(0) = {}
    BY LimitsSoFar
  <1> QED BY <1>1, FS_EmptySet DEF LimitsColumn

\* A row is where it is, and has no cells yet.
LEMMA LimitsAfterRow ==
  ASSUME NEW k \in Nat \ {0}, elements[k].tag = "row"
  PROVE  LimitsRow(k) = k /\ LimitsColumn(k) = 0
  <1>1. LimitsRow(k) = k
    <2>1. LimitsRow(k) \in 0 .. k /\ k \in 1 .. (k + 1) - 1
      BY LimitsSoFar
    <2>2. k =< LimitsRow(k)
      BY <2>1, LimitsRowBefore DEF LimitsRow
    <2> QED BY <2>1, <2>2
  <1>2. LimitsCells(k) = {} /\ LimitsStated(k) = {}
    BY <1>1 DEF LimitsCells, LimitsStated
  <1> QED BY <1>1, <1>2, FS_EmptySet DEF LimitsColumn

\* What is not a row leaves the row as it is.
LEMMA LimitsSameRow ==
  ASSUME NEW k \in Nat \ {0}, elements[k].tag # "row"
  PROVE  LimitsRow(k) = LimitsRow(k - 1)
  <1>1. 1 .. (k + 1) - 1 = 1 .. k /\ 1 .. ((k - 1) + 1) - 1 = 1 .. k - 1
    OBVIOUS
  <1>2. Limits!Before(k + 1) = Limits!Before((k - 1) + 1)
    <2>1. Limits!Before(k + 1) = {j \in 1 .. k : elements[j].tag = "row"}
      BY <1>1 DEF Limits!Before
    <2>2. Limits!Before((k - 1) + 1) = {j \in 1 .. k - 1 : elements[j].tag = "row"}
      BY <1>1 DEF Limits!Before
    <2>3. \A j \in 1 .. k : j # k => j \in 1 .. k - 1
      OBVIOUS
    <2>4. \A j \in 1 .. k - 1 : j \in 1 .. k
      OBVIOUS
    <2> QED BY <2>1, <2>2, <2>3, <2>4
  <1> DEFINE Greatest(S) == IF S = {} THEN 0 ELSE CHOOSE j \in S : \A i \in S : i =< j
  <1>3. /\ LimitsRow(k) = Greatest(Limits!Before(k + 1))
        /\ LimitsRow(k - 1) = Greatest(Limits!Before((k - 1) + 1))
    BY Zenon DEF LimitsRow, Limits!RowBefore
  <1> HIDE DEF Greatest
  <1> QED BY <1>2, <1>3

\* A range leaves the column as it is.
LEMMA LimitsAfterRange ==
  ASSUME NEW k \in Nat \ {0}, elements[k].tag = "mergeCell"
  PROVE  LimitsColumn(k) = LimitsColumn(k - 1)
  <1>1. LimitsRow(k) = LimitsRow(k - 1) /\ LimitsRow(k) \in Nat
    BY LimitsSameRow, LimitsSoFar
  <1>2. \A j \in LimitsRow(k) + 1 .. k : elements[j].tag = "c" => j \in LimitsRow(k) + 1 .. k - 1
    BY <1>1
  <1>3. LimitsRow(k) + 1 .. k - 1 \subseteq LimitsRow(k) + 1 .. k
    BY <1>1
  <1>4. LimitsCells(k) = LimitsCells(k - 1)
    BY <1>1, <1>2, <1>3 DEF LimitsCells
  <1>5. LimitsStated(k) = LimitsStated(k - 1)
    BY <1>4 DEF LimitsStated
  <1>6. LimitsSince(k) = LimitsSince(k - 1)
    BY <1>4, <1>5 DEF LimitsSince
  <1> QED BY <1>4, <1>5, <1>6 DEF LimitsColumn

\* A cell is in the column it states, or the next.
LEMMA LimitsAfterCell ==
  ASSUME NEW k \in Nat \ {0}, \A j \in 1 .. k : elements[j] \in LimitsElement, elements[k].tag = "c"
  PROVE  LimitsColumn(k) = IF elements[k].from # <<0, 0>> THEN elements[k].from[2]
                           ELSE LimitsColumn(k - 1) + 1
  <1>1. LimitsRow(k) = LimitsRow(k - 1) /\ LimitsRow(k) \in Nat /\ LimitsRow(k) =< k - 1 /\ k - 1 \in Nat
    BY LimitsSameRow, LimitsSoFar
  <1>2. LimitsCells(k) = LimitsCells(k - 1) \cup {k}
    <2>1. LimitsRow(k) + 1 .. k = (LimitsRow(k) + 1 .. k - 1) \cup {k}
      BY <1>1
    <2> QED BY <1>1, <2>1 DEF LimitsCells
  <1>3. /\ LimitsCells(k - 1) \in SUBSET (1 .. k - 1) /\ LimitsStated(k - 1) \subseteq LimitsCells(k - 1)
        /\ LimitsSince(k - 1) \subseteq LimitsCells(k - 1)
        /\ IsFiniteSet(LimitsCells(k - 1)) /\ IsFiniteSet(LimitsSince(k - 1)) /\ IsFiniteSet(LimitsCells(k))
        /\ LimitsCells(k) \in SUBSET (1 .. k) /\ LimitsStated(k) \subseteq LimitsCells(k)
    BY <1>1, LimitsSoFar
  <1>4. k \notin LimitsCells(k - 1)
    BY <1>3
  <1>5. ASSUME elements[k].from # <<0, 0>>
        PROVE  LimitsColumn(k) = elements[k].from[2]
    <2>1. k \in LimitsStated(k)
      BY <1>2, <1>5 DEF LimitsStated
    <2>2. Last(LimitsStated(k)) = k
      <3>1. Last(LimitsStated(k)) \in LimitsStated(k) /\ Last(LimitsStated(k)) >= k
        BY <2>1, LimitsSoFar
      <3>2. Last(LimitsStated(k)) \in 1 .. k
        BY <1>3, <3>1
      <3> QED BY <3>1, <3>2
    <2>3. LimitsSince(k) = {}
      <3>1. \A j \in LimitsCells(k) : ~(j > k)
        BY <1>3
      <3> QED BY <2>2, <3>1 DEF LimitsSince
    <2>4. elements[k].from[2] \in Int
      <3>1. elements[k] \in LimitsElement
        OBVIOUS
      <3> QED BY <3>1 DEF LimitsElement
    <2> QED BY <2>1, <2>2, <2>3, <2>4, FS_EmptySet DEF LimitsColumn
  <1>6. ASSUME elements[k].from = <<0, 0>>
        PROVE  LimitsColumn(k) = LimitsColumn(k - 1) + 1
    <2>1. LimitsStated(k) = LimitsStated(k - 1)
      BY <1>2, <1>6 DEF LimitsStated
    <2>2. CASE LimitsStated(k) = {}
      <3>1. Cardinality(LimitsCells(k)) = Cardinality(LimitsCells(k - 1)) + 1
        BY <1>2, <1>3, <1>4, FS_AddElement
      <3> QED BY <2>1, <2>2, <3>1 DEF LimitsColumn
    <2>3. CASE LimitsStated(k) # {}
      <3> DEFINE l == Last(LimitsStated(k - 1))
      <3>1. l \in 1 .. k - 1
        BY <1>1, <1>3, <2>1, <2>3, LimitsSoFar
      <3>2. LimitsSince(k) = LimitsSince(k - 1) \cup {k}
        <4>1. k > l
          BY <3>1
        <4> QED BY <1>2, <2>1, <4>1 DEF LimitsSince
      <3>3. Cardinality(LimitsSince(k)) = Cardinality(LimitsSince(k - 1)) + 1
        BY <1>3, <1>4, <3>2, FS_AddElement
      <3>4. Cardinality(LimitsSince(k - 1)) \in Nat
        BY <1>3, FS_CardinalityType
      <3>5. LimitsColumn(k) = elements[l].from[2] + (Cardinality(LimitsSince(k - 1)) + 1)
        BY <2>1, <2>3, <3>3 DEF LimitsColumn
      <3>6. LimitsColumn(k - 1) = elements[l].from[2] + Cardinality(LimitsSince(k - 1))
        BY <2>1, <2>3 DEF LimitsColumn
      <3>7. elements[l].from[2] \in Int
        <4>1. elements[l] \in LimitsElement
          BY <3>1
        <4> QED BY <4>1 DEF LimitsElement
      <3> HIDE DEF l
      <3> QED BY <3>4, <3>5, <3>6, <3>7
    <2> QED BY <2>2, <2>3
  <1> QED BY <1>5, <1>6

\* That is where the reader puts it.
LEMMA LimitsReadAt ==
  ASSUME NEW k \in Nat \ {0}, elements[k].tag = "c"
  PROVE  Limits!ReadAt(k) = IF elements[k].from # <<0, 0>> THEN elements[k].from
                            ELSE <<Limits!RowNumber[LimitsRow(k)], LimitsColumn(k)>>
  <1>1. LimitsRow(k) = LimitsRow(k - 1) /\ (k - 1) + 1 = k
    BY LimitsSameRow
  <1>2. Limits!RowBefore(k) = LimitsRow(k)
    BY <1>1 DEF LimitsRow
  <1>3. ASSUME LimitsStated(k) # {}
        PROVE  (CHOOSE j \in LimitsStated(k) : \A i \in LimitsStated(k) : i =< j) = Last(LimitsStated(k))
    <2> DEFINE S == LimitsStated(k)
               g == CHOOSE j \in S : \A i \in S : i =< j
    <2>1. S \subseteq 1 .. k /\ Last(S) \in S /\ \A j \in S : Last(S) >= j
      BY <1>3, LimitsSoFar
    <2>2. \E j \in S : \A i \in S : i =< j
      <3> HIDE DEF S
      <3> QED BY <2>1
    <2>3. g \in S /\ \A i \in S : i =< g
      <3> HIDE DEF S
      <3> QED BY <2>2
    <2> HIDE DEF S, g
    <2>4. g \in 1 .. k /\ Last(S) \in 1 .. k /\ g >= Last(S) /\ Last(S) >= g
      BY <2>1, <2>3
    <2> QED BY <2>4 DEF S, g
  <1> DEFINE cells == {j \in Limits!RowBefore(k) + 1 .. k : elements[j].tag = "c"}
             stated == {j \in cells : elements[j].from # <<0, 0>>}
             greatest == CHOOSE j \in stated : \A i \in stated : i =< j
             since == {j \in cells : j > greatest}
  <1>4. Limits!ReadAt(k) = IF elements[k].from # <<0, 0>> THEN elements[k].from
                           ELSE <<Limits!RowNumber[Limits!RowBefore(k)],
                                  IF stated = {} THEN Cardinality(cells)
                                  ELSE elements[greatest].from[2] + Cardinality(since)>>
    <2>1. \A S : Limits!Cardinality(S) = Cardinality(S)
      BY Zenon DEF Limits!Cardinality, Cardinality, Limits!IsFiniteSet, IsFiniteSet
    <2>2. Limits!ReadAt(k) = IF elements[k].from # <<0, 0>> THEN elements[k].from
                             ELSE <<Limits!RowNumber[Limits!RowBefore(k)],
                                    IF stated = {} THEN Limits!Cardinality(cells)
                                    ELSE elements[greatest].from[2] + Limits!Cardinality(since)>>
      BY Zenon DEF Limits!ReadAt
    <2> HIDE DEF cells, stated, greatest, since
    <2> QED BY Zenon, <2>1, <2>2
  <1>5. cells = LimitsCells(k)
    BY <1>2 DEF LimitsCells
  <1>6. stated = LimitsStated(k)
    <2> HIDE DEF cells
    <2> QED BY <1>5 DEF LimitsStated
  <1>7. greatest = CHOOSE j \in LimitsStated(k) : \A i \in LimitsStated(k) : i =< j
    <2> HIDE DEF stated
    <2> QED BY <1>6
  <1> HIDE DEF cells, stated, greatest
  <1>8. LimitsStated(k) # {} => greatest = Last(LimitsStated(k))
    BY <1>3, <1>7
  <1>9. LimitsStated(k) # {} => since = LimitsSince(k)
    BY <1>5, <1>8 DEF LimitsSince
  <1> HIDE DEF since
  <1> QED BY <1>2, <1>4, <1>5, <1>6, <1>8, <1>9 DEF LimitsColumn

\* Element j, as the reader takes it, is within the limits.
LimitsFits(j) ==
  /\ elements[j].tag = "c" => Limits!ReadAt(j)[1] \in 1 .. MaxRows /\ Limits!ReadAt(j)[2] \in 1 .. MaxColumns
  /\ elements[j].tag = "mergeCell" =>
       elements[j].to[1] =< MaxRows /\ elements[j].to[2] =< MaxColumns
         /\ Limits!Spanned(elements[j]) =< MaxCells

\* What the pass has, after element k, is where the reader is, and what is read so far fits.
LimitsFollows(at, k) ==
  /\ at.row = Limits!RowNumber[LimitsRow(k)] /\ at.column = LimitsColumn(k)
  /\ at.cells \in 0 .. MaxCells
  /\ \A j \in 1 .. k : LimitsFits(j)

\* One element more.
LEMMA LimitsFollowsOn ==
  ASSUME Limits!LimitsAssumption, NEW k \in Nat \ {0}, k =< MaxElements,
         \A j \in 1 .. k : elements[j] \in LimitsElement,
         NEW at \in LimitsAt, LimitsFollows(at, k - 1), at.reason = "none",
         Limits!Scan(at, elements[k]).reason = "none"
  PROVE  LimitsFollows(Limits!Scan(at, elements[k]), k)
  <1> DEFINE e == elements[k]
             new == Limits!Scan(at, e)
  <1>1. /\ e \in LimitsElement /\ k \in 0 .. MaxElements /\ k \in 1 .. k
        /\ MaxCells \in Nat /\ at.row \in Int /\ at.column \in Int
        /\ at.cells \in 0 .. MaxCells /\ at.cells =< MaxCells
        /\ at.row = Limits!RowNumber[LimitsRow(k - 1)] /\ at.column = LimitsColumn(k - 1)
    BY DEF Limits!LimitsAssumption, LimitsFollows, LimitsAt
  <1>2. ASSUME LimitsFits(k) PROVE \A j \in 1 .. k : LimitsFits(j)
    <2>1. \A j \in 1 .. k : j = k \/ j \in 1 .. k - 1
      OBVIOUS
    <2> QED BY <1>2, <2>1 DEF LimitsFollows
  <1> HIDE DEF e
  <1>3. CASE e.tag = "row"
    <2>1. new = [row |-> IF e.from[1] = 0 THEN at.row + 1 ELSE e.from[1],
                 column |-> 0, cells |-> at.cells, reason |-> "none"]
      BY <1>1, <1>3, LimitsScanRow
    <2>2. LimitsRow(k) = k /\ LimitsColumn(k) = 0
      BY <1>3, LimitsAfterRow DEF e
    <2>3. Limits!RowNumber[k] = IF e.from[1] # 0 THEN e.from[1]
                                ELSE Limits!RowNumber[Limits!RowBefore(k)] + 1
      BY <1>1, LimitsRowNumber DEF LimitsRowOf, e
    <2>4. Limits!RowBefore(k) = LimitsRow(k - 1)
      <3>1. (k - 1) + 1 = k
        OBVIOUS
      <3> QED BY <3>1 DEF LimitsRow
    <2>5. new.row = Limits!RowNumber[LimitsRow(k)]
      BY <1>1, <2>1, <2>2, <2>3, <2>4
    <2>6. LimitsFits(k)
      BY <1>3 DEF LimitsFits, e
    <2> HIDE DEF new
    <2>7. LimitsFollows(new, k)
      BY <1>1, <1>2, <2>1, <2>2, <2>5, <2>6 DEF LimitsFollows
    <2> QED BY <2>7 DEF new, e
  <1>4. CASE e.tag = "c"
    <2>1. /\ new = [row |-> at.row, column |-> Limits!CellAt(at, e)[2], cells |-> at.cells + 1, reason |-> "none"]
          /\ at.cells + 1 =< MaxCells
          /\ Limits!CellAt(at, e)[1] \in 1 .. MaxRows /\ Limits!CellAt(at, e)[2] \in 1 .. MaxColumns
      BY <1>1, <1>4, LimitsScanCell DEF e
    <2>2. LimitsRow(k) = LimitsRow(k - 1)
      BY <1>4, LimitsSameRow DEF e
    <2>3. LimitsColumn(k) = IF e.from # <<0, 0>> THEN e.from[2] ELSE LimitsColumn(k - 1) + 1
      BY <1>4, LimitsAfterCell DEF e
    <2>4. Limits!ReadAt(k) = IF e.from # <<0, 0>> THEN e.from
                             ELSE <<Limits!RowNumber[LimitsRow(k)], LimitsColumn(k)>>
      BY <1>4, LimitsReadAt DEF e
    <2>5. Limits!CellAt(at, e) = IF e.from # <<0, 0>> THEN e.from ELSE <<at.row, at.column + 1>>
      BY DEF Limits!CellAt
    <2>6. Limits!CellAt(at, e) = Limits!ReadAt(k) /\ Limits!CellAt(at, e)[2] = LimitsColumn(k)
      BY <1>1, <2>2, <2>3, <2>4, <2>5
    <2>7. LimitsFits(k)
      BY <1>4, <2>1, <2>6 DEF LimitsFits, e
    <2>8. new.row = Limits!RowNumber[LimitsRow(k)] /\ new.column = LimitsColumn(k)
          /\ new.cells \in 0 .. MaxCells
      BY <1>1, <2>1, <2>2, <2>6
    <2> HIDE DEF new
    <2>9. LimitsFollows(new, k)
      BY <1>2, <2>7, <2>8 DEF LimitsFollows
    <2> QED BY <2>9 DEF new, e
  <1>5. CASE e.tag = "mergeCell"
    <2>1. /\ new = [row |-> at.row, column |-> at.column,
                    cells |-> at.cells + Limits!Spanned(e), reason |-> "none"]
          /\ at.cells + Limits!Spanned(e) =< MaxCells /\ Limits!Spanned(e) >= 0
          /\ e.to[1] =< MaxRows /\ e.to[2] =< MaxColumns
      BY <1>1, <1>5, LimitsScanRange DEF e
    <2>2. LimitsRow(k) = LimitsRow(k - 1) /\ LimitsColumn(k) = LimitsColumn(k - 1)
      BY <1>5, LimitsSameRow, LimitsAfterRange DEF e
    <2>3. Limits!Spanned(e) \in Int
      BY <1>1, LimitsSpanned
    <2>4. Limits!Spanned(e) =< MaxCells /\ at.cells + Limits!Spanned(e) \in 0 .. MaxCells
      BY <1>1, <2>1, <2>3
    <2>5. LimitsFits(k)
      BY <1>5, <2>1, <2>4 DEF LimitsFits, e
    <2> HIDE DEF new
    <2>6. LimitsFollows(new, k)
      BY <1>1, <1>2, <2>1, <2>2, <2>4, <2>5 DEF LimitsFollows
    <2> QED BY <2>6 DEF new, e
  <1>6. e.tag \in {"row", "c", "mergeCell"}
    BY <1>1 DEF LimitsElement
  <1> QED BY <1>3, <1>4, <1>5, <1>6

\* What the pass does not refuse fits.
LEMMA LimitsAllFit ==
  ASSUME Limits!LimitsAssumption, elements \in Seq(LimitsElement), Len(elements) =< MaxElements,
         LimitsExtents(elements) = "none"
  PROVE  \A j \in DOMAIN elements : LimitsFits(j)
  <1> DEFINE n == Len(elements)
  <1>1. n \in Nat /\ DOMAIN elements = 1 .. n /\ (\A j \in 1 .. n : elements[j] \in LimitsElement)
        /\ MaxElements \in Nat /\ MaxCells \in Nat
    BY DEF Limits!LimitsAssumption
  <1>2. PICK at \in [0 .. n -> LimitsAt] :
          /\ at[0] = LimitsStart /\ at[n].reason = LimitsExtents(elements)
          /\ \A k \in 1 .. n : at[k] = Limits!Scan(at[k - 1], elements[k])
    BY LimitsPass
  <1> HIDE DEF n
  <1> DEFINE Good == {k \in Nat : k =< n /\ at[k].reason = "none" => LimitsFollows(at[k], k)}
  <1>3. 0 \in Good
    <2>1. Limits!RowNumber[0] = 0
      <3>1. 0 \in 0 .. MaxElements
        BY <1>1
      <3> QED BY <3>1, LimitsRowNumber DEF LimitsRowOf
    <2>2. 0 \in 0 .. MaxCells /\ 1 .. 0 = {}
      BY <1>1
    <2>3. at[0] = [row |-> 0, column |-> 0, cells |-> 0, reason |-> "none"]
      BY <1>2 DEF LimitsStart
    <2>4. LimitsFollows(at[0], 0)
      BY <2>1, <2>2, <2>3, LimitsAtStart DEF LimitsFollows
    <2> QED BY <2>4
  <1>4. \A k \in Nat : k \in Good => k + 1 \in Good
    <2> SUFFICES ASSUME NEW k \in Nat, k \in Good, k + 1 =< n, at[k + 1].reason = "none"
                 PROVE  LimitsFollows(at[k + 1], k + 1)
      OBVIOUS
    <2>1. /\ k + 1 \in 1 .. n /\ (k + 1) - 1 = k /\ k \in 0 .. n /\ k =< n
          /\ k + 1 \in Nat \ {0} /\ k + 1 =< MaxElements
      BY <1>1 DEF n
    <2>2. at[k + 1] = Limits!Scan(at[k], elements[k + 1]) /\ at[k] \in LimitsAt
      BY <1>2, <2>1
    <2>3. elements[k + 1] \in LimitsElement /\ \A j \in 1 .. k + 1 : elements[j] \in LimitsElement
      BY <1>1, <2>1
    <2>4. at[k].reason = "none"
      BY <2>2, <2>3, LimitsScanOver
    <2>5. LimitsFollows(at[k], k)
      BY <2>1, <2>4
    <2> HIDE DEF Good
    <2> QED BY <2>1, <2>2, <2>3, <2>4, <2>5, LimitsFollowsOn
  <1>5. n \in Good
    <2>1. Nat \subseteq Good
      <3> HIDE DEF Good
      <3> QED BY <1>3, <1>4, NumberInduction
    <2> QED BY <1>1, <2>1
  <1>6. LimitsFollows(at[n], n)
    BY <1>1, <1>2, <1>5
  <1> QED BY <1>1, <1>6 DEF LimitsFollows

-----------------------------------------------------------------------------
(* The sizes of members.                                                   *)

\* How sizes are added.
LimitsAdds(it, s) ==
  it = [t \in SUBSET DOMAIN s |-> IF t = {} THEN 0 ELSE it[t \ {Last(t)}] + s[Last(t)]]

\* They add up to a number, and none of them to zero.
LEMMA LimitsSizes ==
  ASSUME NEW n \in Nat, NEW s \in [1 .. n -> Int]
  PROVE  Limits!Sizes(s) \in Int /\ (n = 0 => Limits!Sizes(s) = 0)
  <1> DEFINE S == SUBSET (1 .. n)
             g == [p \in Int \X (1 .. n) |-> p[1] + s[p[2]]]
  <1>1. \A v \in Int : \A k \in 1 .. n : g[<<v, k>>] = v + s[k] /\ g[<<v, k>>] \in Int
    OBVIOUS
  <1>2. FoldStays(Int, g, n) /\ 0 \in Int
    BY <1>1 DEF FoldStays
  <1> HIDE DEF g
  <1>3. PICK it \in [S -> Int] : IsFold(it, g, 0, n)
    BY <1>2, FoldIsThere
  <1>4. \A t \in S : t # {} => Last(t) \in 1 .. n /\ t \ {Last(t)} \in S
    BY LastOf
  <1>5. \A t \in S : FoldStep(it, g, 0, t) = IF t = {} THEN 0 ELSE it[t \ {Last(t)}] + s[Last(t)]
    BY <1>1, <1>3, <1>4 DEF FoldStep
  <1>6. LimitsAdds(it, s)
    <2>1. it = [t \in S |-> FoldStep(it, g, 0, t)]
      BY <1>3 DEF IsFold
    <2>2. it = [t \in S |-> IF t = {} THEN 0 ELSE it[t \ {Last(t)}] + s[Last(t)]]
      BY <1>5, <2>1
    <2>3. DOMAIN s = 1 .. n
      OBVIOUS
    <2> QED BY <2>2, <2>3 DEF LimitsAdds
  <1> DEFINE jt == CHOOSE j : LimitsAdds(j, s)
  <1>7. LimitsAdds(jt, s)
    BY <1>6
  <1>8. Limits!Sizes(s) = jt[1 .. n]
    <2>1. Limits!Sizes(s) = jt[DOMAIN s]
      BY Zenon DEF Limits!Sizes, Limits!FoldLeft, Limits!MapThenFoldSet, Limits!Max, LimitsAdds, Last
    <2>2. DOMAIN s = 1 .. n
      OBVIOUS
    <2> HIDE DEF jt
    <2> QED BY <2>1, <2>2
  <1> HIDE DEF jt
  <1>9. \A t \in S : jt[t] = IF t = {} THEN 0 ELSE jt[t \ {Last(t)}] + s[Last(t)]
    <2> DEFINE ft == [t \in S |-> IF t = {} THEN 0 ELSE jt[t \ {Last(t)}] + s[Last(t)]]
    <2>1. DOMAIN s = 1 .. n
      OBVIOUS
    <2>2. jt = ft
      BY Zenon, <1>7, <2>1 DEF LimitsAdds
    <2>3. \A t \in S : ft[t] = IF t = {} THEN 0 ELSE jt[t \ {Last(t)}] + s[Last(t)]
      OBVIOUS
    <2> HIDE DEF ft
    <2> QED BY <2>2, <2>3
  <1>10. jt[{}] = 0
    BY <1>9
  <1>11. FoldFollows(jt, Int, g, n)
    BY <1>1, <1>4, <1>9 DEF FoldFollows
  <1>12. PICK at \in [0 .. n -> Int] : FoldPasses(at, g, 0, jt[1 .. n], n)
    BY Zenon, <1>2, <1>10, <1>11, FoldPass
  <1>13. at[0] = 0 /\ at[n] = jt[1 .. n] /\ n \in 0 .. n
    BY <1>12 DEF FoldPasses
  <1> QED BY <1>8, <1>13

\* What the members of an archive have.
LimitsActual(ms) == Limits!Sizes([i \in DOMAIN ms |-> ms[i].actual])

\* The inductive invariant: a workbook is given to the reader once the checks passed.
LimitsInv ==
  /\ Limits!TypeOK
  /\ members \in Seq(Members) /\ elements \in Seq(LimitsElement) /\ Len(elements) =< MaxElements
  /\ step = "read" =>
       /\ \A i \in DOMAIN members : members[i].actual =< MaxMember /\ members[i].expected
       /\ LimitsActual(members) =< MaxTotal
       /\ LimitsExtents(elements) = "none"

\* It holds at the start.
LEMMA LimitsInvInit ==
  ASSUME Limits!LimitsAssumption, Limits!Init
  PROVE  LimitsInv
  BY DEF Limits!LimitsAssumption, Limits!Init, LimitsInv, Limits!TypeOK

\* It bounds what is read.
LEMMA LimitsInvImplies ==
  ASSUME Limits!LimitsAssumption, LimitsInv
  PROVE  Limits!TypeOK /\ Limits!ReadIsBounded
  <1>1. ASSUME step = "read"
        PROVE  /\ \A i \in DOMAIN members : members[i].actual =< MaxMember /\ members[i].expected
               /\ Limits!Sizes([i \in DOMAIN members |-> members[i].actual]) =< MaxTotal
               /\ \A j \in DOMAIN elements : LimitsFits(j)
    <2>1. \A j \in DOMAIN elements : LimitsFits(j)
      BY <1>1, LimitsAllFit DEF LimitsInv
    <2> QED BY <1>1, <2>1 DEF LimitsInv, LimitsActual
  <1>2. Limits!ReadIsBounded
    BY Zenon, <1>1 DEF Limits!ReadIsBounded, LimitsFits
  <1> QED BY <1>2 DEF LimitsInv

\* What is added up is what members really have.
LEMMA LimitsActualFits ==
  ASSUME Limits!LimitsAssumption, members \in Seq(Members), Limits!ActualSize = "none"
  PROVE  (\A i \in DOMAIN members : members[i].actual =< MaxMember) /\ LimitsActual(members) =< MaxTotal
  <1> DEFINE n == Len(members)
             Upto(i) == Limits!Sizes([j \in 1 .. i |-> members[j].actual])
             bad == {i \in DOMAIN members : members[i].actual > MaxMember \/ Upto(i) > MaxTotal}
             first == CHOOSE i \in bad : \A j \in bad : i =< j
  <1>1. /\ n \in Nat /\ DOMAIN members = 1 .. n /\ MaxMember \in Nat /\ MaxTotal \in Nat
        /\ \A i \in 1 .. n : members[i].actual \in Nat
    BY DEF Limits!LimitsAssumption
  <1>2. bad = {}
    <2>1. Limits!ActualSize = IF bad = {} THEN "none"
                              ELSE IF members[first].actual > MaxMember THEN "max_member_size"
                                   ELSE "max_total_uncompressed_size"
      BY Zenon DEF Limits!ActualSize
    <2> HIDE DEF bad, first
    <2> QED BY <2>1
  <1>3. \A i \in 1 .. n : members[i].actual =< MaxMember /\ ~(Upto(i) > MaxTotal)
    <2>1. \A i \in 1 .. n : ~(members[i].actual > MaxMember \/ Upto(i) > MaxTotal)
      BY <1>1, <1>2
    <2> HIDE DEF Upto
    <2> QED BY <1>1, <2>1
  <1> DEFINE s == [i \in DOMAIN members |-> members[i].actual]
  <1>4. s \in [1 .. n -> Int] /\ LimitsActual(members) = Limits!Sizes(s)
    BY <1>1 DEF LimitsActual
  <1>5. Limits!Sizes(s) \in Int /\ (n = 0 => Limits!Sizes(s) = 0)
    <2> HIDE DEF s, n
    <2> QED BY <1>1, <1>4, LimitsSizes
  <1>6. n # 0 => ~(Limits!Sizes(s) > MaxTotal)
    <2>1. n # 0 => n \in 1 .. n
      BY <1>1
    <2>2. Upto(n) = Limits!Sizes(s)
      BY <1>1
    <2> HIDE DEF s, Upto
    <2> QED BY <1>3, <2>1, <2>2
  <1> HIDE DEF s, Upto
  <1> QED BY <1>1, <1>3, <1>4, <1>5, <1>6

\* Every step keeps it.
LEMMA LimitsInvStep ==
  ASSUME Limits!LimitsAssumption, LimitsInv, [Limits!Next]_(Limits!limitVars)
  PROVE  LimitsInv'
  <1>1. CASE Limits!AddMember
    BY <1>1 DEF Limits!AddMember, LimitsInv, Limits!TypeOK
  <1>2. CASE Limits!AddElement
    <2>1. PICK e \in Elements : elements' = Append(elements, e)
      BY <1>2 DEF Limits!AddElement
    <2>2. e \in LimitsElement
      BY DEF Limits!LimitsAssumption, LimitsElement
    <2>3. elements' \in Seq(LimitsElement) /\ Len(elements') =< MaxElements
      BY <1>2, <2>1, <2>2 DEF Limits!AddElement, LimitsInv, Limits!LimitsAssumption
    <2> QED BY <1>2, <2>3 DEF Limits!AddElement, LimitsInv, Limits!TypeOK
  <1>3. CASE Limits!Check
    <2> DEFINE answers == <<Limits!DeclaredBounds, Limits!MemberAllowlist, Limits!ActualSize, Limits!SheetExtents>>
               refusals == {i \in 1 .. 4 : answers[i] # "none"}
               first == CHOOSE i \in refusals : \A j \in refusals : i =< j
    <2>1. /\ step = "sheet" /\ members' = members /\ elements' = elements
          /\ reason' = IF refusals = {} THEN "none" ELSE answers[first]
          /\ step' = IF reason' = "none" THEN "read" ELSE "refused"
      BY <1>3 DEF Limits!Check
    <2>2. refusals # {} => answers[first] # "none"
      <3>1. refusals \in SUBSET Nat
        OBVIOUS
      <3>2. refusals # {} => \E i \in refusals : \A j \in refusals : i =< j
        <4> HIDE DEF refusals
        <4> QED BY <3>1, LeastNumber
      <3>3. refusals # {} => first \in refusals
        <4> HIDE DEF refusals
        <4> QED BY <3>2
      <3> QED BY <3>3
    <2>3. ASSUME refusals = {}
          PROVE  /\ Limits!MemberAllowlist = "none" /\ Limits!ActualSize = "none"
                 /\ Limits!SheetExtents = "none"
      <3>1. answers[2] = "none" /\ answers[3] = "none" /\ answers[4] = "none"
        <4>1. 2 \in 1 .. 4 /\ 3 \in 1 .. 4 /\ 4 \in 1 .. 4
          OBVIOUS
        <4> HIDE DEF answers
        <4> QED BY <2>3, <4>1
      <3> QED BY <3>1
    <2> HIDE DEF refusals, first, answers
    <2>4. Limits!TypeOK'
      BY <2>1, <2>2 DEF Limits!TypeOK
    <2>5. ASSUME step' = "read"
          PROVE  /\ \A i \in DOMAIN members : members[i].actual =< MaxMember /\ members[i].expected
                 /\ LimitsActual(members) =< MaxTotal
                 /\ LimitsExtents(elements) = "none"
      <3>1. refusals = {}
        BY <2>1, <2>2, <2>5
      <3>2. \A i \in DOMAIN members : members[i].expected
        BY <2>3, <3>1 DEF Limits!MemberAllowlist
      <3>3. LimitsExtents(elements) = "none"
        BY <2>3, <3>1, LimitsExtentsShown
      <3> QED BY <2>3, <3>1, <3>2, <3>3, LimitsActualFits DEF LimitsInv
    <2> QED BY <2>1, <2>4, <2>5 DEF LimitsInv
  <1>4. CASE UNCHANGED Limits!limitVars
    BY <1>4 DEF Limits!limitVars, LimitsInv, Limits!TypeOK
  <1> QED BY <1>1, <1>2, <1>3, <1>4 DEF Limits!Next
-----------------------------------------------------------------------------
(* A budget out of an uploaded sheet (ExcelImport).                        *)

\* What sheets and the grids made of them hold.
ImportCells == [kind : {"empty", "number", "text", "formula"}, n : Int]
ImportRows == [first : STRING, local : ImportCells, donor : ImportCells]
ImportNames == STRING \cup {"Uncategorized", "read", "added"}
ImportLines == [category : ImportNames, amount : Int, edited : BOOLEAN]

\* A row with its formulas resolved, and whether it is dropped.
ImportOf(row) ==
  [first |-> row.first, local |-> Import!Resolved(row.local), donor |-> Import!Resolved(row.donor)]
ImportDropped(row) == row.first = "Total" \/ (row.first = "" /\ Import!Filled(row) = {})
ImportKeep(rows, row) == IF ImportDropped(ImportOf(row)) THEN rows ELSE Append(rows, ImportOf(row))
ImportGridFolds(it, sheet) ==
  it = [s \in SUBSET DOMAIN sheet |->
          IF s = {} THEN <<>> ELSE ImportKeep(it[s \ {Last(s)}], sheet[Last(s)])]

\* A grid is a sequence of rows.
LEMMA ImportGridType ==
  ASSUME NEW sheet \in Seq(ImportRows)
  PROVE  Import!Grid(sheet) \in Seq(ImportRows)
  <1> DEFINE n == Len(sheet)
             V == Seq(ImportRows)
             S == SUBSET (1 .. n)
             g == [p \in V \X (1 .. n) |-> ImportKeep(p[1], sheet[p[2]])]
  <1>1. n \in Nat /\ DOMAIN sheet = 1 .. n /\ <<>> \in V /\ \A k \in 1 .. n : sheet[k] \in ImportRows
    OBVIOUS
  <1>2. \A v \in V : \A k \in 1 .. n : g[<<v, k>>] = ImportKeep(v, sheet[k]) /\ g[<<v, k>>] \in V
    <2> SUFFICES ASSUME NEW v \in V, NEW k \in 1 .. n
                 PROVE  g[<<v, k>>] = ImportKeep(v, sheet[k]) /\ g[<<v, k>>] \in V
      OBVIOUS
    <2>1. sheet[k] \in ImportRows
      BY <1>1
    <2>2. \A c \in ImportCells : Import!Resolved(c) \in ImportCells
      BY DEF ImportCells, Import!Resolved
    <2>3. ImportOf(sheet[k]) \in ImportRows
      BY <2>1, <2>2 DEF ImportOf, ImportRows
    <2>4. ImportKeep(v, sheet[k]) \in V
      BY <2>3 DEF ImportKeep
    <2> QED BY <2>4
  <1> HIDE DEF n, V, g
  <1>3. FoldStays(V, g, n)
    BY <1>2 DEF FoldStays
  <1>4. PICK it \in [S -> V] : IsFold(it, g, <<>>, n)
    BY Zenon, <1>1, <1>3, FoldIsThere
  <1>5. \A t \in S : t # {} => Last(t) \in 1 .. n /\ t \ {Last(t)} \in S
    BY <1>1, LastOf
  <1>6. \A t \in S : FoldStep(it, g, <<>>, t)
                       = IF t = {} THEN <<>> ELSE ImportKeep(it[t \ {Last(t)}], sheet[Last(t)])
    BY <1>2, <1>4, <1>5 DEF FoldStep
  <1>7. ImportGridFolds(it, sheet)
    <2>1. it = [t \in S |-> FoldStep(it, g, <<>>, t)]
      BY <1>4 DEF IsFold
    <2>2. it = [t \in S |-> IF t = {} THEN <<>> ELSE ImportKeep(it[t \ {Last(t)}], sheet[Last(t)])]
      BY <1>6, <2>1
    <2> QED BY <1>1, <2>2 DEF ImportGridFolds
  <1> DEFINE jt == CHOOSE j : ImportGridFolds(j, sheet)
  <1>8. ImportGridFolds(jt, sheet)
    BY <1>7
  <1>9. Import!Grid(sheet) = jt[DOMAIN sheet]
    BY Zenon DEF Import!Grid, Import!FoldLeft, Import!MapThenFoldSet, Import!Max, ImportGridFolds, Last,
       ImportKeep, ImportDropped, ImportOf
  <1> HIDE DEF jt
  <1>10. \A t \in S : jt[t] = IF t = {} THEN <<>> ELSE ImportKeep(jt[t \ {Last(t)}], sheet[Last(t)])
    <2> DEFINE ft == [t \in S |-> IF t = {} THEN <<>> ELSE ImportKeep(jt[t \ {Last(t)}], sheet[Last(t)])]
    <2>1. jt = ft
      BY Zenon, <1>1, <1>8 DEF ImportGridFolds
    <2>2. \A t \in S : ft[t] = IF t = {} THEN <<>> ELSE ImportKeep(jt[t \ {Last(t)}], sheet[Last(t)])
      OBVIOUS
    <2> HIDE DEF ft
    <2> QED BY <2>1, <2>2
  <1>11. jt[{}] = <<>>
    BY <1>10
  <1>12. FoldFollows(jt, V, g, n)
    BY <1>2, <1>5, <1>10 DEF FoldFollows
  <1>13. PICK at \in [0 .. n -> V] : FoldPasses(at, g, <<>>, jt[1 .. n], n)
    BY Zenon, <1>1, <1>3, <1>11, <1>12, FoldPass
  <1>14. at[n] = jt[1 .. n] /\ n \in 0 .. n
    BY <1>1, <1>13 DEF FoldPasses
  <1> QED BY <1>1, <1>9, <1>13, <1>14 DEF V

\* Of the rows of a grid those that have a number are taken.
ImportHasNumber(row) == \E c \in Import!Columns : row[c].kind = "number"
ImportTake(rows, row) == IF ImportHasNumber(row) THEN Append(rows, row) ELSE rows
ImportTakes(it, grid) ==
  it = [s \in SUBSET DOMAIN grid |->
          IF s = {} THEN <<>> ELSE ImportTake(it[s \ {Last(s)}], grid[Last(s)])]

ImportCounted == {row \in ImportRows : ImportHasNumber(row)}

\* The rows with a number, as they are found one after the other.
LEMMA ImportNumberedPass ==
  ASSUME NEW grid \in Seq(ImportRows)
  PROVE  \E at \in [0 .. Len(grid) -> Seq(ImportCounted)] :
           /\ at[0] = <<>> /\ at[Len(grid)] = Import!Numbered(grid)
           /\ \A k \in 1 .. Len(grid) : at[k] = ImportTake(at[k - 1], grid[k])
  <1> DEFINE n == Len(grid)
             S == SUBSET (1 .. n)
             g == [p \in Seq(ImportCounted) \X (1 .. n) |-> ImportTake(p[1], grid[p[2]])]
  <1>1. n \in Nat /\ DOMAIN grid = 1 .. n /\ \A k \in 1 .. n : grid[k] \in ImportRows
    OBVIOUS
  <1>2. \A v \in Seq(ImportCounted) : \A k \in 1 .. n : g[<<v, k>>] = ImportTake(v, grid[k]) /\ g[<<v, k>>] \in Seq(ImportCounted)
    <2> SUFFICES ASSUME NEW v \in Seq(ImportCounted), NEW k \in 1 .. n
                 PROVE  g[<<v, k>>] = ImportTake(v, grid[k]) /\ g[<<v, k>>] \in Seq(ImportCounted)
      OBVIOUS
    <2>1. grid[k] \in ImportRows
      BY <1>1
    <2>2. ImportTake(v, grid[k]) \in Seq(ImportCounted)
      <3>1. CASE ImportHasNumber(grid[k])
        <4>1. grid[k] \in ImportCounted
          BY <2>1, <3>1 DEF ImportCounted
        <4> QED BY <3>1, <4>1 DEF ImportTake
      <3>2. CASE ~ImportHasNumber(grid[k])
        BY <3>2 DEF ImportTake
      <3> QED BY <3>1, <3>2
    <2> QED BY <2>2
  <1>base. <<>> \in Seq(ImportCounted)
    OBVIOUS
  <1> HIDE DEF n, g
  <1>3. FoldStays(Seq(ImportCounted), g, n)
    BY <1>2 DEF FoldStays
  <1>4. PICK it \in [S -> Seq(ImportCounted)] : IsFold(it, g, <<>>, n)
    BY Zenon, <1>1, <1>base, <1>3, FoldIsThere
  <1>5. \A t \in S : t # {} => Last(t) \in 1 .. n /\ t \ {Last(t)} \in S
    BY <1>1, LastOf
  <1>6. \A t \in S : FoldStep(it, g, <<>>, t)
                       = IF t = {} THEN <<>> ELSE ImportTake(it[t \ {Last(t)}], grid[Last(t)])
    BY <1>2, <1>4, <1>5 DEF FoldStep
  <1>7. ImportTakes(it, grid)
    <2>1. it = [t \in S |-> FoldStep(it, g, <<>>, t)]
      BY <1>4 DEF IsFold
    <2>2. it = [t \in S |-> IF t = {} THEN <<>>
                           ELSE ImportTake(it[t \ {Last(t)}], grid[Last(t)])]
      BY <1>6, <2>1
    <2> QED BY <1>1, <2>2 DEF ImportTakes
  <1> DEFINE jt == CHOOSE j : ImportTakes(j, grid)
  <1>8. ImportTakes(jt, grid)
    BY <1>7
  <1>9. Import!Numbered(grid) = jt[DOMAIN grid]
    BY Zenon DEF Import!Numbered, Import!FoldLeft, Import!MapThenFoldSet, Import!Max, ImportTakes, Last,
       ImportTake, ImportHasNumber
  <1> HIDE DEF jt
  <1>10. \A t \in S : jt[t] = IF t = {} THEN <<>>
                              ELSE ImportTake(jt[t \ {Last(t)}], grid[Last(t)])
    <2> DEFINE ft == [t \in S |-> IF t = {} THEN <<>>
                                 ELSE ImportTake(jt[t \ {Last(t)}], grid[Last(t)])]
    <2>1. jt = ft
      BY Zenon, <1>1, <1>8 DEF ImportTakes
    <2>2. \A t \in S : ft[t] = IF t = {} THEN <<>>
                               ELSE ImportTake(jt[t \ {Last(t)}], grid[Last(t)])
      OBVIOUS
    <2> HIDE DEF ft
    <2> QED BY <2>1, <2>2
  <1>11. jt[{}] = <<>>
    BY <1>10
  <1>12. FoldFollows(jt, Seq(ImportCounted), g, n)
    BY <1>2, <1>5, <1>10 DEF FoldFollows
  <1>13. PICK at \in [0 .. n -> Seq(ImportCounted)] : FoldPasses(at, g, <<>>, jt[1 .. n], n)
    BY Zenon, <1>1, <1>base, <1>3, <1>11, <1>12, FoldPass
  <1>14. at[0] = <<>> /\ at[n] = jt[1 .. n]
    BY <1>13 DEF FoldPasses
  <1>15. \A k \in 1 .. n : at[k] = ImportTake(at[k - 1], grid[k])
    <2> SUFFICES ASSUME NEW k \in 1 .. n PROVE at[k] = ImportTake(at[k - 1], grid[k])
      OBVIOUS
    <2>1. k - 1 \in 0 .. n
      BY <1>1
    <2>2. at[k - 1] \in Seq(ImportCounted)
      BY <2>1
    <2>3. at[k] = g[<<at[k - 1], k>>]
      BY <1>13 DEF FoldPasses
    <2> QED BY <1>2, <2>2, <2>3
  <1>16. at[n] = Import!Numbered(grid)
    BY <1>1, <1>9, <1>14
  <1> QED BY <1>14, <1>15, <1>16 DEF n


\* Of a row with an amount in its column a template makes a line.
ImportSoFar == [category : ImportNames, lines : Seq(ImportLines)]
ImportStart == [category |-> "Uncategorized", lines |-> <<>>]
ImportRead(so, row, column) ==
  IF Import!Parsed(row[column]) = {}
  THEN [so EXCEPT !.category = IF row.first = "" THEN so.category ELSE row.first]
  ELSE [so EXCEPT !.lines =
         Append(so.lines, Import!Line(IF row.first = "" THEN so.category ELSE row.first,
                                      CHOOSE n \in Import!Parsed(row[column]) : TRUE))]
ImportReads(it, grid, column) ==
  it = [s \in SUBSET DOMAIN grid |->
          IF s = {} THEN ImportStart ELSE ImportRead(it[s \ {Last(s)}], grid[Last(s)], column)]

\* What it made, and of what, stays of its type.
LEMMA ImportReadType ==
  ASSUME NEW so \in ImportSoFar, NEW row \in ImportRows, NEW column \in Import!Columns
  PROVE  /\ ImportRead(so, row, column) \in ImportSoFar
         /\ ImportRead(so, row, column).lines =
              IF Import!Parsed(row[column]) = {} THEN so.lines
              ELSE Append(so.lines, Import!Line(IF row.first = "" THEN so.category ELSE row.first, row[column].n))
  <1> DEFINE category == IF row.first = "" THEN so.category ELSE row.first
             amounts == Import!Parsed(row[column])
             amount == CHOOSE n \in amounts : TRUE
             line == Import!Line(category, amount)
  <1>1. row[column] \in ImportCells /\ category \in ImportNames /\ so.lines \in Seq(ImportLines)
        /\ so.category \in ImportNames
    BY DEF ImportRows, ImportSoFar, ImportNames, Import!Columns
  <1>2. amounts # {} => amounts = {row[column].n} /\ row[column].n \in Int
    BY <1>1 DEF Import!Parsed, ImportCells
  <1>3. amounts # {} => amount = row[column].n
    <2> HIDE DEF amounts
    <2> QED BY <1>2
  <1> HIDE DEF amounts, amount, category
  <1>4. so = [category |-> so.category, lines |-> so.lines]
    BY DEF ImportSoFar
  <1>5. amounts # {} => line \in ImportLines
    BY <1>1, <1>2, <1>3 DEF ImportLines, Import!Line
  <1>6. ImportRead(so, row, column) = IF amounts = {} THEN [so EXCEPT !.category = category]
                                      ELSE [so EXCEPT !.lines = Append(so.lines, line)]
    BY Zenon DEF ImportRead, amounts, category, amount
  <1> HIDE DEF line
  <1>7. [so EXCEPT !.category = category] = [category |-> category, lines |-> so.lines]
    BY <1>1 DEF ImportSoFar
  <1>8. amounts # {} => Append(so.lines, line) \in Seq(ImportLines)
    BY <1>1, <1>5
  <1>9. amounts # {} => [so EXCEPT !.lines = Append(so.lines, line)]
                           = [category |-> so.category, lines |-> Append(so.lines, line)]
    BY <1>8 DEF ImportSoFar
  <1>10. amounts # {} => line = Import!Line(category, row[column].n)
    BY <1>3 DEF line
  <1>11. CASE amounts = {}
    BY <1>1, <1>6, <1>7, <1>11 DEF ImportSoFar, amounts
  <1>12. CASE amounts # {}
    <2>1. ImportRead(so, row, column) = [category |-> so.category, lines |-> Append(so.lines, line)]
      BY <1>6, <1>9, <1>12
    <2>2. ImportRead(so, row, column) \in ImportSoFar
      BY <1>1, <1>8, <1>12, <2>1 DEF ImportSoFar
    <2>3. ImportRead(so, row, column).lines = Append(so.lines, Import!Line(category, row[column].n))
      BY <1>10, <1>12, <2>1
    <2> QED BY <1>12, <2>2, <2>3 DEF amounts, category
  <1> QED BY <1>11, <1>12

\* The lines a template reads, row after row.
LEMMA ImportReplayPass ==
  ASSUME NEW grid \in Seq(ImportRows), NEW column \in Import!Columns
  PROVE  \E at \in [0 .. Len(grid) -> ImportSoFar] :
           /\ at[0] = ImportStart /\ at[Len(grid)].lines = Import!Replay(grid, column)
           /\ \A k \in 1 .. Len(grid) : at[k] = ImportRead(at[k - 1], grid[k], column)
  <1> DEFINE n == Len(grid)
             S == SUBSET (1 .. n)
             g == [p \in ImportSoFar \X (1 .. n) |-> ImportRead(p[1], grid[p[2]], column)]
  <1>1. n \in Nat /\ DOMAIN grid = 1 .. n /\ \A k \in 1 .. n : grid[k] \in ImportRows
    OBVIOUS
  <1>2. \A v \in ImportSoFar : \A k \in 1 .. n : g[<<v, k>>] = ImportRead(v, grid[k], column) /\ g[<<v, k>>] \in ImportSoFar
    <2> SUFFICES ASSUME NEW v \in ImportSoFar, NEW k \in 1 .. n
                 PROVE  g[<<v, k>>] = ImportRead(v, grid[k], column) /\ g[<<v, k>>] \in ImportSoFar
      OBVIOUS
    <2>1. grid[k] \in ImportRows
      BY <1>1
    <2>2. ImportRead(v, grid[k], column) \in ImportSoFar
      BY <2>1, ImportReadType
    <2> QED BY <2>2
  <1>base. ImportStart \in ImportSoFar
    <2>1. <<>> \in Seq(ImportLines)
      OBVIOUS
    <2>2. "Uncategorized" \in ImportNames
      BY DEF ImportNames
    <2> QED BY <2>1, <2>2 DEF ImportStart, ImportSoFar
  <1> HIDE DEF n, g
  <1>3. FoldStays(ImportSoFar, g, n)
    BY <1>2 DEF FoldStays
  <1>4. PICK it \in [S -> ImportSoFar] : IsFold(it, g, ImportStart, n)
    BY Zenon, <1>1, <1>base, <1>3, FoldIsThere
  <1>5. \A t \in S : t # {} => Last(t) \in 1 .. n /\ t \ {Last(t)} \in S
    BY <1>1, LastOf
  <1>6. \A t \in S : FoldStep(it, g, ImportStart, t)
                       = IF t = {} THEN ImportStart ELSE ImportRead(it[t \ {Last(t)}], grid[Last(t)], column)
    BY <1>2, <1>4, <1>5 DEF FoldStep
  <1>7. ImportReads(it, grid, column)
    <2>1. it = [t \in S |-> FoldStep(it, g, ImportStart, t)]
      BY <1>4 DEF IsFold
    <2>2. it = [t \in S |-> IF t = {} THEN ImportStart
                           ELSE ImportRead(it[t \ {Last(t)}], grid[Last(t)], column)]
      BY <1>6, <2>1
    <2> QED BY <1>1, <2>2 DEF ImportReads
  <1> DEFINE jt == CHOOSE j : ImportReads(j, grid, column)
  <1>8. ImportReads(jt, grid, column)
    BY <1>7
  <1>9. Import!Replay(grid, column) = jt[DOMAIN grid].lines
    BY Zenon DEF Import!Replay, Import!FoldLeft, Import!MapThenFoldSet, Import!Max, ImportReads, Last,
       ImportRead, ImportStart
  <1> HIDE DEF jt
  <1>10. \A t \in S : jt[t] = IF t = {} THEN ImportStart
                              ELSE ImportRead(jt[t \ {Last(t)}], grid[Last(t)], column)
    <2> DEFINE ft == [t \in S |-> IF t = {} THEN ImportStart
                                 ELSE ImportRead(jt[t \ {Last(t)}], grid[Last(t)], column)]
    <2>1. jt = ft
      BY Zenon, <1>1, <1>8 DEF ImportReads
    <2>2. \A t \in S : ft[t] = IF t = {} THEN ImportStart
                               ELSE ImportRead(jt[t \ {Last(t)}], grid[Last(t)], column)
      OBVIOUS
    <2> HIDE DEF ft
    <2> QED BY <2>1, <2>2
  <1>11. jt[{}] = ImportStart
    BY <1>10
  <1>12. FoldFollows(jt, ImportSoFar, g, n)
    BY <1>2, <1>5, <1>10 DEF FoldFollows
  <1>13. PICK at \in [0 .. n -> ImportSoFar] : FoldPasses(at, g, ImportStart, jt[1 .. n], n)
    BY Zenon, <1>1, <1>base, <1>3, <1>11, <1>12, FoldPass
  <1>14. at[0] = ImportStart /\ at[n] = jt[1 .. n]
    BY <1>13 DEF FoldPasses
  <1>15. \A k \in 1 .. n : at[k] = ImportRead(at[k - 1], grid[k], column)
    <2> SUFFICES ASSUME NEW k \in 1 .. n PROVE at[k] = ImportRead(at[k - 1], grid[k], column)
      OBVIOUS
    <2>1. k - 1 \in 0 .. n
      BY <1>1
    <2>2. at[k - 1] \in ImportSoFar
      BY <2>1
    <2>3. at[k] = g[<<at[k - 1], k>>]
      BY <1>13 DEF FoldPasses
    <2> QED BY <1>2, <2>2, <2>3
  <1>16. at[n].lines = Import!Replay(grid, column)
    BY <1>1, <1>9, <1>14
  <1> QED BY <1>14, <1>15, <1>16 DEF n

\* A local and a donor amount in every row with a number, and no number in its text.
ImportPlain(grid) ==
  \A i \in DOMAIN grid : \A c \in Import!Columns :
    /\ grid[i][c].kind = "number" => \A d \in Import!Columns : grid[i][d].kind = "number"
    /\ grid[i][c].kind = "text" => grid[i][c].n = 0

\* The lines have the amounts of the rows in a column.
ImportAlike(made, rows, column) ==
  /\ Len(made) = Len(rows)
  /\ \A i \in 1 .. Len(rows) :
       made[i].amount = rows[i][column].n /\ \A d \in Import!Columns : rows[i][d].kind = "number"

\* One row more.
LEMMA ImportAlikeStep ==
  ASSUME NEW so \in ImportSoFar, NEW rows \in Seq(ImportRows), NEW row \in ImportRows,
         NEW column \in Import!Columns, ImportAlike(so.lines, rows, column),
         \A c \in Import!Columns :
           /\ row[c].kind = "number" => \A d \in Import!Columns : row[d].kind = "number"
           /\ row[c].kind = "text" => row[c].n = 0
  PROVE  ImportAlike(ImportRead(so, row, column).lines, ImportTake(rows, row), column)
  <1> DEFINE new == ImportRead(so, row, column).lines
             line == Import!Line(IF row.first = "" THEN so.category ELSE row.first, row[column].n)
  <1>1. new = IF Import!Parsed(row[column]) = {} THEN so.lines ELSE Append(so.lines, line)
    BY ImportReadType
  <1>2. Import!Parsed(row[column]) # {} <=> ImportHasNumber(row)
    BY DEF Import!Parsed, ImportHasNumber
  <1>3. line.amount = row[column].n
    BY DEF Import!Line
  <1>4. so.lines \in Seq(ImportLines) /\ Len(so.lines) = Len(rows)
    BY DEF ImportSoFar, ImportAlike
  <1> HIDE DEF new, line
  <1>5. CASE ~ImportHasNumber(row)
    BY <1>1, <1>2, <1>5 DEF ImportTake, new
  <1>6. CASE ImportHasNumber(row)
    <2>1. new = Append(so.lines, line) /\ ImportTake(rows, row) = Append(rows, row)
      BY <1>1, <1>2, <1>6 DEF ImportTake
    <2>2. \A d \in Import!Columns : row[d].kind = "number"
      BY <1>6 DEF ImportHasNumber
    <2> DEFINE n == Len(rows)
    <2>3. /\ Len(Append(so.lines, line)) = n + 1 /\ Len(Append(rows, row)) = n + 1 /\ n \in Nat
          /\ Append(so.lines, line)[n + 1] = line /\ Append(rows, row)[n + 1] = row
          /\ \A i \in 1 .. n : Append(so.lines, line)[i] = so.lines[i] /\ Append(rows, row)[i] = rows[i]
      <3>1. n \in Nat /\ Len(so.lines) = n
        BY <1>4
      <3>2. /\ Len(Append(so.lines, line)) = n + 1 /\ Append(so.lines, line)[n + 1] = line
            /\ \A i \in 1 .. n : Append(so.lines, line)[i] = so.lines[i]
        <4> HIDE DEF n
        <4> QED BY <1>4, <3>1
      <3>3. /\ Len(Append(rows, row)) = n + 1 /\ Append(rows, row)[n + 1] = row
            /\ \A i \in 1 .. n : Append(rows, row)[i] = rows[i]
        OBVIOUS
      <3> QED BY <3>1, <3>2, <3>3
    <2> HIDE DEF n
    <2>4. \A i \in 1 .. n + 1 : i = n + 1 \/ i \in 1 .. n
      BY <2>3
    <2>5. \A i \in 1 .. n : so.lines[i].amount = rows[i][column].n
                           /\ \A d \in Import!Columns : rows[i][d].kind = "number"
      BY DEF ImportAlike, n
    <2>6. \A i \in 1 .. n + 1 : new[i].amount = ImportTake(rows, row)[i][column].n
                               /\ \A d \in Import!Columns : ImportTake(rows, row)[i][d].kind = "number"
      BY <1>3, <2>1, <2>2, <2>3, <2>4, <2>5
    <2>7. ImportAlike(new, ImportTake(rows, row), column)
      BY <2>1, <2>3, <2>6 DEF ImportAlike
    <2> QED BY <2>7 DEF new
  <1> QED BY <1>5, <1>6

\* A template makes the lines of the rows with a number.
LEMMA ImportReplays ==
  ASSUME NEW grid \in Seq(ImportRows), NEW column \in Import!Columns
  PROVE  /\ Import!Replay(grid, column) \in Seq(ImportLines) /\ Import!Numbered(grid) \in Seq(ImportCounted)
         /\ ImportPlain(grid) => ImportAlike(Import!Replay(grid, column), Import!Numbered(grid), column)
  <1> DEFINE n == Len(grid)
  <1>1. n \in Nat /\ DOMAIN grid = 1 .. n /\ \A k \in 1 .. n : grid[k] \in ImportRows
    OBVIOUS
  <1>2. PICK so \in [0 .. n -> ImportSoFar] :
          /\ so[0] = ImportStart /\ so[n].lines = Import!Replay(grid, column)
          /\ \A k \in 1 .. n : so[k] = ImportRead(so[k - 1], grid[k], column)
    BY ImportReplayPass
  <1>3. PICK rows \in [0 .. n -> Seq(ImportCounted)] :
          /\ rows[0] = <<>> /\ rows[n] = Import!Numbered(grid)
          /\ \A k \in 1 .. n : rows[k] = ImportTake(rows[k - 1], grid[k])
    BY ImportNumberedPass
  <1> HIDE DEF n
  <1> DEFINE Good == {k \in Nat : k =< n => ImportAlike(so[k].lines, rows[k], column)}
  <1>4. ASSUME ImportPlain(grid) PROVE n \in Good
    <2>1. 0 \in Good
      <3>1. so[0].lines = <<>> /\ rows[0] = <<>>
        BY <1>2, <1>3 DEF ImportStart
      <3>2. Len(<<>>) = 0 /\ 1 .. 0 = {}
        OBVIOUS
      <3>3. ImportAlike(so[0].lines, rows[0], column)
        BY <3>1, <3>2 DEF ImportAlike
      <3> QED BY <3>3
    <2>2. \A k \in Nat : k \in Good => k + 1 \in Good
      <3> SUFFICES ASSUME NEW k \in Nat, k \in Good PROVE k + 1 \in Good
        OBVIOUS
      <3> SUFFICES ASSUME k + 1 =< n PROVE ImportAlike(so[k + 1].lines, rows[k + 1], column)
        <4>1. k + 1 \in Nat
          OBVIOUS
        <4> QED BY <4>1
      <3>1. k + 1 \in 1 .. n /\ (k + 1) - 1 = k /\ k \in 0 .. n /\ k =< n
        BY <1>1
      <3>2. /\ so[k + 1] = ImportRead(so[k], grid[k + 1], column) /\ so[k] \in ImportSoFar
            /\ rows[k + 1] = ImportTake(rows[k], grid[k + 1]) /\ rows[k] \in Seq(ImportCounted)
            /\ grid[k + 1] \in ImportRows
        BY <1>1, <1>2, <1>3, <3>1
      <3>3. ImportAlike(so[k].lines, rows[k], column) /\ rows[k] \in Seq(ImportRows)
        BY <3>1, <3>2 DEF ImportCounted
      <3>4. \A c \in Import!Columns :
             /\ grid[k + 1][c].kind = "number" => \A d \in Import!Columns : grid[k + 1][d].kind = "number"
             /\ grid[k + 1][c].kind = "text" => grid[k + 1][c].n = 0
        BY <1>1, <1>4, <3>1 DEF ImportPlain
      <3> HIDE DEF Good
      <3> QED BY <3>2, <3>3, <3>4, ImportAlikeStep
    <2>3. Nat \subseteq Good
      <3> HIDE DEF Good
      <3> QED BY <2>1, <2>2, NumberInduction
    <2> QED BY <1>1, <2>3
  <1>5. so[n] \in ImportSoFar /\ rows[n] \in Seq(ImportCounted)
    BY <1>1
  <1>6. so[n].lines \in Seq(ImportLines)
    BY <1>5 DEF ImportSoFar
  <1> QED BY <1>1, <1>2, <1>3, <1>4, <1>5, <1>6

\* An extraction is labelled by a column.
LEMMA ImportExtracted ==
  ASSUME NEW grid, NEW x \in Import!Extractions(grid)
  PROVE  \E c \in Import!Columns :
           x.local = c /\ x.lines = Import!Labelled(Import!Numbered(grid), c) /\ x.known \in BOOLEAN
  <1>1. PICK c \in Import!Columns, total \in {0, Import!Stated(Import!Numbered(grid))}, known \in BOOLEAN :
          x = [lines |-> Import!Labelled(Import!Numbered(grid), c), local |-> c, total |-> total, known |-> known]
    BY DEF Import!Extractions
  <1> QED BY <1>1

\* A row has one or two amounts, which are numbers.
LEMMA ImportLabelledType ==
  ASSUME Import!ImportAssumption, NEW rows \in Seq(ImportCounted),
         NEW c \in Import!Columns, NEW d \in Import!Columns, d # c
  PROVE  /\ DOMAIN Import!Labelled(rows, c) = 1 .. Len(rows)
         /\ \A i \in 1 .. Len(rows) :
              /\ Import!Labelled(rows, c)[i].local = IF rows[i][c].kind = "number" THEN {rows[i][c].n} ELSE {}
              /\ Import!Labelled(rows, c)[i].target = IF rows[i][d].kind = "number" THEN {rows[i][d].n} ELSE {}
              /\ rows[i][c].n \in Int /\ rows[i][d].n \in Int
              /\ rows[i][c].kind = "number" \/ rows[i][d].kind = "number"
  <1> DEFINE other == CHOOSE e \in Import!Columns : e # c
  <1>1. Import!Columns = {c, d} /\ other = d
    BY DEF Import!Columns
  <1> HIDE DEF other
  <1>2. \A i \in 1 .. Len(rows) : rows[i] \in ImportRows /\ ImportHasNumber(rows[i])
    BY DEF ImportCounted
  <1>3. \A i \in 1 .. Len(rows) :
          /\ rows[i][c].n \in Int /\ rows[i][d].n \in Int
          /\ rows[i][c].kind = "number" \/ rows[i][d].kind = "number"
    <2> SUFFICES ASSUME NEW i \in 1 .. Len(rows)
                 PROVE  /\ rows[i][c].n \in Int /\ rows[i][d].n \in Int
                        /\ rows[i][c].kind = "number" \/ rows[i][d].kind = "number"
      OBVIOUS
    <2>1. rows[i] \in ImportRows /\ ImportHasNumber(rows[i])
      BY <1>2
    <2>2. rows[i][c].n \in Int /\ rows[i][d].n \in Int
      BY <1>1, <2>1 DEF ImportRows, ImportCells, Import!Columns
    <2>3. rows[i][c].kind = "number" \/ rows[i][d].kind = "number"
      BY <1>1, <2>1 DEF ImportHasNumber
    <2> QED BY <2>2, <2>3
  <1>4. Import!Labelled(rows, c)
          = [i \in 1 .. Len(rows) |->
               [local |-> IF rows[i][c].kind = "number" THEN {rows[i][c].n} ELSE {},
                target |-> IF rows[i][d].kind = "number" THEN {rows[i][d].n} ELSE {}]]
    <2>1. DOMAIN rows = 1 .. Len(rows)
      OBVIOUS
    <2>2. Import!Labelled(rows, c)
            = [i \in DOMAIN rows |->
                 [local |-> IF rows[i][c].kind = "number" THEN {rows[i][c].n} ELSE {},
                  target |-> IF rows[i][other].kind = "number" THEN {rows[i][other].n} ELSE {}]]
      BY Zenon DEF Import!Labelled, other
    <2> QED BY Zenon, <1>1, <2>1, <2>2
  <1>5. /\ DOMAIN Import!Labelled(rows, c) = 1 .. Len(rows)
        /\ \A i \in 1 .. Len(rows) :
             Import!Labelled(rows, c)[i]
               = [local |-> IF rows[i][c].kind = "number" THEN {rows[i][c].n} ELSE {},
                  target |-> IF rows[i][d].kind = "number" THEN {rows[i][d].n} ELSE {}]
    BY <1>4
  <1>6. \A i \in 1 .. Len(rows) :
          /\ Import!Labelled(rows, c)[i].local = IF rows[i][c].kind = "number" THEN {rows[i][c].n} ELSE {}
          /\ Import!Labelled(rows, c)[i].target = IF rows[i][d].kind = "number" THEN {rows[i][d].n} ELSE {}
    <2> TAKE i \in 1 .. Len(rows)
    <2> DEFINE one == IF rows[i][c].kind = "number" THEN {rows[i][c].n} ELSE {}
               two == IF rows[i][d].kind = "number" THEN {rows[i][d].n} ELSE {}
    <2>1. Import!Labelled(rows, c)[i] = [local |-> one, target |-> two]
      BY <1>5
    <2> HIDE DEF one, two
    <2>2. Import!Labelled(rows, c)[i].local = one /\ Import!Labelled(rows, c)[i].target = two
      BY <2>1
    <2> QED BY <2>2 DEF one, two
  <1> QED BY <1>3, <1>5, <1>6

\* The lines that are read have the amounts of a column, where both columns have one.
LEMMA ImportReadAmounts ==
  ASSUME Import!ImportAssumption, NEW rows \in Seq(ImportCounted), NEW c \in Import!Columns,
         NEW x, x.local = c, x.lines = Import!Labelled(rows, c)
  PROVE  LET column == IF Import!ShouldSwap(x) THEN CHOOSE e \in Import!Columns : e # c ELSE c
         IN  /\ Import!Imported(x) \in Seq(ImportLines) /\ Len(Import!Imported(x)) = Len(rows)
             /\ \A i \in 1 .. Len(rows) : (\A e \in Import!Columns : rows[i][e].kind = "number")
                                          => Import!Imported(x)[i].amount = rows[i][column].n
  <1> DEFINE d == CHOOSE e \in Import!Columns : e # c
             swap == Import!ShouldSwap(x)
             its == x.lines
             read == Import!Imported(x)
             Mine(i) == IF swap THEN its[i].target ELSE its[i].local
             Others(i) == IF swap THEN its[i].local ELSE its[i].target
             Set(i) == IF Mine(i) # {} THEN Mine(i) ELSE Others(i)
             column == IF swap THEN d ELSE c
  <1>1. d \in Import!Columns /\ d # c /\ Import!Columns = {c, d}
    BY DEF Import!Columns
  <1>its. its = Import!Labelled(rows, c)
    OBVIOUS
  <1> HIDE DEF d, its
  <1>2. /\ DOMAIN its = 1 .. Len(rows)
        /\ \A i \in 1 .. Len(rows) :
             /\ its[i].local = IF rows[i][c].kind = "number" THEN {rows[i][c].n} ELSE {}
             /\ its[i].target = IF rows[i][d].kind = "number" THEN {rows[i][d].n} ELSE {}
             /\ rows[i][c].n \in Int /\ rows[i][d].n \in Int
             /\ rows[i][c].kind = "number" \/ rows[i][d].kind = "number"
    <2>1. /\ DOMAIN Import!Labelled(rows, c) = 1 .. Len(rows)
          /\ \A i \in 1 .. Len(rows) :
               /\ Import!Labelled(rows, c)[i].local = IF rows[i][c].kind = "number" THEN {rows[i][c].n} ELSE {}
               /\ Import!Labelled(rows, c)[i].target = IF rows[i][d].kind = "number" THEN {rows[i][d].n} ELSE {}
               /\ rows[i][c].n \in Int /\ rows[i][d].n \in Int
               /\ rows[i][c].kind = "number" \/ rows[i][d].kind = "number"
      BY Zenon, <1>1, ImportLabelledType
    <2> QED BY Zenon, <1>its, <2>1

  <1>3. read = [i \in DOMAIN its |-> Import!Line("read", CHOOSE n \in Set(i) : TRUE)]
    BY Zenon DEF Import!Imported, its
  <1>4. read = [i \in 1 .. Len(rows) |-> Import!Line("read", CHOOSE n \in Set(i) : TRUE)]
    BY Zenon, <1>2, <1>3
  <1> HIDE DEF swap, read
  <1>5. \A i \in 1 .. Len(rows) :
          /\ Set(i) \in SUBSET Int /\ Set(i) # {}
          /\ (\A e \in Import!Columns : rows[i][e].kind = "number") => Set(i) = {rows[i][column].n}
    <2> SUFFICES ASSUME NEW i \in 1 .. Len(rows)
                 PROVE  /\ Set(i) \in SUBSET Int /\ Set(i) # {}
                        /\ (\A e \in Import!Columns : rows[i][e].kind = "number") => Set(i) = {rows[i][column].n}
      OBVIOUS
    <2>1. CASE swap
      BY <1>1, <1>2, <2>1
    <2>2. CASE ~swap
      BY <1>1, <1>2, <2>2
    <2> QED BY <2>1, <2>2
  <1> HIDE DEF Set
  <1>6. \A i \in 1 .. Len(rows) :
          /\ (CHOOSE n \in Set(i) : TRUE) \in Int
          /\ (\A e \in Import!Columns : rows[i][e].kind = "number")
               => (CHOOSE n \in Set(i) : TRUE) = rows[i][column].n
    BY <1>5
  <1>7. \A n \in Int : Import!Line("read", n) \in ImportLines /\ Import!Line("read", n).amount = n
    BY DEF Import!Line, ImportLines, ImportNames
  <1>8. \A i \in 1 .. Len(rows) :
          /\ read[i] \in ImportLines
          /\ (\A e \in Import!Columns : rows[i][e].kind = "number") => read[i].amount = rows[i][column].n
    BY <1>4, <1>6, <1>7
  <1>9. read \in Seq(ImportLines) /\ Len(read) = Len(rows)
    <2>1. Len(rows) \in Nat /\ DOMAIN read = 1 .. Len(rows) /\ read = [i \in 1 .. Len(rows) |-> read[i]]
      BY <1>4
    <2>2. read \in [1 .. Len(rows) -> ImportLines]
      BY <1>8, <2>1
    <2> QED BY <2>1, <2>2
  <1> QED BY <1>8, <1>9 DEF d, read, swap

\* What is read off a grid is lines, none only where there is no row with a number; an import
\* whose column is known has the amounts that a replay of the column has.
LEMMA ImportReading ==
  ASSUME Import!ImportAssumption, NEW grid \in Seq(ImportRows), NEW x \in Import!Extractions(grid)
  PROVE  /\ Import!Imported(x) \in Seq(ImportLines)
         /\ x.lines # <<>> => Import!Imported(x) # <<>>
         /\ Import!AmountColumn(x) \in Import!Columns \cup {none}
         /\ ImportPlain(grid) /\ Import!AmountColumn(x) # none =>
              LET made == Import!Replay(grid, Import!AmountColumn(x))
                  read == Import!Imported(x)
              IN  [i \in DOMAIN made |-> made[i].amount] = [i \in DOMAIN read |-> read[i].amount]
  <1> DEFINE rows == Import!Numbered(grid)
             column == Import!AmountColumn(x)
             read == Import!Imported(x)
  <1>1. PICK c \in Import!Columns : x.local = c /\ x.lines = Import!Labelled(rows, c) /\ x.known \in BOOLEAN
    BY ImportExtracted
  <1> DEFINE d == CHOOSE e \in Import!Columns : e # c
             swapped == IF Import!ShouldSwap(x) THEN d ELSE c
  <1>2. d \in Import!Columns
    BY DEF Import!Columns
  <1>3. rows \in Seq(ImportCounted)
    BY <1>1, ImportReplays
  <1>4. /\ read \in Seq(ImportLines) /\ Len(read) = Len(rows)
        /\ \A i \in 1 .. Len(rows) : (\A e \in Import!Columns : rows[i][e].kind = "number")
                                     => read[i].amount = rows[i][swapped].n
    BY Zenon, <1>1, <1>3, ImportReadAmounts
  <1>5. x.lines # <<>> => read # <<>>
    <2>1. Len(rows) = 0 => Import!Labelled(rows, c) = <<>>
      <3> SUFFICES ASSUME Len(rows) = 0 PROVE Import!Labelled(rows, c) = <<>>
        OBVIOUS
      <3>1. rows = <<>>
        BY <1>3
      <3>2. DOMAIN rows = {}
        BY <3>1
      <3> QED BY <3>2 DEF Import!Labelled
    <2>2. Len(rows) # 0 => read # <<>>
      BY <1>4
    <2> QED BY <1>1, <2>1, <2>2
  <1>6. column \in {none, swapped} /\ (column # none => column = swapped)
    BY <1>1 DEF Import!AmountColumn
  <1>7. column \in Import!Columns \cup {none}
    BY <1>2, <1>6
  <1>8. ASSUME ImportPlain(grid), column # none
        PROVE  LET made == Import!Replay(grid, column)
               IN  [i \in DOMAIN made |-> made[i].amount] = [i \in DOMAIN read |-> read[i].amount]
    <2> DEFINE made == Import!Replay(grid, column)
    <2>1. column \in Import!Columns /\ column = swapped
      BY <1>2, <1>6, <1>8
    <2>2. made \in Seq(ImportLines) /\ ImportAlike(made, rows, column)
      BY Zenon, <1>8, <2>1, ImportReplays
    <2> HIDE DEF made, read, rows, column, swapped
    <2>3. /\ Len(made) = Len(rows) /\ Len(read) = Len(rows)
          /\ DOMAIN made = 1 .. Len(rows) /\ DOMAIN read = 1 .. Len(rows)
      BY <1>4, <2>2 DEF ImportAlike
    <2>4. \A i \in 1 .. Len(rows) : made[i].amount = read[i].amount
      BY <1>4, <2>1, <2>2 DEF ImportAlike
    <2>5. [i \in DOMAIN made |-> made[i].amount] = [i \in DOMAIN read |-> read[i].amount]
      BY <2>3, <2>4
    <2> QED BY <2>5 DEF made
  <1> QED BY <1>4, <1>5, <1>7, <1>8

\* What an import, a budget, a template and a request hold.
ImportUpload ==
  [at : {"idle", "refused", "unmatched", "matched", "extracted", "done"}, sheet : Sheets \cup {none},
   template : Nat, lines : Seq(ImportLines), amounts : Import!Columns \cup {none}]
ImportLayouts == {Import!Fingerprint(Import!Grid(s)) : s \in Sheets} \cup {none}
ImportBudget ==
  [lines : Seq(ImportLines), template : Nat, layout : ImportLayouts,
   amounts : Import!Columns \cup {none}, locked : Nat]
ImportTemplate == [layout : ImportLayouts, amounts : Import!Columns, from : Uploads]
ImportSaver == [at : {"idle", "save", "name", "over"}, budget : Uploads \cup {none}, template : Nat]

\* The lines have the amounts that a replay of the column has.
ImportRepeats(v) ==
  LET made == Import!Replay(Import!Grid(v.sheet), v.amounts)
  IN  ImportPlain(Import!Grid(v.sheet))
        => [i \in DOMAIN made |-> made[i].amount] = [i \in DOMAIN v.lines |-> v.lines[i].amount]

\* What holds of one of them, where there are n templates.
ImportHolds(v, n) ==
  /\ v.at \in {"unmatched", "matched", "extracted", "done"} => v.sheet \in Sheets
  /\ v.at \in {"matched", "extracted", "done"} => v.lines # <<>>
  /\ v.at \in {"idle", "unmatched", "matched"} => v.amounts = none
  /\ v.amounts # none => v.sheet \in Sheets /\ ImportRepeats(v)
  /\ v.template =< n
ImportBudgetHolds(b, v, n) ==
  /\ b.template =< n
  /\ b.layout # none => v.at = "done" /\ b.amounts \in Import!Columns /\ b.amounts = v.amounts
ImportTemplateHolds(t, v) == v.at = "done" /\ t.amounts = v.amounts
ImportSaverHolds(w, bs, n) ==
  /\ w.at = "save" => w.budget \in Uploads /\ bs[w.budget].layout # none
  /\ w.at = "name" => w.budget \in Uploads /\ w.template \in 1 .. n

\* The invariant.
ImportInv ==
  /\ upload \in [Uploads -> ImportUpload] /\ budgets \in [Uploads -> ImportBudget]
  /\ templates \in Seq(ImportTemplate) /\ saver \in [Savers -> ImportSaver]
  /\ \A u \in Uploads : ImportHolds(upload[u], Len(templates))
  /\ \A u \in Uploads : ImportBudgetHolds(budgets[u], upload[u], Len(templates))
  /\ \A t \in DOMAIN templates : ImportTemplateHolds(templates[t], upload[templates[t].from])
  /\ \A w \in Savers : ImportSaverHolds(saver[w], budgets, Len(templates))

\* It holds at the start.
LEMMA ImportInvInit ==
  ASSUME Import!ImportAssumption, Import!Init PROVE ImportInv
  <1> DEFINE u0 == Import!NoUpload
             b0 == Import!NoBudget
             w0 == Import!NoSaver
  <1>1. upload = [u \in Uploads |-> u0] /\ budgets = [u \in Uploads |-> b0] /\ templates = <<>>
        /\ saver = [w \in Savers |-> w0]
    BY DEF Import!Init
  <1>2. u0 \in ImportUpload /\ ImportHolds(u0, 0)
    BY DEF Import!NoUpload, ImportUpload, ImportHolds
  <1>3. b0 \in ImportBudget /\ b0.template = 0 /\ b0.layout = none
    BY DEF Import!NoBudget, ImportBudget, ImportLayouts
  <1>4. w0 \in ImportSaver /\ w0.at = "idle"
    BY DEF Import!NoSaver, ImportSaver
  <1>5. Len(templates) = 0 /\ templates \in Seq(ImportTemplate) /\ DOMAIN templates = {}
    BY <1>1
  <1> HIDE DEF u0, b0, w0
  <1>6. /\ upload \in [Uploads -> ImportUpload] /\ budgets \in [Uploads -> ImportBudget]
        /\ saver \in [Savers -> ImportSaver]
    BY <1>1, <1>2, <1>3, <1>4
  <1>7. \A u \in Uploads : ImportHolds(upload[u], Len(templates))
    BY <1>1, <1>2, <1>5
  <1>8. \A u \in Uploads : ImportBudgetHolds(budgets[u], upload[u], Len(templates))
    BY <1>1, <1>3, <1>5 DEF ImportBudgetHolds
  <1>9. \A w \in Savers : ImportSaverHolds(saver[w], budgets, Len(templates))
    BY <1>1, <1>4 DEF ImportSaverHolds
  <1> QED BY <1>5, <1>6, <1>7, <1>8, <1>9 DEF ImportInv

\* An import goes on, or its budget is changed.
LEMMA ImportWritten ==
  ASSUME ImportInv, NEW u \in Uploads,
         NEW v \in ImportUpload, ImportHolds(v, Len(templates)),
         NEW b \in ImportBudget, ImportBudgetHolds(b, v, Len(templates)),
         upload[u].at = "done" => v.at = "done" /\ v.amounts = upload[u].amounts,
         budgets[u].layout # none => b.layout # none,
         upload' = [upload EXCEPT ![u] = v], budgets' = [budgets EXCEPT ![u] = b], UNCHANGED <<templates, saver>>
  PROVE  ImportInv'
  <1>1. upload' \in [Uploads -> ImportUpload] /\ \A w \in Uploads : upload'[w] = IF w = u THEN v ELSE upload[w]
    BY DEF ImportInv
  <1>2. budgets' \in [Uploads -> ImportBudget] /\ \A w \in Uploads : budgets'[w] = IF w = u THEN b ELSE budgets[w]
    BY DEF ImportInv
  <1>3. \A w \in Uploads : ImportHolds(upload'[w], Len(templates'))
    BY <1>1 DEF ImportInv
  <1>4. \A w \in Uploads : ImportBudgetHolds(budgets'[w], upload'[w], Len(templates'))
    BY <1>1, <1>2 DEF ImportInv
  <1>5. \A t \in DOMAIN templates' : ImportTemplateHolds(templates'[t], upload'[templates'[t].from])
    <2> SUFFICES ASSUME NEW t \in DOMAIN templates
                 PROVE  ImportTemplateHolds(templates[t], upload'[templates[t].from])
      OBVIOUS
    <2>1. templates[t] \in ImportTemplate /\ ImportTemplateHolds(templates[t], upload[templates[t].from])
      BY DEF ImportInv
    <2>2. templates[t].from \in Uploads
      BY <2>1 DEF ImportTemplate
    <2> QED BY <1>1, <2>1, <2>2 DEF ImportTemplateHolds
  <1>6. \A w \in Savers : ImportSaverHolds(saver'[w], budgets', Len(templates'))
    <2> SUFFICES ASSUME NEW w \in Savers PROVE ImportSaverHolds(saver[w], budgets', Len(templates))
      OBVIOUS
    <2>1. ImportSaverHolds(saver[w], budgets, Len(templates))
      BY DEF ImportInv
    <2> QED BY <1>2, <2>1 DEF ImportSaverHolds
  <1> QED BY <1>1, <1>2, <1>3, <1>4, <1>5, <1>6 DEF ImportInv

\* An import goes on, and its budget is as it was.
LEMMA ImportGoesOn ==
  ASSUME ImportInv, NEW u \in Uploads, NEW v \in ImportUpload, ImportHolds(v, Len(templates)),
         upload[u].at # "done", upload' = [upload EXCEPT ![u] = v], UNCHANGED <<budgets, templates, saver>>
  PROVE  ImportInv'
  <1> DEFINE b == budgets[u]
  <1>1. b \in ImportBudget /\ ImportBudgetHolds(b, upload[u], Len(templates)) /\ budgets = [budgets EXCEPT ![u] = b]
    BY DEF ImportInv
  <1>2. ImportBudgetHolds(b, v, Len(templates)) /\ b.layout = none
    BY <1>1 DEF ImportBudgetHolds
  <1>3. budgets' = [budgets EXCEPT ![u] = b]
    BY <1>1
  <1> HIDE DEF b
  <1> QED BY <1>1, <1>2, <1>3, ImportWritten DEF b

\* An import is refused.
LEMMA ImportRefused ==
  ASSUME ImportInv, NEW u \in Uploads, upload[u].at # "done",
         upload' = [upload EXCEPT ![u].at = "refused"], UNCHANGED <<budgets, templates, saver>>
  PROVE  ImportInv'
  <1> DEFINE o == upload[u]
             v == [o EXCEPT !.at = "refused"]
  <1>1. o \in ImportUpload /\ ImportHolds(o, Len(templates)) /\ upload \in [Uploads -> ImportUpload]
    BY DEF ImportInv
  <1>2. upload' = [upload EXCEPT ![u] = v]
    OBVIOUS
  <1> HIDE DEF o
  <1>3. v \in ImportUpload /\ v.at = "refused" /\ v.sheet = o.sheet /\ v.template = o.template
        /\ v.lines = o.lines /\ v.amounts = o.amounts
    BY <1>1 DEF ImportUpload
  <1> HIDE DEF v
  <1>4. ImportHolds(v, Len(templates))
    BY <1>1, <1>3 DEF ImportHolds, ImportRepeats
  <1> QED BY <1>2, <1>3, <1>4, ImportGoesOn

\* The grid of a sheet.
LEMMA ImportSheetGrid ==
  ASSUME Import!ImportAssumption, NEW sheet \in Sheets
  PROVE  Import!Grid(sheet) \in Seq(ImportRows)
  <1>1. Sheets \subseteq Seq(ImportRows)
    BY Zenon DEF Import!ImportAssumption, ImportRows, ImportCells
  <1> QED BY <1>1, ImportGridType

\* The template that is used is one of those there are.
LEMMA ImportMatch ==
  ASSUME ImportInv, NEW grid, Import!Matches(grid) # {}
  PROVE  LET t == Import!First(Import!Matches(grid))
         IN  t \in 1 .. Len(templates) /\ templates[t] \in ImportTemplate
  <1> DEFINE ts == Import!Matches(grid)
  <1>1. templates \in Seq(ImportTemplate) /\ DOMAIN templates = 1 .. Len(templates) /\ Len(templates) \in Nat
    BY DEF ImportInv
  <1>2. ts \in SUBSET (1 .. Len(templates))
    BY <1>1 DEF Import!Matches
  <1> HIDE DEF ts
  <1>3. \E t \in ts : \A r \in ts : t =< r
    BY <1>1, <1>2, LeastNumber DEF ts
  <1>4. Import!First(ts) \in ts
    BY <1>3 DEF Import!First
  <1> QED BY <1>1, <1>2, <1>4 DEF ts

\* What is written of an import: its state and its sheet, and the template and the lines.
LEMMA ImportMatched ==
  ASSUME NEW o \in ImportUpload, NEW sheet \in Sheets, NEW t \in Nat, NEW ls \in Seq(ImportLines)
  PROVE  [[[[o EXCEPT !.at = "matched"] EXCEPT !.sheet = sheet] EXCEPT !.template = t] EXCEPT !.lines = ls]
           = [at |-> "matched", sheet |-> sheet, template |-> t, lines |-> ls, amounts |-> o.amounts]
  <1>1. PICK a0 \in {"idle", "refused", "unmatched", "matched", "extracted", "done"}, s0 \in Sheets \cup {none},
             t0 \in Nat, l0 \in Seq(ImportLines), m0 \in Import!Columns \cup {none} :
          o = [at |-> a0, sheet |-> s0, template |-> t0, lines |-> l0, amounts |-> m0]
    BY DEF ImportUpload
  <1>2. o.amounts = m0
    BY <1>1
  <1> DEFINE b == [o EXCEPT !.at = "matched"]
             c == [b EXCEPT !.sheet = sheet]
             d == [c EXCEPT !.template = t]
  <1>3. b = [at |-> "matched", sheet |-> s0, template |-> t0, lines |-> l0, amounts |-> m0]
    BY <1>1
  <1> HIDE DEF b
  <1>4. c = [at |-> "matched", sheet |-> sheet, template |-> t0, lines |-> l0, amounts |-> m0]
    BY <1>3
  <1> HIDE DEF c
  <1>5. d = [at |-> "matched", sheet |-> sheet, template |-> t, lines |-> l0, amounts |-> m0]
    BY <1>4
  <1> HIDE DEF d
  <1>6. [d EXCEPT !.lines = ls] = [at |-> "matched", sheet |-> sheet, template |-> t, lines |-> ls, amounts |-> m0]
    BY <1>5
  <1> QED BY <1>2, <1>6 DEF b, c, d

\* And what is read off its sheet.
LEMMA ImportWasRead ==
  ASSUME NEW o \in ImportUpload, NEW ls \in Seq(ImportLines), NEW m \in Import!Columns \cup {none}
  PROVE  [[[o EXCEPT !.at = "extracted"] EXCEPT !.lines = ls] EXCEPT !.amounts = m]
           = [at |-> "extracted", sheet |-> o.sheet, template |-> o.template, lines |-> ls, amounts |-> m]
  <1>1. PICK a0 \in {"idle", "refused", "unmatched", "matched", "extracted", "done"}, s0 \in Sheets \cup {none},
             t0 \in Nat, l0 \in Seq(ImportLines), m0 \in Import!Columns \cup {none} :
          o = [at |-> a0, sheet |-> s0, template |-> t0, lines |-> l0, amounts |-> m0]
    BY DEF ImportUpload
  <1>2. o.sheet = s0 /\ o.template = t0
    BY <1>1
  <1> DEFINE b == [o EXCEPT !.at = "extracted"]
             c == [b EXCEPT !.lines = ls]
  <1>3. b = [at |-> "extracted", sheet |-> s0, template |-> t0, lines |-> l0, amounts |-> m0]
    BY <1>1
  <1> HIDE DEF b
  <1>4. c = [at |-> "extracted", sheet |-> s0, template |-> t0, lines |-> ls, amounts |-> m0]
    BY <1>3
  <1> HIDE DEF c
  <1>5. [c EXCEPT !.amounts = m] = [at |-> "extracted", sheet |-> s0, template |-> t0, lines |-> ls, amounts |-> m]
    BY <1>4
  <1> QED BY <1>2, <1>5 DEF b, c

\* A sheet is prepared.
LEMMA ImportPrepare ==
  ASSUME Import!ImportAssumption, ImportInv, NEW u \in Uploads, NEW sheet \in Sheets, Import!Prepare(u, sheet)
  PROVE  ImportInv'
  <1> DEFINE grid == Import!Grid(sheet)
             matches == Import!Matches(grid)
             t == Import!First(matches)
             made == Import!Replay(grid, templates[t].amounts)
             o == upload[u]
             one == [[o EXCEPT !.at = "unmatched"] EXCEPT !.sheet = sheet]
             two == [[[[o EXCEPT !.at = "matched"] EXCEPT !.sheet = sheet] EXCEPT !.template = t] EXCEPT !.lines = made]
  <1>1. /\ o.at = "idle" /\ UNCHANGED <<budgets, templates, saver>>
        /\ \/ upload' = [upload EXCEPT ![u].at = "refused"]
           \/ upload' = [upload EXCEPT ![u] = IF matches = {} THEN [@ EXCEPT !.at = "unmatched", !.sheet = sheet]
                    ELSE IF made = <<>> THEN [@ EXCEPT !.at = "refused"]
                    ELSE [@ EXCEPT !.at = "matched", !.sheet = sheet, !.template = t, !.lines = made]]
    BY DEF Import!Prepare
  <1>2. o \in ImportUpload /\ ImportHolds(o, Len(templates)) /\ upload \in [Uploads -> ImportUpload]
    BY DEF ImportInv
  <1>3. o.amounts = none /\ o.template =< Len(templates) /\ Len(templates) \in Nat
    BY <1>1, <1>2 DEF ImportHolds, ImportInv
  <1>4. CASE upload' = [upload EXCEPT ![u].at = "refused"]
    BY <1>1, <1>4, ImportRefused
  <1>5. ASSUME matches = {}, upload' = [upload EXCEPT ![u] = [@ EXCEPT !.at = "unmatched", !.sheet = sheet]]
        PROVE  ImportInv'
    <2>1. upload' = [upload EXCEPT ![u] = one]
      BY <1>5
    <2> HIDE DEF o
    <2>2. one \in ImportUpload /\ one.at = "unmatched" /\ one.sheet = sheet /\ one.template = o.template
          /\ one.amounts = o.amounts
      BY <1>2 DEF ImportUpload
    <2> HIDE DEF one
    <2>3. ImportHolds(one, Len(templates))
      BY <1>3, <2>2 DEF ImportHolds
    <2> QED BY <1>1, <2>1, <2>2, <2>3, ImportGoesOn DEF o
  <1>6. ASSUME matches # {}, made # <<>>,
               upload' = [upload EXCEPT ![u] = [@ EXCEPT !.at = "matched", !.sheet = sheet, !.template = t, !.lines = made]]
        PROVE  ImportInv'
    <2>1. upload' = [upload EXCEPT ![u] = two]
      BY <1>6
    <2>2. t \in 1 .. Len(templates) /\ templates[t] \in ImportTemplate
      BY <1>6, ImportMatch
    <2>3. made \in Seq(ImportLines)
      <3>1. grid \in Seq(ImportRows) /\ templates[t].amounts \in Import!Columns
        BY <2>2, ImportSheetGrid DEF ImportTemplate
      <3> QED BY Zenon, <3>1, ImportReplays
    <2> HIDE DEF o, t, made
    <2>4. two \in ImportUpload /\ two.at = "matched" /\ two.sheet = sheet /\ two.template = t
          /\ two.lines = made /\ two.amounts = o.amounts
      <3>1. t \in Nat /\ o.amounts \in Import!Columns \cup {none}
        BY <1>2, <2>2 DEF ImportUpload
      <3>2. two = [at |-> "matched", sheet |-> sheet, template |-> t, lines |-> made, amounts |-> o.amounts]
        BY <1>2, <2>3, <3>1, ImportMatched
      <3> HIDE DEF two
      <3> QED BY <2>3, <3>1, <3>2 DEF ImportUpload
    <2> HIDE DEF two
    <2>5. ImportHolds(two, Len(templates))
      BY <1>3, <1>6, <2>2, <2>4 DEF ImportHolds
    <2> QED BY <1>1, <2>1, <2>4, <2>5, ImportGoesOn DEF o
  <1> QED BY <1>1, <1>4, <1>5, <1>6

\* The model reads a sheet.
LEMMA ImportExtract ==
  ASSUME Import!ImportAssumption, ImportInv, NEW u \in Uploads, Import!Extract(u)
  PROVE  ImportInv'
  <1> DEFINE o == upload[u]
             grid == Import!Grid(o.sheet)
  <1>1. /\ o.at = "unmatched" /\ UNCHANGED <<budgets, templates, saver>>
        /\ \/ upload' = [upload EXCEPT ![u].at = "refused"]
           \/ \E x \in Import!Extractions(grid) :
                 /\ x.lines # <<>>
                 /\ upload' = [upload EXCEPT ![u].at = "extracted", ![u].lines = Import!Imported(x),
                                             ![u].amounts = Import!AmountColumn(x)]
    BY DEF Import!Extract
  <1>2. o \in ImportUpload /\ ImportHolds(o, Len(templates)) /\ upload \in [Uploads -> ImportUpload]
    BY DEF ImportInv
  <1>3. o.sheet \in Sheets /\ o.template =< Len(templates)
    BY <1>1, <1>2 DEF ImportHolds
  <1>4. CASE upload' = [upload EXCEPT ![u].at = "refused"]
    BY <1>1, <1>4, ImportRefused
  <1>5. ASSUME NEW x \in Import!Extractions(grid), x.lines # <<>>,
               upload' = [upload EXCEPT ![u].at = "extracted", ![u].lines = Import!Imported(x),
                                       ![u].amounts = Import!AmountColumn(x)]
        PROVE  ImportInv'
    <2> DEFINE ls == Import!Imported(x)
               m == Import!AmountColumn(x)
               v == [[[o EXCEPT !.at = "extracted"] EXCEPT !.lines = ls] EXCEPT !.amounts = m]
               w == [at |-> "extracted", sheet |-> o.sheet, template |-> o.template, lines |-> ls, amounts |-> m]
               made == Import!Replay(grid, m)
    <2>1. upload' = [upload EXCEPT ![u] = v]
      BY <1>2, <1>5
    <2>2. grid \in Seq(ImportRows)
      BY <1>3, ImportSheetGrid
    <2>3. /\ ls \in Seq(ImportLines) /\ ls # <<>> /\ m \in Import!Columns \cup {none}
          /\ ImportPlain(grid) /\ m # none =>
               [i \in DOMAIN made |-> made[i].amount] = [i \in DOMAIN ls |-> ls[i].amount]
      BY Zenon, <1>5, <2>2, ImportReading
    <2> HIDE DEF ls, m
    <2>4. v = w
      BY <1>2, <2>3, ImportWasRead
    <2> HIDE DEF v, o
    <2>5. w \in ImportUpload /\ w.at = "extracted" /\ w.sheet = o.sheet /\ w.template = o.template
          /\ w.lines = ls /\ w.amounts = m
      BY <1>2, <2>3 DEF ImportUpload
    <2> HIDE DEF w
    <2>6. m # none => ImportRepeats(w)
      BY Zenon, <2>3, <2>5 DEF ImportRepeats
    <2>7. ImportHolds(w, Len(templates))
      BY <1>3, <2>3, <2>5, <2>6 DEF ImportHolds
    <2> QED BY <1>1, <2>1, <2>4, <2>5, <2>7, ImportGoesOn DEF o
  <1> QED BY <1>1, <1>4, <1>5

\* A budget is created.
LEMMA ImportCreate ==
  ASSUME Import!ImportAssumption, ImportInv, NEW u \in Uploads, Import!Create(u)
  PROVE  ImportInv'
  <1> DEFINE o == upload[u]
             v == [o EXCEPT !.at = "done"]
             lay == IF o.amounts = none THEN none ELSE Import!Fingerprint(Import!Grid(o.sheet))
             lock == IF o.template = 0 THEN Len(o.lines) ELSE 0
             b == [lines |-> o.lines, template |-> o.template, layout |-> lay, amounts |-> o.amounts, locked |-> lock]
  <1>1. /\ o.at \in {"matched", "extracted"} /\ UNCHANGED <<templates, saver>>
        /\ \/ upload' = [upload EXCEPT ![u].at = "refused"] /\ UNCHANGED budgets
           \/ upload' = [upload EXCEPT ![u].at = "done"] /\ budgets' = [budgets EXCEPT ![u] = b]
    BY DEF Import!Create
  <1>2. o \in ImportUpload /\ ImportHolds(o, Len(templates)) /\ upload \in [Uploads -> ImportUpload]
        /\ ImportBudgetHolds(budgets[u], o, Len(templates)) /\ Len(templates) \in Nat
    BY DEF ImportInv
  <1>3. o.sheet \in Sheets /\ o.lines # <<>> /\ o.template =< Len(templates)
        /\ (o.amounts # none => ImportRepeats(o)) /\ budgets[u].layout = none
    BY <1>1, <1>2 DEF ImportHolds, ImportBudgetHolds
  <1>4. CASE upload' = [upload EXCEPT ![u].at = "refused"] /\ UNCHANGED budgets
    BY <1>1, <1>4, ImportRefused
  <1>5. ASSUME upload' = [upload EXCEPT ![u].at = "done"], budgets' = [budgets EXCEPT ![u] = b]
        PROVE  ImportInv'
    <2>1. upload' = [upload EXCEPT ![u] = v]
      BY <1>5
    <2> HIDE DEF o
    <2>2. v \in ImportUpload /\ v.at = "done" /\ v.sheet = o.sheet /\ v.template = o.template
          /\ v.lines = o.lines /\ v.amounts = o.amounts
      BY <1>2 DEF ImportUpload
    <2>3. lay \in ImportLayouts /\ (lay # none => o.amounts # none)
      BY <1>3 DEF ImportLayouts
    <2>4. /\ o.lines \in Seq(ImportLines) /\ o.template \in Nat /\ o.amounts \in Import!Columns \cup {none}
          /\ lock \in Nat
      BY <1>2 DEF ImportUpload
    <2> HIDE DEF v, lay, lock
    <2>5. b \in ImportBudget /\ b.template = o.template /\ b.layout = lay /\ b.amounts = o.amounts
      BY <2>3, <2>4 DEF ImportBudget
    <2> HIDE DEF b
    <2>6. ImportRepeats(o) => ImportRepeats(v)
      BY Zenon, <2>2 DEF ImportRepeats
    <2>7. ImportHolds(v, Len(templates))
      BY <1>3, <2>2, <2>6 DEF ImportHolds
    <2>8. ImportBudgetHolds(b, v, Len(templates))
      BY <1>3, <2>2, <2>3, <2>4, <2>5 DEF ImportBudgetHolds
    <2>9. o.at # "done"
      BY <1>1
    <2> QED BY <1>1, <1>3, <1>5, <2>1, <2>2, <2>5, <2>7, <2>8, <2>9, ImportWritten DEF o
  <1> QED BY <1>1, <1>4, <1>5

\* A budget whose lines or template are changed.
LEMMA ImportBudgetChanged ==
  ASSUME ImportInv, NEW u \in Uploads, NEW b \in ImportBudget,
         b.layout = budgets[u].layout, b.amounts = budgets[u].amounts, b.template =< Len(templates),
         budgets' = [budgets EXCEPT ![u] = b], UNCHANGED <<upload, templates, saver>>
  PROVE  ImportInv'
  <1> DEFINE v == upload[u]
  <1>1. v \in ImportUpload /\ ImportHolds(v, Len(templates)) /\ upload = [upload EXCEPT ![u] = v]
        /\ ImportBudgetHolds(budgets[u], v, Len(templates))
    BY DEF ImportInv
  <1>2. ImportBudgetHolds(b, v, Len(templates))
    BY <1>1 DEF ImportBudgetHolds
  <1>3. upload' = [upload EXCEPT ![u] = v]
    BY <1>1
  <1> HIDE DEF v
  <1> QED BY <1>1, <1>2, <1>3, ImportWritten DEF v

\* The lines of a budget are changed.
LEMMA ImportLinesChanged ==
  ASSUME ImportInv, NEW u \in Uploads, NEW ls \in Seq(ImportLines),
         budgets' = [budgets EXCEPT ![u].lines = ls], UNCHANGED <<upload, templates, saver>>
  PROVE  ImportInv'
  <1> DEFINE o == budgets[u]
             b == [o EXCEPT !.lines = ls]
  <1>1. o \in ImportBudget /\ ImportBudgetHolds(o, upload[u], Len(templates))
    BY DEF ImportInv
  <1>2. budgets' = [budgets EXCEPT ![u] = b]
    OBVIOUS
  <1> HIDE DEF o
  <1>3. b \in ImportBudget /\ b.layout = o.layout /\ b.amounts = o.amounts /\ b.template = o.template
    BY <1>1 DEF ImportBudget
  <1>4. o.template =< Len(templates)
    BY <1>1 DEF ImportBudgetHolds
  <1> HIDE DEF b
  <1> QED BY <1>2, <1>3, <1>4, ImportBudgetChanged DEF o

\* An edited line is one.
LEMMA ImportEdited ==
  ASSUME NEW l \in ImportLines PROVE Import!Edited(l) \in ImportLines
  <1>1. PICK c \in ImportNames, n \in Int, e \in BOOLEAN : l = [category |-> c, amount |-> n, edited |-> e]
    BY DEF ImportLines
  <1>2. l.amount = n
    BY <1>1
  <1> DEFINE k == [l EXCEPT !.amount = l.amount + 1]
  <1>3. k = [category |-> c, amount |-> n + 1, edited |-> e]
    BY <1>1, <1>2
  <1>4. Import!Edited(l) = [k EXCEPT !.edited = TRUE]
    BY DEF Import!Edited
  <1>5. k \in ImportLines
    BY <1>3 DEF ImportLines
  <1> HIDE DEF k
  <1>6. [k EXCEPT !.edited = TRUE] \in ImportLines
    BY <1>5 DEF ImportLines
  <1> QED BY <1>4, <1>6

\* The edit of a line.
LEMMA ImportEdit ==
  ASSUME ImportInv, NEW u \in Uploads, Import!EditLine(u)
  PROVE  ImportInv'
  <1> DEFINE ls == budgets[u].lines
  <1>1. ls \in Seq(ImportLines) /\ UNCHANGED <<upload, templates, saver>>
    <2>1. budgets[u] \in ImportBudget
      BY DEF ImportInv
    <2> QED BY <2>1 DEF ImportBudget, Import!EditLine
  <1>2. \/ \E i \in DOMAIN ls :
              budgets' = [budgets EXCEPT ![u].lines[i] = Import!Edited(@)]
        \/ \E i \in DOMAIN ls : budgets' = [budgets EXCEPT ![u].lines = Import!RemoveAt(@, i)]
        \/ budgets' = [budgets EXCEPT ![u].lines = Append(@, Import!Line("added", 1))]
    BY DEF Import!EditLine
  <1>3. ASSUME NEW i \in DOMAIN ls,
               budgets' = [budgets EXCEPT ![u].lines[i] = Import!Edited(@)]
        PROVE  ImportInv'
    <2> DEFINE l == ls[i]
               m == Import!Edited(l)
               new == [ls EXCEPT ![i] = m]
    <2>1. budgets' = [budgets EXCEPT ![u].lines = new]
      BY <1>3
    <2>2. l \in ImportLines
      BY <1>1
    <2> HIDE DEF l, ls
    <2>4. m \in ImportLines
      BY <2>2, ImportEdited
    <2> HIDE DEF m
    <2>5. new \in Seq(ImportLines)
      BY <1>1, <2>4
    <2> HIDE DEF new
    <2> QED BY <1>1, <2>1, <2>5, ImportLinesChanged
  <1>4. ASSUME NEW i \in DOMAIN ls, budgets' = [budgets EXCEPT ![u].lines = Import!RemoveAt(@, i)]
        PROVE  ImportInv'
    <2> DEFINE new == Import!RemoveAt(ls, i)
               before == SubSeq(ls, 1, i - 1)
               after == SubSeq(ls, i + 1, Len(ls))
    <2>1. budgets' = [budgets EXCEPT ![u].lines = new]
      BY <1>4
    <2> HIDE DEF ls
    <2>2. i \in 1 .. Len(ls)
      BY <1>1
    <2>3. before \in Seq(ImportLines) /\ after \in Seq(ImportLines)
      BY <1>1, <2>2
    <2>4. new = before \o after
      BY DEF Import!RemoveAt
    <2> HIDE DEF before, after, new
    <2>5. new \in Seq(ImportLines)
      BY <2>3, <2>4
    <2> QED BY <1>1, <2>1, <2>5, ImportLinesChanged
  <1>5. ASSUME budgets' = [budgets EXCEPT ![u].lines = Append(@, Import!Line("added", 1))]
        PROVE  ImportInv'
    <2> DEFINE new == Append(ls, Import!Line("added", 1))
    <2>1. budgets' = [budgets EXCEPT ![u].lines = new]
      BY <1>5
    <2>2. Import!Line("added", 1) \in ImportLines
      BY DEF Import!Line, ImportLines, ImportNames
    <2> HIDE DEF ls
    <2>3. new \in Seq(ImportLines)
      BY <1>1, <2>2
    <2> HIDE DEF new
    <2> QED BY <1>1, <2>1, <2>3, ImportLinesChanged
  <1> QED BY <1>2, <1>3, <1>4, <1>5

\* What is written of a request to save a budget.
LEMMA ImportAsks ==
  ASSUME ImportInv, NEW w \in Savers, NEW v \in ImportSaver, ImportSaverHolds(v, budgets, Len(templates)),
         saver' = [saver EXCEPT ![w] = v], UNCHANGED <<upload, budgets, templates>>
  PROVE  ImportInv'
  <1>1. saver' \in [Savers -> ImportSaver] /\ \A x \in Savers : saver'[x] = IF x = w THEN v ELSE saver[x]
    BY DEF ImportInv
  <1>2. \A x \in Savers : ImportSaverHolds(saver'[x], budgets', Len(templates'))
    BY <1>1 DEF ImportInv
  <1> QED BY <1>1, <1>2 DEF ImportInv

\* The budget is read.
LEMMA ImportReadBudget ==
  ASSUME ImportInv, NEW w \in Savers, NEW u \in Uploads, Import!ReadBudget(w, u)
  PROVE  ImportInv'
  <1> DEFINE v == [at |-> "save", budget |-> u, template |-> 0]
  <1>1. /\ saver' = [saver EXCEPT ![w] = v] /\ UNCHANGED <<upload, budgets, templates>>
        /\ budgets[u].layout # none
    BY DEF Import!ReadBudget, Import!CanSave
  <1>2. v \in ImportSaver /\ v.at = "save" /\ v.budget = u
    BY DEF ImportSaver
  <1> HIDE DEF v
  <1>3. ImportSaverHolds(v, budgets, Len(templates))
    BY <1>1, <1>2 DEF ImportSaverHolds
  <1> QED BY <1>1, <1>2, <1>3, ImportAsks

\* The template is saved, for the column that the budget was read from.
LEMMA ImportSave ==
  ASSUME ImportInv, NEW w \in Savers, Import!SaveTemplate(w)
  PROVE  ImportInv'
  <1> DEFINE o == saver[w]
             u == o.budget
             b == budgets[u]
             t == [layout |-> b.layout, amounts |-> b.amounts, from |-> u]
             n == Len(templates)
             k == [o EXCEPT !.at = "name"]
             v == [k EXCEPT !.template = n + 1]
  <1>1. o.at = "save" /\ templates' = Append(templates, t) /\ UNCHANGED <<upload, budgets>>
        /\ saver' = [saver EXCEPT ![w].at = "name", ![w].template = Len(templates')]
    BY DEF Import!SaveTemplate
  <1>2. o \in ImportSaver /\ ImportSaverHolds(o, budgets, n) /\ saver \in [Savers -> ImportSaver]
        /\ templates \in Seq(ImportTemplate) /\ n \in Nat
    BY DEF ImportInv
  <1>3. u \in Uploads /\ b.layout # none
    BY <1>1, <1>2 DEF ImportSaverHolds
  <1>4. b \in ImportBudget /\ ImportBudgetHolds(b, upload[u], n) /\ upload[u] \in ImportUpload
    BY <1>3 DEF ImportInv
  <1>5. upload[u].at = "done" /\ b.amounts \in Import!Columns /\ b.amounts = upload[u].amounts
    BY <1>3, <1>4 DEF ImportBudgetHolds
  <1>6. t \in ImportTemplate /\ t.amounts = b.amounts /\ t.from = u
    <2>1. b.layout \in ImportLayouts
      BY <1>4 DEF ImportBudget
    <2> HIDE DEF b, u
    <2> QED BY <1>3, <1>5, <2>1 DEF ImportTemplate
  <1> HIDE DEF t
  <1>7. /\ templates' \in Seq(ImportTemplate) /\ Len(templates') = n + 1 /\ templates'[n + 1] = t
        /\ \A i \in 1 .. n : templates'[i] = templates[i]
        /\ DOMAIN templates' = 1 .. n + 1 /\ DOMAIN templates = 1 .. n
    BY <1>1, <1>2, <1>6
  <1>8. saver' = [saver EXCEPT ![w] = v]
    BY <1>1, <1>2, <1>7
  <1> HIDE DEF o, n
  <1>9. k \in ImportSaver /\ k.budget = u
    BY <1>2 DEF ImportSaver
  <1> HIDE DEF k, u
  <1>10. v \in ImportSaver /\ v.at = k.at /\ v.budget = u /\ v.template = n + 1 /\ n + 1 \in 1 .. n + 1
    <2>1. n + 1 \in Nat /\ n + 1 \in 1 .. n + 1
      BY <1>2
    <2> DEFINE m == n + 1
    <2> HIDE DEF m
    <2>2. [k EXCEPT !.template = m] \in ImportSaver /\ [k EXCEPT !.template = m].at = k.at
          /\ [k EXCEPT !.template = m].budget = u /\ [k EXCEPT !.template = m].template = m
      BY <1>9, <2>1 DEF ImportSaver, m
    <2> QED BY <2>1, <2>2 DEF m
  <1>11. k.at = "name"
    BY <1>2 DEF ImportSaver, k
  <1> HIDE DEF v
  <1>12. \A x \in Uploads : ImportHolds(upload'[x], Len(templates'))
    <2> SUFFICES ASSUME NEW x \in Uploads PROVE ImportHolds(upload[x], n + 1)
      BY <1>1, <1>7
    <2>1. ImportHolds(upload[x], n) /\ upload[x].template \in Nat
      BY DEF ImportInv, ImportUpload, n
    <2> QED BY <1>2, <2>1 DEF ImportHolds
  <1>13. \A x \in Uploads : ImportBudgetHolds(budgets'[x], upload'[x], Len(templates'))
    <2> SUFFICES ASSUME NEW x \in Uploads PROVE ImportBudgetHolds(budgets[x], upload[x], n + 1)
      BY <1>1, <1>7
    <2>1. ImportBudgetHolds(budgets[x], upload[x], n) /\ budgets[x].template \in Nat
      BY DEF ImportInv, ImportBudget, n
    <2> QED BY <1>2, <2>1 DEF ImportBudgetHolds
  <1>14. \A i \in DOMAIN templates' : ImportTemplateHolds(templates'[i], upload'[templates'[i].from])
    <2> SUFFICES ASSUME NEW i \in 1 .. n + 1
                 PROVE  ImportTemplateHolds(templates'[i], upload[templates'[i].from])
      BY <1>1, <1>7
    <2>1. CASE i = n + 1
      BY <1>5, <1>6, <1>7, <2>1 DEF ImportTemplateHolds
    <2>2. CASE i # n + 1
      <3>1. i \in 1 .. n
        BY <1>2, <2>2
      <3>2. ImportTemplateHolds(templates[i], upload[templates[i].from])
        BY <1>7, <3>1 DEF ImportInv
      <3> QED BY <1>7, <3>1, <3>2
    <2> QED BY <2>1, <2>2
  <1>15. saver' \in [Savers -> ImportSaver] /\ \A x \in Savers : saver'[x] = IF x = w THEN v ELSE saver[x]
    BY <1>2, <1>8, <1>10
  <1>16. \A x \in Savers : ImportSaverHolds(saver'[x], budgets', Len(templates'))
    <2> SUFFICES ASSUME NEW x \in Savers PROVE ImportSaverHolds(saver'[x], budgets, n + 1)
      BY <1>1, <1>7
    <2>1. CASE x = w
      BY <1>3, <1>10, <1>11, <1>15, <2>1 DEF ImportSaverHolds
    <2>2. CASE x # w
      <3>1. ImportSaverHolds(saver[x], budgets, n) /\ saver[x].template \in Nat
        BY DEF ImportInv, ImportSaver, n
      <3> QED BY <1>2, <1>15, <2>2, <3>1 DEF ImportSaverHolds
    <2> QED BY <2>1, <2>2
  <1>17. upload' \in [Uploads -> ImportUpload] /\ budgets' \in [Uploads -> ImportBudget]
    BY <1>1 DEF ImportInv
  <1> QED BY <1>7, <1>12, <1>13, <1>14, <1>15, <1>16, <1>17 DEF ImportInv

\* The budget is given its template, or is not.
LEMMA ImportNameTemplate ==
  ASSUME ImportInv, NEW w \in Savers, Import!NameTemplate(w)
  PROVE  ImportInv'
  <1> DEFINE o == saver[w]
             u == o.budget
             b == [budgets[u] EXCEPT !.template = o.template]
             v == [o EXCEPT !.at = "over"]
  <1>1. /\ o.at = "name" /\ UNCHANGED <<upload, templates>> /\ saver' = [saver EXCEPT ![w].at = "over"]
        /\ budgets' = [budgets EXCEPT ![saver[w].budget].template = saver[w].template] \/ UNCHANGED budgets
    BY DEF Import!NameTemplate
  <1>2. o \in ImportSaver /\ ImportSaverHolds(o, budgets, Len(templates)) /\ saver \in [Savers -> ImportSaver]
        /\ Len(templates) \in Nat
    BY DEF ImportInv
  <1>3. saver' = [saver EXCEPT ![w] = v] /\ (budgets' = [budgets EXCEPT ![u] = b] \/ UNCHANGED budgets)
    BY <1>1
  <1>4. u \in Uploads /\ o.template \in 1 .. Len(templates) /\ o.template \in Nat
    BY <1>1, <1>2 DEF ImportSaverHolds
  <1>5. budgets \in [Uploads -> ImportBudget] /\ budgets[u] \in ImportBudget
        /\ ImportBudgetHolds(budgets[u], upload[u], Len(templates))
    BY <1>4 DEF ImportInv
  <1> HIDE DEF o, u
  <1>6. v \in ImportSaver /\ v.at = "over"
    BY <1>2 DEF ImportSaver
  <1>7. b \in ImportBudget /\ b.layout = budgets[u].layout /\ b.amounts = budgets[u].amounts
        /\ b.template = o.template
    <2> DEFINE old == budgets[u]
    <2>1. old \in ImportBudget
      BY <1>5
    <2> HIDE DEF old
    <2>2. LET new == [old EXCEPT !.template = o.template]
          IN  new \in ImportBudget /\ new.layout = old.layout /\ new.amounts = old.amounts
              /\ new.template = o.template
      BY <1>4, <2>1 DEF ImportBudget
    <2> QED BY <2>2 DEF old
  <1> HIDE DEF v, b
  <1>8. saver' \in [Savers -> ImportSaver] /\ \A x \in Savers : saver'[x] = IF x = w THEN v ELSE saver[x]
    BY <1>2, <1>3, <1>6
  <1>9. /\ budgets' \in [Uploads -> ImportBudget]
        /\ \A x \in Uploads : /\ budgets'[x].layout = budgets[x].layout
                              /\ ImportBudgetHolds(budgets'[x], upload'[x], Len(templates'))
    <2>1. CASE UNCHANGED budgets
      BY <1>1, <2>1 DEF ImportInv
    <2>2. ASSUME budgets' = [budgets EXCEPT ![u] = b]
          PROVE  /\ budgets' \in [Uploads -> ImportBudget]
                 /\ \A x \in Uploads : /\ budgets'[x].layout = budgets[x].layout
                                       /\ ImportBudgetHolds(budgets'[x], upload'[x], Len(templates'))
      <3>1. budgets' \in [Uploads -> ImportBudget]
            /\ \A x \in Uploads : budgets'[x] = IF x = u THEN b ELSE budgets[x]
        BY <1>5, <1>7, <2>2
      <3>2. ImportBudgetHolds(b, upload[u], Len(templates))
        BY <1>2, <1>4, <1>5, <1>7 DEF ImportBudgetHolds
      <3>3. \A x \in Uploads : ImportBudgetHolds(budgets[x], upload[x], Len(templates))
        BY DEF ImportInv
      <3> QED BY <1>1, <1>7, <3>1, <3>2, <3>3
    <2> QED BY <1>3, <2>1, <2>2
  <1>10. \A x \in Savers : ImportSaverHolds(saver'[x], budgets', Len(templates'))
    <2> SUFFICES ASSUME NEW x \in Savers PROVE ImportSaverHolds(saver'[x], budgets', Len(templates))
      BY <1>1
    <2>1. ImportSaverHolds(saver[x], budgets, Len(templates))
      BY DEF ImportInv
    <2>2. ImportSaverHolds(saver'[x], budgets, Len(templates))
      BY <1>6, <1>8, <2>1 DEF ImportSaverHolds
    <2> QED BY <1>9, <2>2 DEF ImportSaverHolds
  <1> QED BY <1>1, <1>8, <1>9, <1>10 DEF ImportInv

\* Every step of the imports keeps it.
LEMMA ImportInvStep ==
  ASSUME Import!ImportAssumption, ImportInv, [Import!Next]_(Import!importVars)
  PROVE  ImportInv'
  <1>1. CASE UNCHANGED Import!importVars
    BY <1>1 DEF Import!importVars, ImportInv
  <1>2. CASE Import!Next
    BY <1>2, ImportPrepare, ImportExtract, ImportCreate, ImportEdit, ImportReadBudget, ImportSave,
       ImportNameTemplate DEF Import!Next
  <1> QED BY <1>1, <1>2

\* It says what the type invariant says, and that a template does what its import did.
LEMMA ImportInvImplies ==
  ASSUME Import!ImportAssumption, ImportInv
  PROVE  Import!TypeOK /\ Import!ReplayAgrees
  <1>1. Import!TypeOK
    <2>1. ASSUME NEW u \in Uploads
          PROVE  /\ upload[u].at \in {"idle", "refused", "unmatched", "matched", "extracted", "done"}
                 /\ upload[u].at \in {"matched", "extracted", "done"} => upload[u].lines # <<>>
                 /\ upload[u].amounts \in Import!Columns \cup {none}
                 /\ budgets[u].template \in 0 .. Len(templates)
      <3>1. upload[u] \in ImportUpload /\ ImportHolds(upload[u], Len(templates)) /\ budgets[u] \in ImportBudget
            /\ ImportBudgetHolds(budgets[u], upload[u], Len(templates)) /\ Len(templates) \in Nat
        BY DEF ImportInv
      <3> QED BY <3>1 DEF ImportUpload, ImportHolds, ImportBudget, ImportBudgetHolds
    <2>2. ASSUME NEW t \in DOMAIN templates PROVE templates[t].amounts \in Import!Columns
      <3>1. templates[t] \in ImportTemplate
        BY DEF ImportInv
      <3> QED BY <3>1 DEF ImportTemplate
    <2>3. \A w \in Savers : saver[w].at \in {"idle", "save", "name", "over"}
      BY DEF ImportInv, ImportSaver
    <2> QED BY <2>1, <2>2, <2>3 DEF Import!TypeOK
  <1>2. Import!ReplayAgrees
    <2> DEFINE Agrees(from, column) ==
                 LET grid == Import!Grid(from.sheet)
                     made == Import!Replay(grid, column)
                 IN  ImportPlain(grid) => [i \in DOMAIN made |-> made[i].amount]
                                            = [i \in DOMAIN from.lines |-> from.lines[i].amount]
    <2>1. ASSUME NEW t \in DOMAIN templates
          PROVE  Agrees(upload[templates[t].from], templates[t].amounts)
      <3> DEFINE v == upload[templates[t].from]
      <3>1. templates[t] \in ImportTemplate /\ ImportTemplateHolds(templates[t], v)
        BY DEF ImportInv
      <3>2. templates[t].from \in Uploads /\ templates[t].amounts \in Import!Columns
            /\ templates[t].amounts = v.amounts
        BY <3>1 DEF ImportTemplate, ImportTemplateHolds
      <3>3. ImportHolds(v, Len(templates))
        BY <3>2 DEF ImportInv
      <3>4. v.amounts # none
        BY <3>2 DEF Import!ImportAssumption, Import!Columns
      <3> HIDE DEF v
      <3>5. ImportRepeats(v)
        BY <3>3, <3>4 DEF ImportHolds
      <3>6. Agrees(v, v.amounts)
        BY Zenon, <3>5 DEF ImportRepeats
      <3> HIDE DEF Agrees
      <3> QED BY Zenon, <3>2, <3>6 DEF v
    <2> QED BY Zenon, <2>1 DEF Import!ReplayAgrees, ImportPlain
  <1> QED BY <1>1, <1>2
-----------------------------------------------------------------------------
(* The workbook a budget is exported to (ExcelExport).                     *)

-----------------------------------------------------------------------------
(* The workbook a budget is exported to (ExcelExport).                     *)

\* What was read of the tables.
ExportLine == [category : 0 .. MaxCategories, amount : Prices]
ExportExpense == [line : Nat \ {0}, amount : Amounts, allocations : Allocations]

\* The sums of the module are those of the library.
LEMMA ExportTotal ==
  ASSUME NEW f PROVE Export!Total(f) = SumFunctionOnSet(f, DOMAIN f)
  BY DEF Export!Total, Export!SumFunction, Export!SumFunctionOnSet, Export!FoldFunctionOnSet,
         Export!MapThenFoldSet, SumFunctionOnSet, FoldFunctionOnSet, MapThenFoldSet

\* Of the first lines those of some categories.
ExportOf(js, j, categories) == IF lines[j].category \in categories THEN Append(js, j) ELSE js
ExportTakes(it, js, categories) ==
  it = [s \in SUBSET DOMAIN js |->
          IF s = {} THEN <<>> ELSE ExportOf(it[s \ {Last(s)}], js[Last(s)], categories)]

\* The lines of some categories, as they are found one after the other.
LEMMA ExportLinesPass ==
  ASSUME NEW categories, lines \in Seq(ExportLine)
  PROVE  \E at \in [0 .. Len(lines) -> Seq(DOMAIN lines)] :
           /\ at[0] = <<>> /\ at[Len(lines)] = Export!LinesOf(categories)
           /\ \A k \in 1 .. Len(lines) : at[k] = ExportOf(at[k - 1], k, categories)
  <1> DEFINE n == Len(lines)
             S == SUBSET (1 .. n)
             V == Seq(DOMAIN lines)
             js == [j \in DOMAIN lines |-> j]
             g == [p \in V \X (1 .. n) |-> ExportOf(p[1], p[2], categories)]
  <1>1. n \in Nat /\ DOMAIN lines = 1 .. n /\ DOMAIN js = 1 .. n /\ <<>> \in V /\ \A k \in 1 .. n : js[k] = k
    OBVIOUS
  <1>2. \A v \in V : \A k \in 1 .. n : g[<<v, k>>] = ExportOf(v, k, categories) /\ g[<<v, k>>] \in V
    <2> SUFFICES ASSUME NEW v \in V, NEW k \in 1 .. n
                 PROVE  g[<<v, k>>] = ExportOf(v, k, categories) /\ g[<<v, k>>] \in V
      OBVIOUS
    <2>1. k \in DOMAIN lines
      BY <1>1
    <2>2. Append(v, k) \in V
      BY <2>1
    <2>3. ExportOf(v, k, categories) \in V
      BY <2>2 DEF ExportOf
    <2> QED BY <2>3
  <1> HIDE DEF n, V, g, js
  <1>3. FoldStays(V, g, n)
    BY <1>2 DEF FoldStays
  <1>4. PICK it \in [S -> V] : IsFold(it, g, <<>>, n)
    BY Zenon, <1>1, <1>3, FoldIsThere
  <1>5. \A t \in S : t # {} => Last(t) \in 1 .. n /\ t \ {Last(t)} \in S
    BY <1>1, LastOf
  <1>6. \A t \in S : FoldStep(it, g, <<>>, t)
                       = IF t = {} THEN <<>> ELSE ExportOf(it[t \ {Last(t)}], js[Last(t)], categories)
    BY <1>1, <1>2, <1>4, <1>5 DEF FoldStep
  <1>7. ExportTakes(it, js, categories)
    <2>1. it = [t \in S |-> FoldStep(it, g, <<>>, t)]
      BY <1>4 DEF IsFold
    <2>2. it = [t \in S |-> IF t = {} THEN <<>> ELSE ExportOf(it[t \ {Last(t)}], js[Last(t)], categories)]
      BY <1>6, <2>1
    <2> QED BY <1>1, <2>2 DEF ExportTakes
  <1> DEFINE jt == CHOOSE j : ExportTakes(j, js, categories)
  <1>8. ExportTakes(jt, js, categories)
    BY <1>7
  <1>9. Export!LinesOf(categories) = jt[DOMAIN js]
    BY Zenon DEF Export!LinesOf, Export!FoldLeft, Export!MapThenFoldSet, Export!Max, ExportTakes, Last,
       ExportOf, js
  <1> HIDE DEF jt
  <1>10. \A t \in S : jt[t] = IF t = {} THEN <<>> ELSE ExportOf(jt[t \ {Last(t)}], js[Last(t)], categories)
    <2> DEFINE ft == [t \in S |-> IF t = {} THEN <<>> ELSE ExportOf(jt[t \ {Last(t)}], js[Last(t)], categories)]
    <2>1. jt = ft
      BY Zenon, <1>1, <1>8 DEF ExportTakes
    <2>2. \A t \in S : ft[t] = IF t = {} THEN <<>> ELSE ExportOf(jt[t \ {Last(t)}], js[Last(t)], categories)
      OBVIOUS
    <2> HIDE DEF ft
    <2> QED BY <2>1, <2>2
  <1>11. jt[{}] = <<>>
    BY <1>10
  <1>12. FoldFollows(jt, V, g, n)
    BY <1>1, <1>2, <1>5, <1>10 DEF FoldFollows
  <1>13. PICK at \in [0 .. n -> V] : FoldPasses(at, g, <<>>, jt[1 .. n], n)
    BY Zenon, <1>1, <1>3, <1>11, <1>12, FoldPass
  <1>14. at[0] = <<>> /\ at[n] = jt[1 .. n]
    BY <1>13 DEF FoldPasses
  <1>15. \A k \in 1 .. n : at[k] = ExportOf(at[k - 1], k, categories)
    <2> SUFFICES ASSUME NEW k \in 1 .. n PROVE at[k] = ExportOf(at[k - 1], k, categories)
      OBVIOUS
    <2>1. k - 1 \in 0 .. n
      BY <1>1
    <2>2. at[k - 1] \in V /\ at[k] = g[<<at[k - 1], k>>]
      BY <1>13, <2>1 DEF FoldPasses
    <2> QED BY <1>2, <2>2
  <1>16. at[n] = Export!LinesOf(categories)
    BY <1>1, <1>9, <1>14
  <1> QED BY <1>14, <1>15, <1>16 DEF n, V

\* They are lines of these categories, each once.
ExportLists(s, J) ==
  /\ \A k \in DOMAIN s : s[k] \in J
  /\ \A j \in J : \E k \in DOMAIN s : s[k] = j
  /\ \A k, m \in DOMAIN s : s[k] = s[m] => k = m
ExportIn(categories, n) == {j \in 1 .. n : lines[j].category \in categories}

\* Of the lines of some categories every one is there, once.
LEMMA ExportLinesOf ==
  ASSUME NEW categories, lines \in Seq(ExportLine)
  PROVE  /\ Export!LinesOf(categories) \in Seq(DOMAIN lines)
         /\ ExportLists(Export!LinesOf(categories), ExportIn(categories, Len(lines)))
  <1> DEFINE n == Len(lines)
  <1>1. PICK at \in [0 .. n -> Seq(DOMAIN lines)] :
          /\ at[0] = <<>> /\ at[n] = Export!LinesOf(categories)
          /\ \A k \in 1 .. n : at[k] = ExportOf(at[k - 1], k, categories)
    BY ExportLinesPass
  <1>2. n \in Nat /\ DOMAIN lines = 1 .. n
    OBVIOUS
  <1> HIDE DEF n
  <1> DEFINE Good == {k \in Nat : k =< n => ExportLists(at[k], ExportIn(categories, k))}
  <1>3. 0 \in Good
    <2>1. ExportIn(categories, 0) = {} /\ DOMAIN at[0] = {}
      BY <1>1 DEF ExportIn
    <2> QED BY <2>1 DEF ExportLists
  <1>4. \A k \in Nat : k \in Good => k + 1 \in Good
    <2> SUFFICES ASSUME NEW k \in Nat, k \in Good, k + 1 =< n
                 PROVE  ExportLists(at[k + 1], ExportIn(categories, k + 1))
      OBVIOUS
    <2> DEFINE s == at[k]
               t == at[k + 1]
    <2>1. k \in 0 .. n /\ k + 1 \in 1 .. n /\ (k + 1) - 1 = k
      BY <1>2
    <2>2. s \in Seq(1 .. n) /\ t = ExportOf(s, k + 1, categories)
      BY <1>1, <1>2, <2>1
    <2>3. ExportLists(s, ExportIn(categories, k))
      BY <2>1
    <2>4. \A j \in ExportIn(categories, k) : j \in 1 .. k
      BY DEF ExportIn
    <2> HIDE DEF s, t
    <2>5. CASE lines[k + 1].category \in categories
      <3>1. ExportIn(categories, k + 1) = ExportIn(categories, k) \cup {k + 1}
        BY <2>5 DEF ExportIn
      <3>2. t = Append(s, k + 1)
        BY <2>2, <2>5 DEF ExportOf
      <3> DEFINE l == Len(s)
      <3>3. /\ l \in Nat /\ DOMAIN s = 1 .. l /\ DOMAIN t = 1 .. l + 1
            /\ \A i \in 1 .. l : t[i] = s[i] /\ s[i] \in 1 .. k
            /\ t[l + 1] = k + 1
        <4>1. /\ l \in Nat /\ DOMAIN s = 1 .. l /\ DOMAIN t = 1 .. l + 1
              /\ (\A i \in 1 .. l : t[i] = s[i]) /\ t[l + 1] = k + 1
          BY <2>2, <3>2
        <4>2. \A i \in 1 .. l : s[i] \in 1 .. k
          BY <2>3, <2>4, <4>1 DEF ExportLists
        <4> QED BY <4>1, <4>2
      <3> HIDE DEF l
      <3>4. \A i \in 1 .. l + 1 : i \in 1 .. l \/ i = l + 1
        BY <3>3
      <3>5. ASSUME NEW j \in ExportIn(categories, k + 1) PROVE \E i \in DOMAIN t : t[i] = j
        <4>1. CASE j = k + 1
          <5>1. l + 1 \in DOMAIN t
            BY <3>3
          <5> QED BY <3>3, <4>1, <5>1
        <4>2. CASE j # k + 1
          <5>1. j \in ExportIn(categories, k)
            BY <3>1, <4>2
          <5>2. PICK i \in DOMAIN s : s[i] = j
            BY <2>3, <5>1 DEF ExportLists
          <5>3. i \in DOMAIN t /\ t[i] = s[i]
            BY <3>3
          <5> QED BY <5>2, <5>3
        <4> QED BY <4>1, <4>2
      <3>6. \A i, m \in DOMAIN t : t[i] = t[m] => i = m
        BY <2>3, <3>3, <3>4 DEF ExportLists
      <3>7. \A i \in DOMAIN t : t[i] \in ExportIn(categories, k + 1)
        BY <2>3, <3>1, <3>3, <3>4 DEF ExportLists
      <3> QED BY <3>5, <3>6, <3>7 DEF ExportLists, t
    <2>6. CASE lines[k + 1].category \notin categories
      <3>1. ExportIn(categories, k + 1) = ExportIn(categories, k)
        BY <2>6 DEF ExportIn
      <3>2. t = s
        BY <2>2, <2>6 DEF ExportOf
      <3> QED BY <2>3, <3>1, <3>2 DEF t
    <2> QED BY <2>5, <2>6
  <1>5. n \in Good
    <2>1. Nat \subseteq Good
      <3> HIDE DEF Good
      <3> QED BY <1>3, <1>4, NumberInduction
    <2> QED BY <1>2, <2>1
  <1>6. at[n] \in Seq(DOMAIN lines)
    BY <1>2
  <1>7. ExportLists(at[n], ExportIn(categories, n))
    BY <1>2, <1>5
  <1> QED BY <1>1, <1>6, <1>7 DEF n

\* The groups have every line once.
ExportParts(groups) ==
  /\ groups \in Seq(Seq(DOMAIN lines))
  /\ \A j \in DOMAIN lines : \E i \in DOMAIN groups : \E k \in DOMAIN groups[i] : groups[i][k] = j
  /\ \A i, h \in DOMAIN groups : \A k \in DOMAIN groups[i], m \in DOMAIN groups[h] :
       groups[i][k] = groups[h][m] => i = h /\ k = m

\* The groups that are written have every line once, those of a category that was not read included.
LEMMA ExportGrouped ==
  ASSUME lines \in Seq(ExportLine), nCategories \in 0 .. MaxCategories, MaxCategories \in Nat
  PROVE  ExportParts(Export!Grouped)
  <1> DEFINE n == nCategories
             others == (0 .. MaxCategories) \ (1 .. n)
             rest == Export!LinesOf(others)
             more == IF rest = <<>> THEN <<>> ELSE <<rest>>
             gs == Export!Grouped
             Of(i) == IF i =< n THEN {i} ELSE others
             L == DOMAIN lines
  <1>1. n \in Nat /\ L = 1 .. Len(lines) /\ Len(lines) \in Nat /\ \A j \in L : lines[j].category \in 0 .. MaxCategories
    <2>1. \A j \in L : lines[j] \in ExportLine
      OBVIOUS
    <2> QED BY <2>1 DEF ExportLine
  <1>2. gs = Export!InCategories \o more
    BY DEF Export!Grouped
  <1>3. /\ Export!InCategories = [i \in 1 .. n |-> Export!LinesOf({i})]
        /\ Export!InCategories \in Seq(Seq(L)) /\ Len(Export!InCategories) = n
    <2>1. \A i \in 1 .. n : Export!LinesOf({i}) \in Seq(L)
      BY ExportLinesOf
    <2>2. [i \in 1 .. n |-> Export!LinesOf({i})] \in Seq(Seq(L))
      BY <1>1, <2>1
    <2> QED BY <1>1, <2>2 DEF Export!InCategories
  <1>4. rest \in Seq(L) /\ more \in Seq(Seq(L)) /\ Len(more) \in {0, 1}
    <2>1. rest \in Seq(L)
      BY ExportLinesOf
    <2> HIDE DEF rest
    <2>2. <<rest>> \in Seq(Seq(L)) /\ <<>> \in Seq(Seq(L)) /\ Len(<<rest>>) = 1
      BY <2>1
    <2> QED BY <2>1, <2>2
  <1> DEFINE m == n + Len(more)
  <1>5. gs \in Seq(Seq(L)) /\ DOMAIN gs = 1 .. m /\ m \in Nat
    <2> HIDE DEF gs, more
    <2>1. gs \in Seq(Seq(L)) /\ Len(gs) = n + Len(more)
      BY <1>1, <1>2, <1>3, <1>4
    <2>2. DOMAIN gs = 1 .. Len(gs) /\ Len(gs) \in Nat
      BY <2>1
    <2> QED BY <2>1, <2>2
  <1>6. \A i \in DOMAIN gs : gs[i] = Export!LinesOf(Of(i)) /\ (i =< n \/ i = n + 1)
    <2> SUFFICES ASSUME NEW i \in DOMAIN gs PROVE gs[i] = Export!LinesOf(Of(i)) /\ (i =< n \/ i = n + 1)
      OBVIOUS
    <2>1. CASE i =< n
      <3>1. i \in 1 .. n
        BY <1>1, <1>5, <2>1
      <3>2. gs[i] = Export!InCategories[i]
        BY <1>1, <1>2, <1>3, <1>4, <3>1
      <3> QED BY <1>3, <2>1, <3>1, <3>2
    <2>2. CASE i > n
      <3>1. Len(more) = 1 /\ i = n + 1 /\ Len(more) # 0
        BY <1>1, <1>4, <1>5, <2>2
      <3>2. more = <<rest>>
        BY <3>1
      <3>3. gs[i] = rest
        <4> HIDE DEF rest
        <4>1. gs = Export!InCategories \o <<rest>>
          BY <1>2, <3>2
        <4> QED BY <1>1, <1>3, <3>1, <4>1
      <3> QED BY <2>2, <1>1, <3>1, <3>3
    <2> QED BY <1>1, <1>5, <2>1, <2>2
  <1>7. \A i \in DOMAIN gs : ExportLists(gs[i], ExportIn(Of(i), Len(lines)))
    <2> HIDE DEF gs, Of
    <2> QED BY <1>6, ExportLinesOf
  <1>8. \A j \in L : \E i \in DOMAIN gs : \E k \in DOMAIN gs[i] : gs[i][k] = j
    <2> SUFFICES ASSUME NEW j \in L PROVE \E i \in DOMAIN gs : \E k \in DOMAIN gs[i] : gs[i][k] = j
      OBVIOUS
    <2> DEFINE c == lines[j].category
    <2>1. \E i \in DOMAIN gs : c \in Of(i)
      <3>1. CASE c \in 1 .. n
        <4>1. c \in DOMAIN gs /\ c \in Of(c)
          BY <1>1, <1>4, <1>5, <3>1
        <4> QED BY <4>1
      <3>2. CASE c \notin 1 .. n
        <4>1. c \in others
          BY <1>1, <3>2
        <4>2. j \in ExportIn(others, Len(lines))
          BY <1>1, <4>1 DEF ExportIn
        <4>3. rest # <<>>
          <5>1. ExportLists(rest, ExportIn(others, Len(lines)))
            <6> HIDE DEF others
            <6> QED BY ExportLinesOf
          <5>2. \E k \in DOMAIN rest : rest[k] = j
            BY <4>2, <5>1 DEF ExportLists
          <5> HIDE DEF rest
          <5> QED BY <5>2
        <4>4. Len(more) = 1
          <5> HIDE DEF rest
          <5> QED BY <4>3
        <4>5. n + 1 \in DOMAIN gs /\ Of(n + 1) = others
          BY <1>1, <1>5, <4>4
        <4> QED BY <4>1, <4>5
      <3> QED BY <3>1, <3>2
    <2>2. PICK i \in DOMAIN gs : c \in Of(i)
      BY <2>1
    <2>3. j \in ExportIn(Of(i), Len(lines))
      BY <1>1, <2>2 DEF ExportIn
    <2> QED BY <1>7, <2>3 DEF ExportLists
  <1>9. ASSUME NEW i \in DOMAIN gs, NEW h \in DOMAIN gs, NEW k \in DOMAIN gs[i], NEW p \in DOMAIN gs[h],
               gs[i][k] = gs[h][p]
        PROVE  i = h /\ k = p
    <2>1. gs[i][k] \in ExportIn(Of(i), Len(lines)) /\ gs[h][p] \in ExportIn(Of(h), Len(lines))
      BY <1>7 DEF ExportLists
    <2>2. lines[gs[i][k]].category \in Of(i) /\ lines[gs[i][k]].category \in Of(h)
      BY <1>9, <2>1 DEF ExportIn
    <2>3. i \in Nat \ {0} /\ h \in Nat \ {0}
      BY <1>5
    <2>4. i = h
      <3> DEFINE c == lines[gs[i][k]].category
      <3>1. (i =< n \/ i = n + 1) /\ (h =< n \/ h = n + 1)
        BY <1>6
      <3>2. c \in Of(i) /\ c \in Of(h)
        BY <2>2
      <3> HIDE DEF gs, c
      <3>3. CASE i =< n /\ h =< n
        BY <3>2, <3>3
      <3>4. CASE i =< n /\ h = n + 1
        <4>1. c = i /\ c \in others /\ i \in 1 .. n
          BY <1>1, <2>3, <3>2, <3>4
        <4> QED BY <4>1
      <3>5. CASE i = n + 1 /\ h =< n
        <4>1. c = h /\ c \in others /\ h \in 1 .. n
          BY <1>1, <2>3, <3>2, <3>5
        <4> QED BY <4>1
      <3>6. CASE i = n + 1 /\ h = n + 1
        BY <3>6
      <3> QED BY <3>1, <3>3, <3>4, <3>5, <3>6
    <2>5. \A x, y \in DOMAIN gs[i] : gs[i][x] = gs[i][y] => x = y
      BY <1>7 DEF ExportLists
    <2> QED BY <1>9, <2>4, <2>5
  <1> HIDE DEF gs
  <1>10. gs \in Seq(Seq(DOMAIN lines))
    BY <1>5
  <1> QED BY <1>8, <1>9, <1>10 DEF ExportParts, gs

-----------------------------------------------------------------------------
\* The group a line is in, and the lines of a group.
ExportGroup(groups) ==
  [j \in DOMAIN lines |-> CHOOSE i \in DOMAIN groups : \E k \in DOMAIN groups[i] : groups[i][k] = j]
ExportPart(groups, i) == {j \in DOMAIN lines : ExportGroup(groups)[j] = i}

\* Every line is in one group, and the lines of a group are those that it lists.
LEMMA ExportGroupOf ==
  ASSUME NEW groups, ExportParts(groups)
  PROVE  /\ \A j \in DOMAIN lines : ExportGroup(groups)[j] \in DOMAIN groups
         /\ \A i \in DOMAIN groups : \A k \in DOMAIN groups[i] : groups[i][k] \in ExportPart(groups, i)
         /\ \A i \in DOMAIN groups : \A j \in ExportPart(groups, i) : \E k \in DOMAIN groups[i] : groups[i][k] = j
  <1>1. ASSUME NEW j \in DOMAIN lines
        PROVE  /\ ExportGroup(groups)[j] \in DOMAIN groups
               /\ \E k \in DOMAIN groups[ExportGroup(groups)[j]] : groups[ExportGroup(groups)[j]][k] = j
    BY DEF ExportParts, ExportGroup
  <1>2. ASSUME NEW i \in DOMAIN groups, NEW k \in DOMAIN groups[i] PROVE groups[i][k] \in ExportPart(groups, i)
    <2> DEFINE j == groups[i][k]
               h == ExportGroup(groups)[j]
    <2>1. groups[i] \in Seq(DOMAIN lines)
      BY DEF ExportParts
    <2>2. j \in DOMAIN lines
      BY <2>1
    <2>3. h \in DOMAIN groups /\ \E m \in DOMAIN groups[h] : groups[h][m] = j
      BY <1>1, <2>2
    <2>4. h = i
      BY <2>3 DEF ExportParts
    <2> QED BY <2>2, <2>4 DEF ExportPart
  <1>3. ASSUME NEW i \in DOMAIN groups, NEW j \in ExportPart(groups, i)
        PROVE  \E k \in DOMAIN groups[i] : groups[i][k] = j
    BY <1>1 DEF ExportPart
  <1> QED BY <1>1, <1>2, <1>3

\* What stands beside the lines of a group adds up to what the lines of it do.
LEMMA ExportGroupSum ==
  ASSUME NEW groups, ExportParts(groups), lines \in Seq(ExportLine), NEW i \in DOMAIN groups,
         NEW v, \A j \in DOMAIN lines : v[j] \in Int, NEW b \in Int,
         NEW w, \A k \in DOMAIN groups[i] : w[b + k] = v[groups[i][k]]
  PROVE  SumFunctionOnSet(w, b + 1 .. b + Len(groups[i])) = SumFunctionOnSet(v, ExportPart(groups, i))
  <1> DEFINE g == groups[i]
             n == Len(g)
             S == b + 1 .. b + n
             T == ExportPart(groups, i)
             h == [r \in S |-> g[r - b]]
  <1>1. g \in Seq(DOMAIN lines) /\ n \in Nat /\ DOMAIN g = 1 .. n
    <2>1. g \in Seq(DOMAIN lines)
      BY DEF ExportParts
    <2> QED BY <2>1
  <1>2. (\A k \in DOMAIN g : g[k] \in T) /\ \A j \in T : \E k \in DOMAIN g : g[k] = j
    BY ExportGroupOf
  <1>3. \A k, m \in DOMAIN g : g[k] = g[m] => k = m
    BY DEF ExportParts
  <1>4. T \subseteq DOMAIN lines /\ IsFiniteSet(S) /\ IsFiniteSet(T)
    <2>1. IsFiniteSet(DOMAIN lines)
      <3>1. DOMAIN lines = 1 .. Len(lines) /\ Len(lines) \in Int
        OBVIOUS
      <3>2. 1 \in Int
        OBVIOUS
      <3> QED BY <3>1, <3>2, FS_Interval
    <2>2. T \subseteq DOMAIN lines
      BY DEF ExportPart
    <2>3. b + 1 \in Int /\ b + n \in Int
      BY <1>1
    <2> QED BY <2>1, <2>2, <2>3, FS_Subset, FS_Interval
  <1> HIDE DEF g, n, T
  <1>5. ASSUME NEW r \in S PROVE h[r] \in T /\ w[r] = v[h[r]]
    <2>1. r - b \in DOMAIN g /\ b + (r - b) = r
      BY <1>1
    <2>2. w[b + (r - b)] = v[g[r - b]]
      BY <2>1 DEF g
    <2> QED BY <1>2, <2>1, <2>2
  <1>6. ASSUME NEW j \in T PROVE v[j] \in Int /\ \E r \in S : h[r] = j
    <2>1. PICK k \in DOMAIN g : g[k] = j
      BY <1>2
    <2>2. b + k \in S /\ (b + k) - b = k
      BY <1>1
    <2> QED BY <1>4, <2>1, <2>2
  <1>7. \A r, s \in S : h[r] = h[s] => r = s
    <2> SUFFICES ASSUME NEW r \in S, NEW s \in S, h[r] = h[s] PROVE r = s
      OBVIOUS
    <2>1. r - b \in DOMAIN g /\ s - b \in DOMAIN g
      BY <1>1
    <2>2. r - b = s - b
      BY <1>3, <2>1
    <2>3. r \in Int /\ s \in Int
      BY <1>1
    <2> QED BY <2>2, <2>3
  <1> HIDE DEF h, S
  <1>8. SumFunctionOnSet(w, S) = SumFunctionOnSet(v, T)
    <2>1. Renames(h, S, T, v, w)
      BY <1>5, <1>6, <1>7 DEF Renames
    <2> QED BY <1>4, <2>1, SumRenamed
  <1> QED BY <1>8 DEF S, n, g, T

\* Group by group they add up to what all lines do.
LEMMA ExportAllSum ==
  ASSUME NEW groups, ExportParts(groups), lines \in Seq(ExportLine),
         NEW v, \A j \in DOMAIN lines : v[j] \in Int,
         NEW g, \A i \in DOMAIN groups : g[i] = SumFunctionOnSet(v, ExportPart(groups, i))
  PROVE  SumFunctionOnSet(g, DOMAIN groups) = SumFunctionOnSet(v, DOMAIN lines)
  <1> DEFINE key == ExportGroup(groups)
             S == DOMAIN lines
             K == DOMAIN groups
  <1>1. \A j \in S : key[j] \in K
    BY ExportGroupOf
  <1>2. IsFiniteSet(S) /\ IsFiniteSet(K)
    <2>1. DOMAIN lines = 1 .. Len(lines) /\ Len(lines) \in Nat
      OBVIOUS
    <2>2. DOMAIN groups = 1 .. Len(groups) /\ Len(groups) \in Nat
      BY DEF ExportParts
    <2> QED BY <2>1, <2>2, FS_Interval
  <1>3. \A i \in K : g[i] = SumFunctionOnSet(v, {j \in S : key[j] = i})
    BY DEF ExportPart
  <1>4. \A j \in S : v[j] \in Int
    OBVIOUS
  <1> HIDE DEF S, K, key
  <1>5. SumFunctionOnSet(g, K) = SumFunctionOnSet(v, S)
    <2>1. SumsOfKeys(key, S, K, v, g)
      BY <1>1, <1>3, <1>4 DEF SumsOfKeys
    <2> QED BY <1>2, <2>1, SumByKey
  <1> QED BY <1>5 DEF S, K

\* Where the blocks below a row are: none reaches into another.
ExportBlocked(groups, blocks, row, end) ==
  /\ end \in Int /\ row =< end
  /\ \A i \in DOMAIN groups :
       /\ blocks[i] \in Int /\ row < blocks[i] /\ blocks[i] + Len(groups[i]) + 1 < end
       /\ \A h \in DOMAIN groups : i < h => blocks[i] + Len(groups[i]) + 1 < blocks[h]

\* The blocks are below the row and above the end, one below the other.
LEMMA ExportBlocks ==
  ASSUME NEW groups, ExportParts(groups), NEW row \in Int
  PROVE  ExportBlocked(groups, Export!Blocks(row, groups), row, Export!AfterBlocks(row, groups))
  <1> DEFINE n == Len(groups)
             L == [j \in 1 .. n |-> Len(groups[j]) + 3]
             Above(i) == SumFunctionOnSet(L, 1 .. i)
  <1>1. n \in Nat /\ DOMAIN groups = 1 .. n /\ \A i \in 1 .. n : Len(groups[i]) \in Nat
    BY DEF ExportParts
  <1>2. \A j \in 1 .. n : L[j] \in Nat /\ L[j] = Len(groups[j]) + 3
    BY <1>1
  <1> HIDE DEF n, L
  <1>3. ASSUME NEW i \in 0 .. n
        PROVE  /\ IsFiniteSet(1 .. i) /\ Above(i) \in Int /\ Above(i) >= 0
               /\ \A h \in 0 .. i : Above(h) =< Above(i)
    <2>1. IsFiniteSet(1 .. i) /\ 1 .. i \subseteq 1 .. n
      BY <1>1, FS_Interval
    <2>2. \A j \in 1 .. i : L[j] \in Nat
      BY <1>2, <2>1
    <2>3. \A h \in 0 .. i : Above(h) =< Above(i)
      <3> SUFFICES ASSUME NEW h \in 0 .. i PROVE Above(h) =< Above(i)
        OBVIOUS
      <3>1. 1 .. h \in SUBSET (1 .. i)
        OBVIOUS
      <3> QED BY <2>1, <2>2, <3>1, SumOfPart
    <2>4. Above(i) \in Int
      <3>1. \A j \in 1 .. i : L[j] \in Int
        BY <2>2
      <3> QED BY <2>1, <3>1, SumType
    <2>5. Above(0) = 0
      <3>1. 1 .. 0 = {}
        OBVIOUS
      <3> QED BY <3>1, SumEmpty
    <2>6. Above(0) =< Above(i)
      BY <2>3
    <2> HIDE DEF Above
    <2> QED BY <2>1, <2>3, <2>4, <2>5, <2>6
  <1>4. ASSUME NEW i \in 1 .. n PROVE Above(i) = Len(groups[i]) + 3 + Above(i - 1)
    <2>1. IsFiniteSet(1 .. i) /\ i \in 1 .. i /\ (1 .. i) \ {i} = 1 .. i - 1
      <3>1. i \in Int /\ 1 \in Int /\ i \in 1 .. i /\ (1 .. i) \ {i} = 1 .. i - 1
        BY <1>1
      <3>2. IsFiniteSet(1 .. i)
        BY <3>1, FS_Interval
      <3> QED BY <3>1, <3>2
    <2>2. \A j \in 1 .. i : L[j] \in Int
      BY <1>1, <1>2
    <2>3. SumFunctionOnSet(L, 1 .. i) = L[i] + SumFunctionOnSet(L, (1 .. i) \ {i})
      BY <2>1, <2>2, SumRemove
    <2> QED BY <1>2, <2>1, <2>3
  <1>5. ASSUME NEW i \in 1 .. n
        PROVE  Export!Blocks(row, groups)[i] = row + 1 + Above(i - 1)
    <2> DEFINE f == [j \in 1 .. i - 1 |-> Len(groups[j]) + 3]
    <2>1. Export!Blocks(row, groups)[i] = row + 1 + Export!Total(f)
      BY <1>1 DEF Export!Blocks
    <2>2. Export!Total(f) = SumFunctionOnSet(f, 1 .. i - 1)
      BY ExportTotal
    <2>3. IsFiniteSet(1 .. i - 1) /\ \A j \in 1 .. i - 1 : L[j] \in Int /\ f[j] = L[j]
      <3>1. i - 1 \in Int /\ 1 \in Int /\ 1 .. i - 1 \subseteq 1 .. n
        BY <1>1
      <3>2. IsFiniteSet(1 .. i - 1)
        BY <3>1, FS_Interval
      <3>3. \A j \in 1 .. i - 1 : L[j] \in Int /\ f[j] = L[j]
        BY <1>2, <3>1
      <3> QED BY <3>2, <3>3
    <2> HIDE DEF f
    <2>4. SumFunctionOnSet(L, 1 .. i - 1) = SumFunctionOnSet(f, 1 .. i - 1)
      BY <2>3, SumSame
    <2> QED BY <2>1, <2>2, <2>4
  <1>6. Export!AfterBlocks(row, groups) = row + Above(n)
    <2>1. Export!AfterBlocks(row, groups) = row + Export!Total(L)
      BY <1>1 DEF Export!AfterBlocks, L
    <2>2. Export!Total(L) = SumFunctionOnSet(L, 1 .. n)
      BY ExportTotal DEF L
    <2> QED BY <2>1, <2>2
  <1> HIDE DEF Above
  <1> DEFINE blocks == Export!Blocks(row, groups)
             end == Export!AfterBlocks(row, groups)
  <1>7. end \in Int /\ row =< end
    BY <1>1, <1>3, <1>6
  <1> HIDE DEF blocks, end
  <1>8. ASSUME NEW i \in 1 .. n
        PROVE  /\ blocks[i] \in Int /\ row < blocks[i] /\ blocks[i] + Len(groups[i]) + 1 < end
               /\ \A h \in 1 .. n : i < h => blocks[i] + Len(groups[i]) + 1 < blocks[h]
    <2>1. i - 1 \in 0 .. n /\ i \in 0 .. n /\ n \in 0 .. n /\ Len(groups[i]) \in Nat /\ i \in 0 .. n
      BY <1>1
    <2>2. Above(i - 1) \in Int /\ Above(i - 1) >= 0 /\ Above(i) \in Int /\ Above(n) \in Int /\ Above(i) =< Above(n)
      BY <1>3, <2>1
    <2>3. blocks[i] = row + 1 + Above(i - 1) /\ Above(i) = Len(groups[i]) + 3 + Above(i - 1)
      BY <1>4, <1>5 DEF blocks
    <2>4. end = row + Above(n)
      BY <1>6 DEF end
    <2>5. ASSUME NEW h \in 1 .. n, i < h PROVE blocks[i] + Len(groups[i]) + 1 < blocks[h]
      <3>1. h - 1 \in 0 .. n /\ i \in 0 .. h - 1
        BY <1>1, <2>5
      <3>2. Above(h - 1) \in Int /\ Above(i) =< Above(h - 1)
        BY <1>3, <3>1
      <3>3. blocks[h] = row + 1 + Above(h - 1)
        BY <1>5 DEF blocks
      <3> DEFINE p == Above(i - 1)
                 q == Above(i)
                 s == Above(h - 1)
                 l == Len(groups[i])
                 b == blocks[i]
      <3>4. b = row + 1 + p /\ q = l + 3 + p /\ q =< s /\ blocks[h] = row + 1 + s
        BY <2>3, <3>2, <3>3
      <3>5. b \in Int /\ p \in Int /\ q \in Int /\ s \in Int /\ l \in Int
        BY <2>1, <2>2, <2>3, <3>2
      <3> HIDE DEF p, q, s, l, b
      <3>6. b + l + 1 < row + 1 + s
        BY <3>4, <3>5
      <3> QED BY <3>4, <3>6 DEF b, l
    <2>6. blocks[i] \in Int /\ row < blocks[i] /\ blocks[i] + Len(groups[i]) + 1 < end
      <3> DEFINE p == Above(i - 1)
                 q == Above(i)
                 s == Above(n)
                 l == Len(groups[i])
                 b == blocks[i]
      <3>1. b = row + 1 + p /\ q = l + 3 + p /\ q =< s /\ end = row + s /\ p >= 0
        BY <2>2, <2>3, <2>4
      <3>2. p \in Int /\ q \in Int /\ s \in Int /\ l \in Int
        BY <2>1, <2>2
      <3> HIDE DEF p, q, s, l, b
      <3>3. b \in Int /\ row < b /\ b + l + 1 < end
        BY <3>1, <3>2
      <3> QED BY <3>3 DEF b, l
    <2> QED BY <2>5, <2>6
  <1> QED BY <1>1, <1>7, <1>8 DEF ExportBlocked, blocks, end

\* The block a row is in.
ExportBlock(groups, blocks, r) ==
  CHOOSE i \in DOMAIN groups : \E k \in 1 .. Len(groups[i]) + 1 : r = blocks[i] + k

\* A row of a block is in that block.
LEMMA ExportBlockOf ==
  ASSUME NEW groups, ExportParts(groups), NEW blocks, NEW row, NEW end, ExportBlocked(groups, blocks, row, end),
         NEW i \in DOMAIN groups, NEW k \in 1 .. Len(groups[i]) + 1
  PROVE  ExportBlock(groups, blocks, blocks[i] + k) = i
  <1>1. DOMAIN groups \subseteq Nat /\ \A h \in DOMAIN groups : Len(groups[h]) \in Nat /\ blocks[h] \in Int
    BY DEF ExportParts, ExportBlocked
  <1>2. ASSUME NEW h \in DOMAIN groups, NEW m \in 1 .. Len(groups[h]) + 1, blocks[i] + k = blocks[h] + m
        PROVE  h = i
    <2>1. i < h => blocks[i] + Len(groups[i]) + 1 < blocks[h]
      BY DEF ExportBlocked
    <2>2. h < i => blocks[h] + Len(groups[h]) + 1 < blocks[i]
      BY DEF ExportBlocked
    <2>3. i \in Nat /\ h \in Nat /\ Len(groups[i]) \in Nat /\ Len(groups[h]) \in Nat
          /\ blocks[i] \in Int /\ blocks[h] \in Int
      BY <1>1
    <2>4. k \in Int /\ m \in Int /\ k =< Len(groups[i]) + 1 /\ m =< Len(groups[h]) + 1 /\ k >= 1 /\ m >= 1
      BY <2>3
    <2>5. ~(i < h)
      BY <1>2, <2>1, <2>3, <2>4
    <2>6. ~(h < i)
      BY <1>2, <2>2, <2>3, <2>4
    <2> QED BY <2>3, <2>5, <2>6
  <1> QED BY <1>2 DEF ExportBlock

\* The cells that a cell reads.
ExportReads(x) ==
  IF x.f \in {"plus", "minus", "over"} THEN {x.cells[i] : i \in DOMAIN x.cells}
  ELSE IF x.f = "sum" THEN {<<x.col, r>> : r \in x.cells[1][2] .. x.cells[2][2]}
  ELSE {}
ExportCell(x) ==
  /\ x.f \in {"num", "sumif", "plus", "sum", "minus", "over"}
  /\ x.f \in {"minus", "over"} => 1 \in DOMAIN x.cells /\ 2 \in DOMAIN x.cells

\* It is worth the same for the same values of these.
LEMMA ExportSameWorth ==
  ASSUME NEW x, ExportCell(x), NEW v, NEW w, NEW list, NEW amounts,
         \A q \in ExportReads(x) : Export!Worth(v, q) = Export!Worth(w, q)
  PROVE  Export!Evaluated(x, v, list, amounts) = Export!Evaluated(x, w, list, amounts)
  <1>1. CASE x.f = "num"
    BY <1>1 DEF Export!Evaluated
  <1>2. CASE x.f = "sumif"
    BY <1>2 DEF Export!Evaluated
  <1>3. CASE x.f = "plus"
    <2>1. \A i \in DOMAIN x.cells : Export!Worth(v, x.cells[i]) = Export!Worth(w, x.cells[i])
      BY <1>3 DEF ExportReads
    <2>2. [i \in DOMAIN x.cells |-> Export!Worth(v, x.cells[i])] = [i \in DOMAIN x.cells |-> Export!Worth(w, x.cells[i])]
      BY <2>1
    <2>3. /\ Export!Evaluated(x, v, list, amounts) = Export!Total([i \in DOMAIN x.cells |-> Export!Worth(v, x.cells[i])])
          /\ Export!Evaluated(x, w, list, amounts) = Export!Total([i \in DOMAIN x.cells |-> Export!Worth(w, x.cells[i])])
      BY <1>3 DEF Export!Evaluated
    <2> QED BY <2>2, <2>3
  <1>4. CASE x.f = "sum"
    <2> DEFINE R == x.cells[1][2] .. x.cells[2][2]
    <2>1. \A r \in R : Export!Worth(v, <<x.col, r>>) = Export!Worth(w, <<x.col, r>>)
      BY <1>4 DEF ExportReads
    <2>2. [r \in R |-> Export!Worth(v, <<x.col, r>>)] = [r \in R |-> Export!Worth(w, <<x.col, r>>)]
      BY <2>1
    <2>3. /\ Export!Evaluated(x, v, list, amounts) = Export!Total([r \in R |-> Export!Worth(v, <<x.col, r>>)])
          /\ Export!Evaluated(x, w, list, amounts) = Export!Total([r \in R |-> Export!Worth(w, <<x.col, r>>)])
      BY <1>4 DEF Export!Evaluated
    <2> QED BY <2>2, <2>3
  <1>5. CASE x.f \in {"minus", "over"}
    <2>1. /\ Export!Worth(v, x.cells[1]) = Export!Worth(w, x.cells[1])
          /\ Export!Worth(v, x.cells[2]) = Export!Worth(w, x.cells[2])
      BY <1>5 DEF ExportReads, ExportCell
    <2>2. CASE x.f = "minus"
      BY <2>1, <2>2 DEF Export!Evaluated
    <2>3. CASE x.f = "over"
      BY <2>1, <2>3 DEF Export!Evaluated
    <2> QED BY <1>5, <2>2, <2>3
  <1> QED BY <1>1, <1>2, <1>3, <1>4, <1>5 DEF ExportCell

\* No cell of a sheet is there twice, and each reads only cells of a lower rank.
ExportRanked(sheet, rank, n) ==
  /\ \A x \in sheet : ExportCell(x) /\ rank[<<x.col, x.row>>] \in 0 .. n
  /\ \A x, y \in sheet : <<x.col, x.row>> = <<y.col, y.row>> => x = y
  /\ \A x, y \in sheet : <<y.col, y.row>> \in ExportReads(x) => rank[<<y.col, y.row>>] < rank[<<x.col, x.row>>]

\* These are values of the cells of a sheet, and an empty cell is worth nothing.
ExportEvaluates(sheet, values, list, amounts) ==
  /\ \A x \in sheet : Export!Worth(values, <<x.col, x.row>>) = Export!Evaluated(x, values, list, amounts)
  /\ \A q : (\A x \in sheet : <<x.col, x.row>> # q) => Export!Worth(values, q) = 0

\* A sheet that has every cell once, as a function from places to cells.
LEMMA ExportIndexed ==
  ASSUME NEW sheet, \A x, y \in sheet : <<x.col, x.row>> = <<y.col, y.row>> => x = y
  PROVE  LET At == Export!Indexed(sheet)
             D == DOMAIN At
         IN  /\ D = {<<x.col, x.row>> : x \in sheet}
             /\ \A x \in sheet : <<x.col, x.row>> \in D /\ At[<<x.col, x.row>>] = x
             /\ \A p \in D : At[p] \in sheet /\ <<At[p].col, At[p].row>> = p
  <1> DEFINE At == Export!Indexed(sheet)
             D == DOMAIN At
  <1>1. D = {<<x.col, x.row>> : x \in sheet}
    BY DEF Export!Indexed
  <1>2. \A p \in D : At[p] = CHOOSE x \in sheet : <<x.col, x.row>> = p
    BY DEF Export!Indexed
  <1> HIDE DEF At
  <1>3. \A p \in D : At[p] \in sheet /\ <<At[p].col, At[p].row>> = p
    <2> SUFFICES ASSUME NEW p \in D PROVE At[p] \in sheet /\ <<At[p].col, At[p].row>> = p
      OBVIOUS
    <2>1. \E x \in sheet : <<x.col, x.row>> = p
      BY <1>1
    <2> QED BY <1>2, <2>1
  <1>4. ASSUME NEW x \in sheet PROVE <<x.col, x.row>> \in D /\ At[<<x.col, x.row>>] = x
    <2>1. <<x.col, x.row>> \in D
      BY <1>1
    <2>2. At[<<x.col, x.row>>] \in sheet
          /\ <<At[<<x.col, x.row>>].col, At[<<x.col, x.row>>].row>> = <<x.col, x.row>>
      BY <1>3, <2>1
    <2> QED BY <2>1, <2>2
  <1> QED BY <1>1, <1>3, <1>4 DEF At

\* The cells of a sheet have values.
LEMMA ExportHasValues ==
  ASSUME NEW sheet, NEW rank, NEW n \in Nat, ExportRanked(sheet, rank, n), NEW list, NEW amounts
  PROVE  ExportEvaluates(sheet, Export!Values(Export!Indexed(sheet), list, amounts), list, amounts)
  <1> DEFINE At == Export!Indexed(sheet)
             D == DOMAIN At
             Ev(x, v) == Export!Evaluated(x, v, list, amounts)
  <1>1. /\ D = {<<x.col, x.row>> : x \in sheet}
        /\ \A x \in sheet : <<x.col, x.row>> \in D /\ At[<<x.col, x.row>>] = x
        /\ \A p \in D : At[p] \in sheet /\ <<At[p].col, At[p].row>> = p
    BY ExportIndexed DEF ExportRanked
  <1> HIDE DEF At, D
  <1>2. /\ \A p \in D : ExportCell(At[p]) /\ rank[p] \in 0 .. n
        /\ \A p, q \in D : q \in ExportReads(At[p]) => rank[q] < rank[p]
    BY <1>1 DEF ExportRanked
  <1> DEFINE Upto(v, k) == v = [p \in D |-> v[p]] /\ \A p \in D : rank[p] < k => v[p] = Ev(At[p], v)
             Good == {k \in Nat : \E v : Upto(v, k)}
  <1>3. 0 \in Good
    <2> DEFINE v == [p \in D |-> 0]
    <2>1. v = [p \in D |-> v[p]] /\ \A p \in D : ~(rank[p] < 0)
      BY <1>2
    <2> HIDE DEF v, Ev
    <2> QED BY <2>1
  <1>4. \A k \in Nat : k \in Good => k + 1 \in Good
    <2> SUFFICES ASSUME NEW k \in Nat, NEW v, Upto(v, k) PROVE \E w : Upto(w, k + 1)
      OBVIOUS
    <2> DEFINE w == [p \in D |-> Ev(At[p], v)]
    <2>1. DOMAIN v = D
      <3> DEFINE u == [p \in D |-> v[p]]
      <3>1. v = u /\ DOMAIN u = D
        OBVIOUS
      <3> HIDE DEF u
      <3> QED BY <3>1
    <2>2. ASSUME NEW p \in D, rank[p] < k PROVE w[p] = v[p]
      BY <2>2
    <2>3. ASSUME NEW p \in D, rank[p] < k + 1 PROVE w[p] = Ev(At[p], w)
      <3>1. ASSUME NEW q \in ExportReads(At[p]) PROVE Export!Worth(v, q) = Export!Worth(w, q)
        <4>1. CASE q \in D
          <5>1. rank[q] < rank[p] /\ rank[q] \in Int /\ rank[p] \in Int
            BY <1>2, <3>1, <4>1
          <5>2. rank[q] < k
            BY <2>3, <5>1
          <5>3. w[q] = v[q]
            BY <2>2, <4>1, <5>2
          <5> HIDE DEF Ev
          <5> QED BY <2>1, <4>1, <5>3 DEF Export!Worth
        <4>2. CASE q \notin D
          <5> HIDE DEF Ev
          <5> QED BY <2>1, <4>2 DEF Export!Worth
        <4> QED BY <4>1, <4>2
      <3> HIDE DEF w
      <3>2. Ev(At[p], v) = Ev(At[p], w)
        BY <1>2, <3>1, ExportSameWorth
      <3> QED BY <3>2 DEF w
    <2>4. DOMAIN w = D /\ w = [p \in D |-> w[p]]
      OBVIOUS
    <2> HIDE DEF w, Ev
    <2> QED BY <2>3, <2>4
  <1>5. n + 1 \in Good
    <2>1. Nat \subseteq Good
      <3> HIDE DEF Good
      <3> QED BY <1>3, <1>4, NumberInduction
    <2> QED BY <2>1
  <1>6. PICK v : Upto(v, n + 1)
    BY <1>5
  <1> HIDE DEF Ev
  <1>7. \A p \in D : v[p] = Ev(At[p], v)
    BY <1>2, <1>6
  <1> DEFINE Is(u) == u = [p \in D |-> Ev(At[p], u)]
  <1>8. Is(v)
    BY <1>6, <1>7
  <1> DEFINE V == CHOOSE u : Is(u)
  <1>9. Is(V)
    BY <1>8
  <1>10. Export!Values(At, list, amounts) = V
    BY Zenon DEF Export!Values, Ev, D
  <1> HIDE DEF V
  <1>11. DOMAIN V = D /\ \A p \in D : V[p] = Ev(At[p], V)
    <2> DEFINE F == [p \in D |-> Ev(At[p], V)]
    <2>1. V = F
      BY <1>9
    <2>2. DOMAIN F = D /\ \A p \in D : F[p] = Ev(At[p], V)
      OBVIOUS
    <2> HIDE DEF F
    <2> QED BY <2>1, <2>2
  <1>12. \A x \in sheet : Export!Worth(V, <<x.col, x.row>>) = Ev(x, V)
    BY <1>1, <1>11 DEF Export!Worth
  <1>13. \A q : (\A x \in sheet : <<x.col, x.row>> # q) => Export!Worth(V, q) = 0
    BY <1>1, <1>11 DEF Export!Worth
  <1> QED BY <1>10, <1>12, <1>13 DEF ExportEvaluates, At, Ev

\* What the cells of a sheet are worth, by their formulas.
LEMMA ExportWorth ==
  ASSUME NEW sheet, NEW v, NEW list, NEW amounts, ExportEvaluates(sheet, v, list, amounts), NEW c, NEW r
  PROVE  /\ \A n : Export!Num(c, r, n) \in sheet => Export!Worth(v, <<c, r>>) = n
         /\ \A a, b : Export!Sum(c, r, a, b) \in sheet =>
              Export!Worth(v, <<c, r>>) = SumFunctionOnSet([q \in a .. b |-> Export!Worth(v, <<c, q>>)], a .. b)
         /\ \A cells : Export!Plus(c, r, cells) \in sheet =>
              Export!Worth(v, <<c, r>>)
                = SumFunctionOnSet([i \in DOMAIN cells |-> Export!Worth(v, cells[i])], DOMAIN cells)
         /\ \A x, y : Export!Minus(c, r, x, y) \in sheet =>
              Export!Worth(v, <<c, r>>) = Export!Worth(v, x) - Export!Worth(v, y)
         /\ \A x, y : Export!Over(c, r, x, y) \in sheet =>
              Export!Worth(v, <<c, r>>) = Export!Worth(v, x) \div Export!Worth(v, y)
         /\ \A j, column : Export!SumIf(c, r, j, column) \in sheet =>
              Export!Worth(v, <<c, r>>)
                = SumFunctionOnSet([q \in {p \in DOMAIN list : p[1] = 9 /\ list[p].n = j} |->
                                      Export!Worth(amounts, <<column, q[2]>>)],
                                   {p \in DOMAIN list : p[1] = 9 /\ list[p].n = j})
  <1> DEFINE Ev(x) == Export!Evaluated(x, v, list, amounts)
  <1>1. \A x \in sheet : Export!Worth(v, <<x.col, x.row>>) = Ev(x)
    BY DEF ExportEvaluates
  <1> HIDE DEF Ev
  <1>2. ASSUME NEW n, Export!Num(c, r, n) \in sheet PROVE Export!Worth(v, <<c, r>>) = n
    <2> DEFINE x == Export!Num(c, r, n)
    <2>1. x.col = c /\ x.row = r /\ x.f = "num" /\ x.n = n
      BY DEF Export!Num, Export!Cell
    <2> HIDE DEF x
    <2>2. Ev(x) = n
      BY <2>1 DEF Ev, Export!Evaluated
    <2> QED BY <1>1, <1>2, <2>1, <2>2 DEF x
  <1>3. ASSUME NEW a, NEW b, Export!Sum(c, r, a, b) \in sheet
        PROVE  Export!Worth(v, <<c, r>>) = SumFunctionOnSet([q \in a .. b |-> Export!Worth(v, <<c, q>>)], a .. b)
    <2> DEFINE x == Export!Sum(c, r, a, b)
               f == [q \in a .. b |-> Export!Worth(v, <<c, q>>)]
    <2>1. x.col = c /\ x.row = r /\ x.f = "sum" /\ x.cells[1][2] = a /\ x.cells[2][2] = b
      BY DEF Export!Sum, Export!Cell
    <2> HIDE DEF x
    <2>2. Ev(x) = Export!Total(f)
      BY <2>1 DEF Ev, Export!Evaluated
    <2>3. Export!Total(f) = SumFunctionOnSet(f, a .. b)
      BY ExportTotal
    <2> HIDE DEF f
    <2>4. Export!Worth(v, <<c, r>>) = Ev(x)
      BY <1>1, <1>3, <2>1 DEF x
    <2> QED BY <2>2, <2>3, <2>4 DEF f
  <1>4. ASSUME NEW cells, Export!Plus(c, r, cells) \in sheet
        PROVE  Export!Worth(v, <<c, r>>)
                 = SumFunctionOnSet([i \in DOMAIN cells |-> Export!Worth(v, cells[i])], DOMAIN cells)
    <2> DEFINE x == Export!Plus(c, r, cells)
               f == [i \in DOMAIN cells |-> Export!Worth(v, cells[i])]
    <2>1. x.col = c /\ x.row = r /\ x.f = "plus" /\ x.cells = cells
      BY DEF Export!Plus, Export!Cell
    <2> HIDE DEF x
    <2>2. Ev(x) = Export!Total(f)
      BY <2>1 DEF Ev, Export!Evaluated
    <2>3. Export!Total(f) = SumFunctionOnSet(f, DOMAIN cells)
      BY ExportTotal
    <2> HIDE DEF f
    <2>4. Export!Worth(v, <<c, r>>) = Ev(x)
      BY <1>1, <1>4, <2>1 DEF x
    <2> QED BY <2>2, <2>3, <2>4 DEF f
  <1>5. ASSUME NEW y, NEW z, Export!Minus(c, r, y, z) \in sheet
        PROVE  Export!Worth(v, <<c, r>>) = Export!Worth(v, y) - Export!Worth(v, z)
    <2> DEFINE x == Export!Minus(c, r, y, z)
    <2>1. x.col = c /\ x.row = r /\ x.f = "minus" /\ x.cells[1] = y /\ x.cells[2] = z
      BY DEF Export!Minus, Export!Cell
    <2> HIDE DEF x
    <2>2. Ev(x) = Export!Worth(v, y) - Export!Worth(v, z)
      BY <2>1 DEF Ev, Export!Evaluated
    <2> QED BY <1>1, <1>5, <2>1, <2>2 DEF x
  <1>6. ASSUME NEW y, NEW z, Export!Over(c, r, y, z) \in sheet
        PROVE  Export!Worth(v, <<c, r>>) = Export!Worth(v, y) \div Export!Worth(v, z)
    <2> DEFINE x == Export!Over(c, r, y, z)
    <2>1. x.col = c /\ x.row = r /\ x.f = "over" /\ x.cells[1] = y /\ x.cells[2] = z
      BY DEF Export!Over, Export!Cell
    <2> HIDE DEF x
    <2>2. Ev(x) = Export!Worth(v, y) \div Export!Worth(v, z)
      BY <2>1 DEF Ev, Export!Evaluated
    <2> QED BY <1>1, <1>6, <2>1, <2>2 DEF x
  <1>7. ASSUME NEW j, NEW column, Export!SumIf(c, r, j, column) \in sheet
        PROVE  Export!Worth(v, <<c, r>>)
                = SumFunctionOnSet([q \in {p \in DOMAIN list : p[1] = 9 /\ list[p].n = j} |->
                                      Export!Worth(amounts, <<column, q[2]>>)],
                                   {p \in DOMAIN list : p[1] = 9 /\ list[p].n = j})
    <2> DEFINE x == Export!SumIf(c, r, j, column)
               Q == {p \in DOMAIN list : p[1] = 9 /\ list[p].n = j}
               f == [q \in Q |-> Export!Worth(amounts, <<column, q[2]>>)]
    <2>1. x.col = c /\ x.row = r /\ x.f = "sumif" /\ x.n = j /\ x.cells[1][1] = column
      BY DEF Export!SumIf, Export!Cell
    <2> HIDE DEF x
    <2>2. Ev(x) = Export!Total(f)
      BY <2>1 DEF Ev, Export!Evaluated
    <2>3. Export!Total(f) = SumFunctionOnSet(f, Q)
      BY ExportTotal
    <2> HIDE DEF f, Q
    <2>4. Export!Worth(v, <<c, r>>) = Ev(x)
      BY <1>1, <1>7, <2>1 DEF x
    <2> QED BY <2>2, <2>3, <2>4 DEF f, Q
  <1> QED BY <1>2, <1>3, <1>4, <1>5, <1>6, <1>7

\* A column of a sheet: beside the lines there stands what v says of them.
ExportColumn(groups, blocks, value, c, v) ==
  /\ \A j \in DOMAIN lines : v[j] \in Int
  /\ \A i \in DOMAIN groups : \A k \in DOMAIN groups[i] :
       Export!Worth(value, <<c, blocks[i] + k>>) = v[groups[i][k]]

\* It has subtotals, and a summary below the header.
ExportAdding(groups, blocks, header, sheet, value, list, amounts, c, v) ==
  /\ ExportColumn(groups, blocks, value, c, v)
  /\ ExportEvaluates(sheet, value, list, amounts)
  /\ header \in Int /\ \A i \in DOMAIN groups : blocks[i] \in Int
  /\ \E cols : c \in cols /\ Export!Subtotals(groups, blocks, cols) \subseteq sheet
  /\ Export!Summary(header, groups, blocks, {c}) \subseteq sheet

ExportAdded(groups, blocks, header, value, c, v) ==
  /\ \A i \in DOMAIN groups : Export!Worth(value, <<c, Export!SubtotalRow(i, groups, blocks)>>)
                                = SumFunctionOnSet(v, ExportPart(groups, i))
  /\ Export!Worth(value, <<c, header + Len(groups) + 1>>) = SumFunctionOnSet(v, DOMAIN lines)

\* Then the subtotals are those of the groups, the summary repeats them, and its total is that
\* of all lines.
LEMMA ExportColumnSums ==
  ASSUME NEW groups, ExportParts(groups), lines \in Seq(ExportLine),
         NEW blocks, NEW header, NEW sheet, NEW value, NEW list, NEW amounts, NEW c, NEW v,
         ExportAdding(groups, blocks, header, sheet, value, list, amounts, c, v)
  PROVE  ExportAdded(groups, blocks, header, value, c, v)
  <1> DEFINE W(r) == Export!Worth(value, <<c, r>>)
             Sub(i) == Export!SubtotalRow(i, groups, blocks)
             Share(i) == SumFunctionOnSet(v, ExportPart(groups, i))
             n == Len(groups)
  <1>1. /\ ExportColumn(groups, blocks, value, c, v) /\ ExportEvaluates(sheet, value, list, amounts)
        /\ header \in Int /\ \A i \in DOMAIN groups : blocks[i] \in Int
        /\ Export!Summary(header, groups, blocks, {c}) \subseteq sheet
    BY DEF ExportAdding
  <1>2. PICK cols : c \in cols /\ Export!Subtotals(groups, blocks, cols) \subseteq sheet
    BY DEF ExportAdding
  <1>3. /\ header \in Int /\ groups \in Seq(Seq(DOMAIN lines)) /\ n \in Nat /\ DOMAIN groups = 1 .. n
        /\ \A i \in 1 .. n : groups[i] \in Seq(DOMAIN lines) /\ Len(groups[i]) \in Nat /\ blocks[i] \in Int
        /\ \A i \in 1 .. n : DOMAIN groups[i] = 1 .. Len(groups[i])
    BY <1>1 DEF ExportParts
  <1>4. \A j \in DOMAIN lines : v[j] \in Int
    BY <1>1 DEF ExportColumn
  <1>5. \A i \in 1 .. n : Share(i) \in Int
    <2> SUFFICES ASSUME NEW i \in 1 .. n PROVE Share(i) \in Int
      OBVIOUS
    <2>1. ExportPart(groups, i) \subseteq DOMAIN lines /\ IsFiniteSet(DOMAIN lines)
      <3>1. DOMAIN lines = 1 .. Len(lines) /\ Len(lines) \in Int /\ 1 \in Int
        OBVIOUS
      <3> QED BY <3>1, FS_Interval DEF ExportPart
    <2>2. IsFiniteSet(ExportPart(groups, i)) /\ \A j \in ExportPart(groups, i) : v[j] \in Int
      BY <1>4, <2>1, FS_Subset
    <2> QED BY <2>2, SumType
  <1>6. ASSUME NEW i \in 1 .. n PROVE W(Sub(i)) = Share(i)
    <2> DEFINE b == blocks[i]
               l == Len(groups[i])
               w == [q \in b + 1 .. b + l |-> W(q)]
               cell == IF groups[i] = <<>> THEN Export!Num(c, Sub(i), 0) ELSE Export!Sum(c, Sub(i), b + 1, Sub(i) - 1)
    <2>1. Sub(i) = b + l + 1 /\ Sub(i) - 1 = b + l /\ b \in Int /\ l \in Nat
      BY <1>3 DEF Export!SubtotalRow
    <2>2. cell \in sheet
      <3>1. i \in DOMAIN groups
        BY <1>3
      <3> DEFINE CellOf(h, d) ==
                   IF groups[h] = <<>> THEN Export!Num(d, Sub(h), 0)
                   ELSE Export!Sum(d, Sub(h), blocks[h] + 1, Sub(h) - 1)
      <3>2. Export!Subtotals(groups, blocks, cols) = {CellOf(h, d) : h \in DOMAIN groups, d \in cols}
        BY DEF Export!Subtotals
      <3>3. cell = CellOf(i, c)
        OBVIOUS
      <3> HIDE DEF CellOf, cell
      <3> QED BY <1>2, <3>1, <3>2, <3>3
    <2>3. \A k \in DOMAIN groups[i] : w[b + k] = v[groups[i][k]]
      <3> SUFFICES ASSUME NEW k \in DOMAIN groups[i] PROVE w[b + k] = v[groups[i][k]]
        OBVIOUS
      <3>1. b + k \in b + 1 .. b + l /\ i \in DOMAIN groups
        BY <1>3, <2>1
      <3>2. W(b + k) = v[groups[i][k]]
        BY <1>1, <3>1 DEF ExportColumn
      <3> QED BY <3>1, <3>2
    <2>4. SumFunctionOnSet(w, b + 1 .. b + l) = Share(i)
      <3> HIDE DEF w
      <3> QED BY <1>3, <1>4, <2>3, ExportGroupSum
    <2>5. CASE groups[i] = <<>>
      <3>1. W(Sub(i)) = 0
        BY <2>2, <2>5, <1>1, ExportWorth
      <3>2. l = 0 /\ b + 1 .. b + l = {}
        BY <2>1, <2>5
      <3>3. SumFunctionOnSet(w, b + 1 .. b + l) = 0
        BY <3>2, SumEmpty
      <3> QED BY <2>4, <3>1, <3>3
    <2>6. CASE groups[i] # <<>>
      <3>1. Export!Sum(c, Sub(i), b + 1, b + l) \in sheet
        BY <2>1, <2>2, <2>6
      <3> HIDE DEF cell
      <3>2. W(Sub(i)) = SumFunctionOnSet(w, b + 1 .. b + l)
        BY <3>1, <1>1, ExportWorth
      <3> QED BY <2>4, <3>2
    <2> QED BY <2>5, <2>6
  <1>7. ASSUME NEW i \in 1 .. n PROVE W(header + i) = Share(i)
    <2> DEFINE cells == <<<<c, Sub(i)>>>>
               f == [k \in DOMAIN cells |-> Export!Worth(value, cells[k])]
    <2>1. Export!Plus(c, header + i, cells) \in sheet
      <3> DEFINE C == {c}
                 CellOf(h, d) == Export!Plus(d, header + h, <<<<d, Sub(h)>>>>)
      <3>1. i \in DOMAIN groups /\ c \in C
        BY <1>3
      <3>2. {CellOf(h, d) : h \in DOMAIN groups, d \in C} \subseteq Export!Summary(header, groups, blocks, C)
        BY DEF Export!Summary
      <3>3. Export!Plus(c, header + i, cells) = CellOf(i, c)
        OBVIOUS
      <3> HIDE DEF CellOf, cells, C
      <3>4. CellOf(i, c) \in Export!Summary(header, groups, blocks, C)
        BY <3>1, <3>2
      <3> QED BY <1>1, <3>3, <3>4 DEF C
    <2>2. W(header + i) = SumFunctionOnSet(f, DOMAIN cells)
      <3> HIDE DEF cells
      <3> QED BY <2>1, <1>1, ExportWorth
    <2>3. DOMAIN cells = {1} /\ f[1] = W(Sub(i))
      OBVIOUS
    <2>4. f[1] = Share(i) /\ f[1] \in Int
      BY <1>5, <1>6, <2>3
    <2> HIDE DEF f, cells, Share
    <2> QED BY <2>2, <2>3, <2>4, SumSingle
  <1>8. W(header + n + 1) = SumFunctionOnSet(v, DOMAIN lines)
    <2> DEFINE g == [i \in 1 .. n |-> Share(i)]
               S == header + 1 .. header + n
               w == [q \in S |-> W(q)]
               h == [q \in S |-> q - header]
    <2>1. SumFunctionOnSet(g, 1 .. n) = SumFunctionOnSet(v, DOMAIN lines)
      <3>1. \A i \in DOMAIN groups : g[i] = Share(i)
        BY <1>3
      <3> HIDE DEF g
      <3>2. SumFunctionOnSet(g, DOMAIN groups) = SumFunctionOnSet(v, DOMAIN lines)
        BY <1>4, <3>1, ExportAllSum
      <3> QED BY <1>3, <3>2
    <2>2. SumFunctionOnSet(w, S) = SumFunctionOnSet(g, 1 .. n)
      <3>1. IsFiniteSet(S) /\ IsFiniteSet(1 .. n)
        <4>1. header + 1 \in Int /\ header + n \in Int /\ 1 \in Int /\ n \in Int
          BY <1>3
        <4> QED BY <4>1, FS_Interval
      <3>2. ASSUME NEW q \in S PROVE h[q] \in 1 .. n /\ w[q] = g[h[q]]
        <4>1. q - header \in 1 .. n /\ header + (q - header) = q
          BY <1>3
        <4>2. W(header + (q - header)) = Share(q - header)
          BY <1>7, <4>1
        <4> HIDE DEF W, Share
        <4> QED BY <4>1, <4>2
      <3>3. ASSUME NEW i \in 1 .. n PROVE g[i] \in Int /\ \E q \in S : h[q] = i
        <4>1. header + i \in S /\ h[header + i] = i
          BY <1>3
        <4>2. g[i] \in Int
          BY <1>5
        <4> QED BY <4>1, <4>2
      <3>4. \A p, q \in S : h[p] = h[q] => p = q
        BY <1>3
      <3> HIDE DEF S, w, h, g
      <3>5. Renames(h, S, 1 .. n, g, w)
        BY <3>2, <3>3, <3>4 DEF Renames
      <3> QED BY <3>1, <3>5, SumRenamed
    <2>3. CASE groups = <<>>
      <3>1. Export!Num(c, header + 1, 0) \in sheet
        BY <1>1, <2>3 DEF Export!Summary
      <3>2. n = 0 /\ header + n + 1 = header + 1
        BY <1>3, <2>3
      <3>3. W(header + 1) = 0
        BY <3>1, <1>1, ExportWorth
      <3>4. SumFunctionOnSet(g, 1 .. n) = 0
        <4>1. 1 .. n = {}
          BY <3>2
        <4> HIDE DEF g
        <4> QED BY <4>1, SumEmpty
      <3> QED BY <2>1, <3>2, <3>3, <3>4
    <2>4. CASE groups # <<>>
      <3>1. Export!Sum(c, header + n + 1, header + 1, header + n) \in sheet
        BY <1>1, <2>4 DEF Export!Summary
      <3>2. W(header + n + 1) = SumFunctionOnSet(w, S)
        BY <3>1, <1>1, ExportWorth
      <3> QED BY <2>1, <2>2, <3>2
    <2> QED BY <2>3, <2>4
  <1> QED BY <1>3, <1>6, <1>8 DEF ExportAdded

\* Where a row is in a sheet: above the summary, in it, its total, a line or the subtotal of
\* a block, or below the blocks.
ExportPlace(groups, header, blocks, end, r) ==
  IF r =< header THEN "above"
  ELSE IF r =< header + Len(groups) THEN "row"
  ELSE IF r = header + Len(groups) + 1 THEN "total"
  ELSE IF end =< r THEN "below"
  ELSE IF \E i \in DOMAIN groups : r = Export!SubtotalRow(i, groups, blocks) THEN "subtotal"
  ELSE "line"

\* The blocks are below the summary.
ExportSheet(groups, header, blocks, end) ==
  /\ ExportParts(groups) /\ header \in Int
  /\ \E row \in Int : header + Len(groups) + 1 < row /\ ExportBlocked(groups, blocks, row, end)

\* Every row has one of these places, and no two parts of a sheet share a row.
LEMMA ExportPlaces ==
  ASSUME NEW groups, NEW header, NEW blocks, NEW end, ExportSheet(groups, header, blocks, end)
  PROVE  /\ \A r \in Int : r =< header => ExportPlace(groups, header, blocks, end, r) = "above"
         /\ \A i \in DOMAIN groups :
              header + i \in Int /\ ExportPlace(groups, header, blocks, end, header + i) = "row"
         /\ LET r == header + Len(groups) + 1 IN
            r \in Int /\ ExportPlace(groups, header, blocks, end, r) = "total"
         /\ \A i \in DOMAIN groups :
              LET r == Export!SubtotalRow(i, groups, blocks) IN
              r \in Int /\ ExportPlace(groups, header, blocks, end, r) = "subtotal"
                        /\ ExportBlock(groups, blocks, r) = i
         /\ \A i \in DOMAIN groups : \A k \in 1 .. Len(groups[i]) :
              LET r == blocks[i] + k IN
              r \in Int /\ ExportPlace(groups, header, blocks, end, r) = "line"
                        /\ ExportBlock(groups, blocks, r) = i
         /\ \A r \in Int : end =< r => ExportPlace(groups, header, blocks, end, r) = "below"
  <1> DEFINE n == Len(groups)
             P(r) == ExportPlace(groups, header, blocks, end, r)
  <1>1. PICK row \in Int : header + n + 1 < row /\ ExportBlocked(groups, blocks, row, end)
    BY DEF ExportSheet
  <1>2. /\ header \in Int /\ n \in Nat /\ DOMAIN groups = 1 .. n
        /\ row \in Int /\ header + n + 1 < row /\ end \in Int /\ row =< end
        /\ \A i \in 1 .. n : Len(groups[i]) \in Nat /\ blocks[i] \in Int /\ row < blocks[i]
                             /\ blocks[i] + Len(groups[i]) + 1 < end
    BY <1>1 DEF ExportSheet, ExportParts, ExportBlocked
  <1>3. ExportParts(groups) /\ ExportBlocked(groups, blocks, row, end)
    BY <1>1 DEF ExportSheet
  <1>4. ASSUME NEW r \in Int, r =< header PROVE P(r) = "above"
    BY <1>4 DEF ExportPlace
  <1>5. ASSUME NEW i \in 1 .. n PROVE header + i \in Int /\ P(header + i) = "row"
    BY <1>2 DEF ExportPlace
  <1>6. header + n + 1 \in Int /\ P(header + n + 1) = "total"
    BY <1>2 DEF ExportPlace
  <1>7. ASSUME NEW r \in Int, end =< r PROVE P(r) = "below"
    BY <1>2, <1>7 DEF ExportPlace
  <1>8. ASSUME NEW h \in 1 .. n
         PROVE  /\ Len(groups[h]) + 1 \in 1 .. Len(groups[h]) + 1
                /\ Export!SubtotalRow(h, groups, blocks) = blocks[h] + (Len(groups[h]) + 1)
    <2> DEFINE b == blocks[h]
               l == Len(groups[h])
    <2>1. b \in Int /\ l \in Nat
      BY <1>2
    <2>2. Export!SubtotalRow(h, groups, blocks) = b + l + 1
      BY DEF Export!SubtotalRow
    <2> HIDE DEF b, l
    <2>3. l + 1 \in 1 .. l + 1 /\ b + l + 1 = b + (l + 1)
      BY <2>1
    <2> QED BY <2>2, <2>3 DEF b, l
  <1>9. ASSUME NEW i \in 1 .. n, NEW k \in 1 .. Len(groups[i]) + 1
        PROVE  LET r == blocks[i] + k IN
               /\ r \in Int /\ ExportBlock(groups, blocks, r) = i
               /\ P(r) = IF k = Len(groups[i]) + 1 THEN "subtotal" ELSE "line"
    <2> DEFINE r == blocks[i] + k
    <2>1. k \in Int /\ k >= 1 /\ k =< Len(groups[i]) + 1 /\ Len(groups[i]) \in Nat /\ blocks[i] \in Int
          /\ row < blocks[i] /\ blocks[i] + Len(groups[i]) + 1 < end
      BY <1>2
    <2>2. r \in Int /\ r > row /\ r < end
      <3> DEFINE b == blocks[i]
                 l == Len(groups[i])
      <3>1. k \in Int /\ k >= 1 /\ k =< l + 1 /\ l \in Nat /\ b \in Int /\ row < b /\ b + l + 1 < end
        BY <2>1
      <3> HIDE DEF b, l
      <3>2. b + k \in Int /\ b + k > row /\ b + k < end
        BY <1>2, <3>1
      <3> QED BY <3>2 DEF b
    <2>3. ExportBlock(groups, blocks, r) = i
      BY <1>2, <1>3, ExportBlockOf
    <2>4. P(r) = IF \E h \in DOMAIN groups : r = Export!SubtotalRow(h, groups, blocks) THEN "subtotal" ELSE "line"
      <3> HIDE DEF r
      <3> QED BY <1>2, <2>2 DEF ExportPlace
    <2>5. CASE k = Len(groups[i]) + 1
      <3>1. r = Export!SubtotalRow(i, groups, blocks) /\ i \in DOMAIN groups
        BY <1>2, <1>8, <2>5
      <3> QED BY <2>2, <2>3, <2>4, <2>5, <3>1
    <2>6. CASE k # Len(groups[i]) + 1
      <3>1. ASSUME NEW h \in DOMAIN groups, r = Export!SubtotalRow(h, groups, blocks) PROVE FALSE
        <4> DEFINE m == Len(groups[h]) + 1
        <4>1. m \in 1 .. Len(groups[h]) + 1 /\ r = blocks[h] + m
          BY <1>2, <1>8, <3>1
        <4>2. ExportBlock(groups, blocks, blocks[h] + m) = h
          BY <1>3, <4>1, ExportBlockOf
        <4>3. h = i
          BY <2>3, <4>1, <4>2
        <4> QED BY <2>1, <2>6, <4>1, <4>3
      <3> QED BY <2>2, <2>3, <2>4, <2>6, <3>1
    <2> QED BY <2>5, <2>6
  <1>10. ASSUME NEW i \in 1 .. n
        PROVE  LET r == Export!SubtotalRow(i, groups, blocks) IN
               r \in Int /\ P(r) = "subtotal" /\ ExportBlock(groups, blocks, r) = i
    <2> DEFINE k == Len(groups[i]) + 1
    <2>1. k \in 1 .. Len(groups[i]) + 1 /\ Export!SubtotalRow(i, groups, blocks) = blocks[i] + k
      BY <1>8
    <2> HIDE DEF P
    <2> QED BY <1>9, <2>1
  <1>11. ASSUME NEW i \in 1 .. n, NEW k \in 1 .. Len(groups[i])
        PROVE  LET r == blocks[i] + k IN
               r \in Int /\ P(r) = "line" /\ ExportBlock(groups, blocks, r) = i
    <2>1. k \in 1 .. Len(groups[i]) + 1 /\ k # Len(groups[i]) + 1
      BY <1>2
    <2> HIDE DEF P
    <2> QED BY <1>9, <2>1
  <1> HIDE DEF P
  <1> QED BY <1>2, <1>4, <1>5, <1>6, <1>7, <1>10, <1>11 DEF P

\* What the fields of cells are.
LEMMA ExportFields ==
  ASSUME NEW c, NEW r
  PROVE  /\ \A n : LET x == Export!Num(c, r, n) IN
              x.col = c /\ x.row = r /\ ExportCell(x) /\ ExportReads(x) = {}
         /\ \A j, column : LET x == Export!SumIf(c, r, j, column) IN
              x.col = c /\ x.row = r /\ ExportCell(x) /\ ExportReads(x) = {}
         /\ \A a, b : LET x == Export!Sum(c, r, a, b) IN
              x.col = c /\ x.row = r /\ ExportCell(x) /\ ExportReads(x) = {<<c, q>> : q \in a .. b}
         /\ \A cells : LET x == Export!Plus(c, r, cells) IN
              x.col = c /\ x.row = r /\ ExportCell(x) /\ ExportReads(x) = {cells[i] : i \in DOMAIN cells}
         /\ \A y, z : LET x == Export!Minus(c, r, y, z) IN
              x.col = c /\ x.row = r /\ ExportCell(x) /\ ExportReads(x) = {y, z}
         /\ \A y, z : LET x == Export!Over(c, r, y, z) IN
              x.col = c /\ x.row = r /\ ExportCell(x) /\ ExportReads(x) = {y, z}
  <1>1. ASSUME NEW f, NEW n, NEW cells
        PROVE  LET x == Export!Cell(c, r, f, n, cells) IN
               x.col = c /\ x.row = r /\ x.f = f /\ x.n = n /\ x.cells = cells
    BY DEF Export!Cell
  <1>2. ASSUME NEW n PROVE LET x == Export!Num(c, r, n) IN
          x.col = c /\ x.row = r /\ ExportCell(x) /\ ExportReads(x) = {}
    BY <1>1 DEF Export!Num, ExportCell, ExportReads
  <1>3. ASSUME NEW j, NEW column PROVE LET x == Export!SumIf(c, r, j, column) IN
          x.col = c /\ x.row = r /\ ExportCell(x) /\ ExportReads(x) = {}
    BY <1>1 DEF Export!SumIf, ExportCell, ExportReads
  <1>4. ASSUME NEW a, NEW b PROVE LET x == Export!Sum(c, r, a, b) IN
          x.col = c /\ x.row = r /\ ExportCell(x) /\ ExportReads(x) = {<<c, q>> : q \in a .. b}
    BY <1>1 DEF Export!Sum, ExportCell, ExportReads
  <1>5. ASSUME NEW cells PROVE LET x == Export!Plus(c, r, cells) IN
          x.col = c /\ x.row = r /\ ExportCell(x) /\ ExportReads(x) = {cells[i] : i \in DOMAIN cells}
    BY <1>1 DEF Export!Plus, ExportCell, ExportReads
  <1>6. ASSUME NEW y, NEW z
        PROVE  {<<y, z>>[i] : i \in DOMAIN <<y, z>>} = {y, z} /\ 1 \in DOMAIN <<y, z>> /\ 2 \in DOMAIN <<y, z>>
    <2>1. DOMAIN <<y, z>> = {1, 2} /\ <<y, z>>[1] = y /\ <<y, z>>[2] = z
      OBVIOUS
    <2> QED BY <2>1
  <1>7. ASSUME NEW y, NEW z PROVE LET x == Export!Minus(c, r, y, z) IN
          x.col = c /\ x.row = r /\ ExportCell(x) /\ ExportReads(x) = {y, z}
    <2> DEFINE x == Export!Minus(c, r, y, z)
    <2>1. x.col = c /\ x.row = r /\ x.f = "minus" /\ x.cells = <<y, z>>
      BY <1>1 DEF Export!Minus
    <2> HIDE DEF x
    <2> QED BY <1>6, <2>1 DEF ExportCell, ExportReads, x
  <1>8. ASSUME NEW y, NEW z PROVE LET x == Export!Over(c, r, y, z) IN
          x.col = c /\ x.row = r /\ ExportCell(x) /\ ExportReads(x) = {y, z}
    <2> DEFINE x == Export!Over(c, r, y, z)
    <2>1. x.col = c /\ x.row = r /\ x.f = "over" /\ x.cells = <<y, z>>
      BY <1>1 DEF Export!Over
    <2> HIDE DEF x
    <2> QED BY <1>6, <2>1 DEF ExportCell, ExportReads, x
  <1> QED BY <1>2, <1>3, <1>4, <1>5, <1>7, <1>8

\* The cell of a summary or of a subtotal, by where it is.
ExportShared(groups, header, blocks, end, c, r) ==
  LET place == ExportPlace(groups, header, blocks, end, r)
      i == ExportBlock(groups, blocks, r)
  IN  IF place = "row" THEN Export!Plus(c, r, <<<<c, Export!SubtotalRow(r - header, groups, blocks)>>>>)
      ELSE IF place = "total"
      THEN IF groups = <<>> THEN Export!Num(c, r, 0) ELSE Export!Sum(c, r, header + 1, header + Len(groups))
      ELSE IF groups[i] = <<>> THEN Export!Num(c, r, 0) ELSE Export!Sum(c, r, blocks[i] + 1, r - 1)

\* What such a cell is and reads: a row of the summary the subtotals, the total the rows,
\* a subtotal the lines.
ExportSharedCell(groups, header, blocks, end, x, place, reads) ==
  /\ ExportCell(x) /\ x.col \in Int /\ x.row \in Int
  /\ x = ExportShared(groups, header, blocks, end, x.col, x.row)
  /\ ExportPlace(groups, header, blocks, end, x.row) = place
  /\ \A q \in ExportReads(x) : \E r \in Int :
       q = <<x.col, r>> /\ ExportPlace(groups, header, blocks, end, r) = reads

\* Those of a summary.
LEMMA ExportSummaryCells ==
  ASSUME NEW groups, NEW header, NEW blocks, NEW end, ExportSheet(groups, header, blocks, end),
         NEW cols \in SUBSET Int, NEW x \in Export!Summary(header, groups, blocks, cols)
  PROVE  \/ ExportSharedCell(groups, header, blocks, end, x, "row", "subtotal")
         \/ ExportSharedCell(groups, header, blocks, end, x, "total", "row")
  <1> DEFINE n == Len(groups)
             P(r) == ExportPlace(groups, header, blocks, end, r)
             Sub(i) == Export!SubtotalRow(i, groups, blocks)
             RowCell(i, c) == Export!Plus(c, header + i, <<<<c, Sub(i)>>>>)
             TotalCell(c) == IF groups = <<>> THEN Export!Num(c, header + 1, 0)
                             ELSE Export!Sum(c, header + n + 1, header + 1, header + n)
  <1>1. header \in Int /\ n \in Nat /\ DOMAIN groups = 1 .. n /\ groups \in Seq(Seq(DOMAIN lines))
    BY DEF ExportSheet, ExportParts
  <1>2. (\E i \in DOMAIN groups, c \in cols : x = RowCell(i, c)) \/ (\E c \in cols : x = TotalCell(c))
    BY DEF Export!Summary
  <1>3. ASSUME NEW i \in DOMAIN groups, NEW c \in cols, x = RowCell(i, c)
        PROVE  ExportSharedCell(groups, header, blocks, end, x, "row", "subtotal")
    <2> DEFINE cells == <<<<c, Sub(i)>>>>
    <2>1. x = Export!Plus(c, header + i, cells)
      BY <1>3
    <2>2. x.col = c /\ x.row = header + i /\ ExportCell(x) /\ ExportReads(x) = {cells[k] : k \in DOMAIN cells}
      <3> DEFINE r == header + i
      <3>1. x = Export!Plus(c, r, cells)
        BY <2>1
      <3> HIDE DEF cells, r
      <3>2. x.col = c /\ x.row = r /\ ExportCell(x) /\ ExportReads(x) = {cells[k] : k \in DOMAIN cells}
        BY <3>1, ExportFields
      <3> QED BY <3>2 DEF r
    <2>3. ExportReads(x) = {<<c, Sub(i)>>}
      <3>1. DOMAIN cells = {1} /\ cells[1] = <<c, Sub(i)>>
        OBVIOUS
      <3> HIDE DEF cells
      <3> QED BY <2>2, <3>1
    <2>4. header + i \in Int /\ P(header + i) = "row" /\ Sub(i) \in Int /\ P(Sub(i)) = "subtotal"
      BY ExportPlaces
    <2>5. (header + i) - header = i
      BY <1>1
    <2>6. x = ExportShared(groups, header, blocks, end, c, header + i)
      BY <2>1, <2>4, <2>5 DEF ExportShared
    <2> HIDE DEF P, Sub, cells
    <2>7. \A q \in ExportReads(x) : \E r \in Int : q = <<x.col, r>> /\ P(r) = "subtotal"
      BY <2>2, <2>3, <2>4
    <2> QED BY <2>2, <2>4, <2>6, <2>7 DEF ExportSharedCell, P
  <1>4. ASSUME NEW c \in cols, x = TotalCell(c)
        PROVE  ExportSharedCell(groups, header, blocks, end, x, "total", "row")
    <2> DEFINE t == header + n + 1
    <2>1. t \in Int /\ P(t) = "total"
      BY ExportPlaces
    <2>2. CASE groups = <<>>
      <3>1. x = Export!Num(c, t, 0)
        <4>1. n = 0 /\ t = header + 1
          BY <1>1, <2>2
        <4> QED BY <1>4, <2>2, <4>1
      <3> HIDE DEF t, P
      <3>2. x.col = c /\ x.row = t /\ ExportCell(x) /\ ExportReads(x) = {}
        BY <3>1, ExportFields
      <3>3. x = ExportShared(groups, header, blocks, end, c, t)
        BY <2>1, <2>2, <3>1 DEF ExportShared, P
      <3> QED BY <2>1, <3>2, <3>3 DEF ExportSharedCell, P
    <2>3. CASE groups # <<>>
      <3>1. x = Export!Sum(c, t, header + 1, header + n)
        BY <1>4, <2>3
      <3> HIDE DEF t, P
      <3>2. x.col = c /\ x.row = t /\ ExportCell(x) /\ ExportReads(x) = {<<c, q>> : q \in header + 1 .. header + n}
        BY <3>1, ExportFields
      <3>3. x = ExportShared(groups, header, blocks, end, c, t)
        BY <2>1, <2>3, <3>1 DEF ExportShared, P
      <3>4. ASSUME NEW q \in header + 1 .. header + n PROVE q \in Int /\ P(q) = "row"
        <4>1. q - header \in DOMAIN groups /\ header + (q - header) = q /\ q \in Int
          BY <1>1
        <4>2. P(header + (q - header)) = "row"
          BY <4>1, ExportPlaces DEF P
        <4> QED BY <4>1, <4>2
      <3>5. \A q \in ExportReads(x) : \E r \in Int : q = <<x.col, r>> /\ P(r) = "row"
        BY <3>2, <3>4
      <3> QED BY <2>1, <3>2, <3>3, <3>5 DEF ExportSharedCell, P
    <2> QED BY <2>2, <2>3
  <1> QED BY <1>2, <1>3, <1>4

\* Those of the subtotals.
LEMMA ExportSubtotalCells ==
  ASSUME NEW groups, NEW header, NEW blocks, NEW end, ExportSheet(groups, header, blocks, end),
         NEW cols \in SUBSET Int, NEW x \in Export!Subtotals(groups, blocks, cols)
  PROVE  ExportSharedCell(groups, header, blocks, end, x, "subtotal", "line")
  <1> DEFINE P(r) == ExportPlace(groups, header, blocks, end, r)
             Sub(i) == Export!SubtotalRow(i, groups, blocks)
             SubCell(i, c) == IF groups[i] = <<>> THEN Export!Num(c, Sub(i), 0)
                              ELSE Export!Sum(c, Sub(i), blocks[i] + 1, Sub(i) - 1)
  <1>1. PICK i \in DOMAIN groups, c \in cols : x = SubCell(i, c)
    BY DEF Export!Subtotals
  <1> DEFINE s == Sub(i)
             b == blocks[i]
             l == Len(groups[i])
  <1>2. b \in Int /\ l \in Nat /\ s = b + l + 1
    <2>1. (\E row : ExportBlocked(groups, blocks, row, end)) /\ groups \in Seq(Seq(DOMAIN lines))
      BY DEF ExportSheet, ExportParts
    <2>2. b \in Int
      BY <2>1 DEF ExportBlocked
    <2>3. l \in Nat
      <3>1. groups[i] \in Seq(DOMAIN lines)
        BY <2>1
      <3> QED BY <3>1
    <2>4. s = b + l + 1
      BY DEF Export!SubtotalRow
    <2> QED BY <2>2, <2>3, <2>4
  <1>3. s \in Int /\ P(s) = "subtotal" /\ ExportBlock(groups, blocks, s) = i
    BY ExportPlaces
  <1> HIDE DEF P, s, b, l
  <1>4. x = ExportShared(groups, header, blocks, end, c, s)
    BY <1>1, <1>3 DEF ExportShared, P, s
  <1>5. CASE groups[i] = <<>>
    <2>1. x = Export!Num(c, s, 0)
      BY <1>1, <1>5 DEF s
    <2>2. x.col = c /\ x.row = s /\ ExportCell(x) /\ ExportReads(x) = {}
      BY <2>1, ExportFields
    <2> QED BY <1>3, <1>4, <2>2 DEF ExportSharedCell, P
  <1>6. CASE groups[i] # <<>>
    <2>1. x = Export!Sum(c, s, b + 1, s - 1)
      BY <1>1, <1>6 DEF s, b
    <2>2. x.col = c /\ x.row = s /\ ExportCell(x) /\ ExportReads(x) = {<<c, q>> : q \in b + 1 .. s - 1}
      <3> DEFINE first == b + 1
                 last == s - 1
      <3>1. x = Export!Sum(c, s, first, last)
        BY <2>1
      <3> HIDE DEF first, last
      <3>2. x.col = c /\ x.row = s /\ ExportCell(x) /\ ExportReads(x) = {<<c, q>> : q \in first .. last}
        BY <3>1, ExportFields
      <3> QED BY <3>2 DEF first, last
    <2>3. ASSUME NEW q \in b + 1 .. s - 1 PROVE q \in Int /\ P(q) = "line"
      <3>1. q - b \in 1 .. l /\ b + (q - b) = q /\ q \in Int
        BY <1>2
      <3>2. P(b + (q - b)) = "line"
        BY <3>1, ExportPlaces DEF P, b, l
      <3> QED BY <3>1, <3>2
    <2>4. \A q \in ExportReads(x) : \E r \in Int : q = <<x.col, r>> /\ P(r) = "line"
      BY <2>2, <2>3
    <2> QED BY <1>3, <1>4, <2>2, <2>4 DEF ExportSharedCell, P
  <1> QED BY <1>5, <1>6

\* The ranks: summaries read subtotals, and these the lines; above, the rows of upper read others,
\* and of the lines the cells of column late.
ExportRank(groups, header, blocks, end, upper, late, lower) ==
  [p \in Int \X Int |->
     LET place == ExportPlace(groups, header, blocks, end, p[2]) IN
     IF place = "row" THEN 3 ELSE IF place = "total" THEN 4 ELSE IF place = "subtotal" THEN 2
     ELSE IF place = "below" THEN lower
     ELSE IF place = "above" THEN (IF p[2] \in upper THEN 1 ELSE 0)
     ELSE IF p[1] = late THEN 1 ELSE 0]

\* The other cells of a sheet: its own.
ExportOwnCell(groups, header, blocks, end, x) ==
  /\ ExportCell(x) /\ x.col \in Int /\ x.row \in Int
  /\ ExportPlace(groups, header, blocks, end, x.row) \in {"above", "line", "below"}
ExportOwn(groups, header, blocks, end, own, rank) ==
  /\ \A x \in own : ExportOwnCell(groups, header, blocks, end, x)
  /\ \A x, y \in own : x.col = y.col /\ x.row = y.row => x = y
  /\ \A x \in own : \A p \in ExportReads(x) : p \in Int \X Int /\ rank[p] < rank[<<x.col, x.row>>]

\* A sheet is ranked when its own cells are.
LEMMA ExportSheetRanked ==
  ASSUME NEW groups, NEW header, NEW blocks, NEW end, ExportSheet(groups, header, blocks, end),
         NEW upper, NEW late, NEW lower \in 0 .. 5, NEW own, NEW sheet,
         ExportOwn(groups, header, blocks, end, own,
                   ExportRank(groups, header, blocks, end, upper, late, lower)),
         NEW cols \in SUBSET Int, NEW subs \in SUBSET Int,
         sheet = own \cup Export!Summary(header, groups, blocks, cols) \cup Export!Subtotals(groups, blocks, subs)
  PROVE  ExportRanked(sheet, ExportRank(groups, header, blocks, end, upper, late, lower), 5)
  <1> DEFINE P(r) == ExportPlace(groups, header, blocks, end, r)
             rank == ExportRank(groups, header, blocks, end, upper, late, lower)
             shared == Export!Summary(header, groups, blocks, cols) \cup Export!Subtotals(groups, blocks, subs)
             Shared(x, place, reads) == ExportSharedCell(groups, header, blocks, end, x, place, reads)
             At(x) == <<x.col, x.row>>
  <1>1. \A x \in shared : Shared(x, "row", "subtotal") \/ Shared(x, "total", "row") \/ Shared(x, "subtotal", "line")
    BY ExportSummaryCells, ExportSubtotalCells
  <1>2. \A x \in own : ExportOwnCell(groups, header, blocks, end, x)
    BY DEF ExportOwn
  <1>3. ASSUME NEW c \in Int, NEW r \in Int
        PROVE  /\ rank[<<c, r>>] \in 0 .. 5
               /\ P(r) = "row" => rank[<<c, r>>] = 3
               /\ P(r) = "total" => rank[<<c, r>>] = 4
               /\ P(r) = "subtotal" => rank[<<c, r>>] = 2
               /\ P(r) = "line" => rank[<<c, r>>] < 2
    <2> DEFINE p == <<c, r>>
               value == IF P(r) = "row" THEN 3 ELSE IF P(r) = "total" THEN 4 ELSE IF P(r) = "subtotal" THEN 2
                        ELSE IF P(r) = "below" THEN lower
                        ELSE IF P(r) = "above" THEN (IF r \in upper THEN 1 ELSE 0)
                        ELSE IF c = late THEN 1 ELSE 0
    <2>1. p \in Int \X Int /\ p[1] = c /\ p[2] = r
      OBVIOUS
    <2>2. rank[p] = value
      <3> HIDE DEF p, P
      <3> QED BY <2>1 DEF ExportRank, P
    <2> HIDE DEF P, rank
    <2>3. value \in 0 .. 5
      OBVIOUS
    <2> QED BY <2>2, <2>3
  <1> HIDE DEF P, rank, shared
  <1>4. \A x \in shared : ExportCell(x) /\ x.col \in Int /\ x.row \in Int /\ P(x.row) \in {"row", "total", "subtotal"}
                          /\ x = ExportShared(groups, header, blocks, end, x.col, x.row)
    BY <1>1 DEF ExportSharedCell, P
  <1>5. \A x \in own : ExportCell(x) /\ x.col \in Int /\ x.row \in Int /\ P(x.row) \in {"above", "line", "below"}
    BY <1>2 DEF ExportOwnCell, P
  <1>6. sheet = own \cup shared
    BY DEF shared
  <1>7. \A x \in sheet : ExportCell(x) /\ rank[At(x)] \in 0 .. 5
    BY <1>3, <1>4, <1>5, <1>6
  <1>8. ASSUME NEW x \in sheet, NEW y \in sheet, At(x) = At(y) PROVE x = y
    <2>1. x.col = y.col /\ x.row = y.row
      BY <1>8
    <2>2. CASE x \in own
      <3>1. y \in own
        BY <1>4, <1>5, <1>6, <2>1, <2>2
      <3> QED BY <2>1, <2>2, <3>1 DEF ExportOwn
    <2>3. CASE x \in shared
      <3>1. y \in shared
        BY <1>4, <1>5, <1>6, <2>1, <2>3
      <3> QED BY <1>4, <2>1, <2>3, <3>1
    <2> QED BY <1>6, <2>2, <2>3
  <1>9. ASSUME NEW x \in sheet, NEW y \in sheet, At(y) \in ExportReads(x) PROVE rank[At(y)] < rank[At(x)]
    <2>1. CASE x \in own
      BY <1>9, <2>1 DEF ExportOwn, rank
    <2>2. CASE x \in shared
      <3>1. PICK place, reads : /\ Shared(x, place, reads)
                                /\ <<place, reads>> \in {<<"row", "subtotal">>, <<"total", "row">>, <<"subtotal", "line">>}
        BY <1>1, <2>2
      <3>2. PICK r \in Int : At(y) = <<x.col, r>> /\ P(r) = reads
        BY <1>9, <3>1 DEF ExportSharedCell, P
      <3>3. P(x.row) = place /\ x.col \in Int /\ x.row \in Int
        BY <3>1 DEF ExportSharedCell, P
      <3>4. \/ place = "row" /\ reads = "subtotal"
            \/ place = "total" /\ reads = "row"
            \/ place = "subtotal" /\ reads = "line"
        BY <3>1
      <3>5. rank[<<x.col, r>>] \in Int
        BY <1>3, <3>3
      <3>6. rank[<<x.col, r>>] < rank[At(x)]
        BY <1>3, <3>2, <3>3, <3>4, <3>5
      <3> QED BY <3>2, <3>6
    <2> QED BY <1>6, <2>1, <2>2
  <1> HIDE DEF At
  <1>10. \A x, y \in sheet : At(x) = At(y) => x = y
    BY <1>8
  <1>11. \A x, y \in sheet : At(y) \in ExportReads(x) => rank[At(y)] < rank[At(x)]
    BY <1>9
  <1> QED BY <1>7, <1>10, <1>11 DEF ExportRanked, At, rank

\* The rank of the own cells.
LEMMA ExportOwnRank ==
  ASSUME NEW groups, NEW header, NEW blocks, NEW end, NEW upper, NEW late, NEW lower,
         NEW c \in Int, NEW r \in Int, NEW place,
         place = ExportPlace(groups, header, blocks, end, r)
  PROVE  /\ <<c, r>> \in Int \X Int
         /\ LET rank == ExportRank(groups, header, blocks, end, upper, late, lower)[<<c, r>>] IN
            /\ place = "above" => rank = IF r \in upper THEN 1 ELSE 0
            /\ place = "line" => rank = IF c = late THEN 1 ELSE 0
            /\ place = "total" => rank = 4
            /\ place = "subtotal" => rank = 2
            /\ place = "below" => rank = lower
  <1> DEFINE p == <<c, r>>
  <1>1. p \in Int \X Int /\ p[1] = c /\ p[2] = r
    OBVIOUS
  <1> HIDE DEF p
  <1>2. ExportRank(groups, header, blocks, end, upper, late, lower)[p]
          = IF place = "row" THEN 3 ELSE IF place = "total" THEN 4 ELSE IF place = "subtotal" THEN 2
            ELSE IF place = "below" THEN lower
            ELSE IF place = "above" THEN (IF r \in upper THEN 1 ELSE 0)
            ELSE IF c = late THEN 1 ELSE 0
    BY <1>1 DEF ExportRank
  <1> QED BY <1>1, <1>2 DEF p

\* The original budget: where its blocks are, and its own cells.
ExportOriginalBlocks(groups) == Export!Blocks(Export!OriginalDetail(groups), groups)
ExportOriginalEnd(groups) == Export!AfterBlocks(Export!OriginalDetail(groups), groups)
ExportOriginalCols == IF rate = 0 THEN {3} ELSE {3, 4}
ExportOriginalLine(j, r) ==
  {Export!Num(3, r, lines[j].amount)}
  \cup {Export!Over(4, r, <<3, r>>, Export!RateCell) : x \in IF rate = 0 THEN {} ELSE {rate}}
ExportOriginalLines(groups, blocks) ==
  UNION {UNION {ExportOriginalLine(groups[i][k], blocks[i] + k) : k \in DOMAIN groups[i]} : i \in DOMAIN groups}
ExportOriginalTotal(groups, blocks, c) ==
  Export!Plus(c, Export!OriginalTotal(groups), [i \in DOMAIN groups |-> <<c, Export!SubtotalRow(i, groups, blocks)>>])
ExportOriginalOwn(groups, blocks) ==
  {Export!Num(2, 6, rate)} \cup ExportOriginalLines(groups, blocks)
  \cup {ExportOriginalTotal(groups, blocks, c) : c \in ExportOriginalCols}

\* The sheet is these cells, a summary and subtotals.
LEMMA ExportOriginalCells ==
  ASSUME NEW groups
  PROVE  LET blocks == ExportOriginalBlocks(groups) IN
         Export!OriginalSheet(groups)
           = ExportOriginalOwn(groups, blocks)
             \cup Export!Summary(Export!OriginalSummary, groups, blocks, ExportOriginalCols)
             \cup Export!Subtotals(groups, blocks, ExportOriginalCols)
  <1> DEFINE blocks == ExportOriginalBlocks(groups)
             A == {Export!Num(2, 6, rate)}
             B == Export!Summary(Export!OriginalSummary, groups, blocks, ExportOriginalCols)
             C == Export!Subtotals(groups, blocks, ExportOriginalCols)
             D == ExportOriginalLines(groups, blocks)
             E == {ExportOriginalTotal(groups, blocks, c) : c \in ExportOriginalCols}
  <1>1. Export!OriginalSheet(groups) = A \cup B \cup C \cup D \cup E
    BY DEF Export!OriginalSheet, Export!LineCells, Export!RateCell, ExportOriginalBlocks, ExportOriginalCols,
           ExportOriginalLines, ExportOriginalLine, ExportOriginalTotal
  <1>2. ExportOriginalOwn(groups, blocks) = A \cup D \cup E
    BY DEF ExportOriginalOwn
  <1> HIDE DEF A, B, C, D, E
  <1>3. Export!OriginalSheet(groups) = (A \cup D \cup E) \cup B \cup C
    BY <1>1
  <1> QED BY <1>2, <1>3 DEF B, C

\* A cell of a line, by where it is.
LEMMA ExportLineAt ==
  ASSUME NEW groups, NEW header, NEW blocks, NEW end, ExportSheet(groups, header, blocks, end),
         NEW i \in DOMAIN groups, NEW k \in DOMAIN groups[i]
  PROVE  LET r == blocks[i] + k IN
         /\ r \in Int /\ r - blocks[i] = k /\ groups[i][k] \in DOMAIN lines
         /\ ExportPlace(groups, header, blocks, end, r) = "line" /\ ExportBlock(groups, blocks, r) = i
  <1>1. groups[i] \in Seq(DOMAIN lines)
    BY DEF ExportSheet, ExportParts
  <1>2. k \in 1 .. Len(groups[i]) /\ groups[i][k] \in DOMAIN lines /\ k \in Int
    BY <1>1
  <1>3. blocks[i] \in Int
    BY DEF ExportSheet, ExportBlocked
  <1>4. blocks[i] + k \in Int /\ (blocks[i] + k) - blocks[i] = k
    BY <1>2, <1>3
  <1> QED BY <1>2, <1>4, ExportPlaces

ExportOriginalAt(groups, blocks, end, c, r) ==
  LET place == ExportPlace(groups, 9, blocks, end, r)
      i == ExportBlock(groups, blocks, r)
  IN  IF place = "above" THEN Export!Num(2, 6, rate)
      ELSE IF place = "below" THEN ExportOriginalTotal(groups, blocks, c)
      ELSE IF c = 3 THEN Export!Num(3, r, lines[groups[i][r - blocks[i]]].amount)
      ELSE Export!Over(4, r, <<3, r>>, Export!RateCell)
ExportOriginalRank(groups, blocks, end) == ExportRank(groups, 9, blocks, end, {}, 4, 3)

\* Its own cells are outside the summary and the subtotals.
LEMMA ExportOriginalOwns ==
  ASSUME NEW groups, NEW blocks, NEW end, ExportSheet(groups, 9, blocks, end),
         Export!OriginalTotal(groups) \in Int, end =< Export!OriginalTotal(groups)
  PROVE  ExportOwn(groups, 9, blocks, end, ExportOriginalOwn(groups, blocks), ExportOriginalRank(groups, blocks, end))
  <1> DEFINE P(r) == ExportPlace(groups, 9, blocks, end, r)
             rank == ExportOriginalRank(groups, blocks, end)
             own == ExportOriginalOwn(groups, blocks)
             T == Export!OriginalTotal(groups)
             Sub(i) == Export!SubtotalRow(i, groups, blocks)
             Good(x) == /\ ExportOwnCell(groups, 9, blocks, end, x)
                        /\ x = ExportOriginalAt(groups, blocks, end, x.col, x.row)
                        /\ \A p \in ExportReads(x) : p \in Int \X Int /\ rank[p] < rank[<<x.col, x.row>>]
  <1>1. ASSUME NEW x, x = Export!Num(2, 6, rate) PROVE Good(x)
    <2>1. x.col = 2 /\ x.row = 6 /\ ExportCell(x) /\ ExportReads(x) = {}
      BY <1>1, ExportFields
    <2>2. P(6) = "above"
      BY ExportPlaces
    <2> QED BY <1>1, <2>1, <2>2 DEF ExportOwnCell, ExportOriginalAt
  <1>2. ASSUME NEW i \in DOMAIN groups, NEW k \in DOMAIN groups[i], NEW x \in ExportOriginalLine(groups[i][k], blocks[i] + k)
        PROVE  Good(x)
    <2> DEFINE j == groups[i][k]
               r == blocks[i] + k
    <2>1. r \in Int /\ r - blocks[i] = k /\ P(r) = "line" /\ ExportBlock(groups, blocks, r) = i
      BY ExportLineAt
    <2>2. x = Export!Num(3, r, lines[j].amount) \/ x = Export!Over(4, r, <<3, r>>, Export!RateCell)
      BY DEF ExportOriginalLine
    <2> HIDE DEF r, P
    <2>3. CASE x = Export!Num(3, r, lines[j].amount)
      <3>1. x.col = 3 /\ x.row = r /\ ExportCell(x) /\ ExportReads(x) = {}
        BY <2>3, ExportFields
      <3>2. x = ExportOriginalAt(groups, blocks, end, 3, r)
        BY <2>1, <2>3 DEF ExportOriginalAt, P
      <3> QED BY <2>1, <3>1, <3>2 DEF ExportOwnCell, P
    <2>4. CASE x = Export!Over(4, r, <<3, r>>, Export!RateCell)
      <3>1. x.col = 4 /\ x.row = r /\ ExportCell(x) /\ ExportReads(x) = {<<3, r>>, Export!RateCell}
        BY <2>4, ExportFields
      <3>2. x = ExportOriginalAt(groups, blocks, end, 4, r)
        BY <2>1, <2>4 DEF ExportOriginalAt, P
      <3>3. P(6) = "above"
        BY ExportPlaces DEF P
      <3>4. rank[<<3, r>>] = 0 /\ <<3, r>> \in Int \X Int /\ rank[<<4, r>>] = 1
        BY <2>1, ExportOwnRank DEF ExportOriginalRank, P
      <3>5. rank[<<2, 6>>] = 0 /\ <<2, 6>> \in Int \X Int
        BY <3>3, ExportOwnRank DEF ExportOriginalRank, P
      <3> HIDE DEF rank
      <3>6. \A p \in ExportReads(x) : p \in Int \X Int /\ rank[p] < rank[<<x.col, x.row>>]
        BY <3>1, <3>4, <3>5 DEF Export!RateCell
      <3> QED BY <2>1, <3>1, <3>2, <3>6 DEF ExportOwnCell, P
    <2> QED BY <2>2, <2>3, <2>4
  <1>3. ASSUME NEW c \in {3, 4}, NEW x, x = ExportOriginalTotal(groups, blocks, c) PROVE Good(x)
    <2> DEFINE cells == [i \in DOMAIN groups |-> <<c, Sub(i)>>]
    <2>1. x.col = c /\ x.row = T /\ ExportCell(x) /\ ExportReads(x) = {cells[i] : i \in DOMAIN cells}
      <3>1. x = Export!Plus(c, T, cells)
        BY <1>3 DEF ExportOriginalTotal
      <3> HIDE DEF cells, T
      <3> QED BY <3>1, ExportFields
    <2>2. P(T) = "below" /\ T \in Int
      BY ExportPlaces
    <2>3. x = ExportOriginalAt(groups, blocks, end, c, T)
      <3> HIDE DEF T
      <3> QED BY <1>3, <2>2 DEF ExportOriginalAt
    <2>4. rank[<<c, T>>] = 3
      <3> HIDE DEF T, P
      <3> QED BY <2>2, ExportOwnRank DEF ExportOriginalRank, P
    <2>5. ASSUME NEW p \in ExportReads(x) PROVE p \in Int \X Int /\ rank[p] = 2
      <3>1. PICK i \in DOMAIN groups : p = <<c, Sub(i)>>
        BY <2>1, <2>5
      <3>2. Sub(i) \in Int /\ P(Sub(i)) = "subtotal"
        BY ExportPlaces
      <3> HIDE DEF P, Sub
      <3> QED BY <3>1, <3>2, ExportOwnRank DEF ExportOriginalRank, P
    <2> HIDE DEF rank, T
    <2>6. \A p \in ExportReads(x) : p \in Int \X Int /\ rank[p] < rank[<<x.col, x.row>>]
      BY <2>1, <2>4, <2>5
    <2> QED BY <2>1, <2>2, <2>3, <2>6 DEF ExportOwnCell
  <1> HIDE DEF P, rank, T, Sub
  <1>4. \A x \in own : Good(x)
    <2> SUFFICES ASSUME NEW x \in own PROVE Good(x)
      OBVIOUS
    <2> HIDE DEF Good
    <2>1. CASE x \in {Export!Num(2, 6, rate)}
      BY <1>1, <2>1
    <2>2. CASE x \in ExportOriginalLines(groups, blocks)
      <3>1. PICK i \in DOMAIN groups : \E k \in DOMAIN groups[i] : x \in ExportOriginalLine(groups[i][k], blocks[i] + k)
        BY <2>2 DEF ExportOriginalLines
      <3> QED BY <1>2, <3>1
    <2>3. CASE x \in {ExportOriginalTotal(groups, blocks, c) : c \in ExportOriginalCols}
      <3>1. PICK c \in ExportOriginalCols : x = ExportOriginalTotal(groups, blocks, c)
        BY <2>3
      <3>2. c \in {3, 4}
        BY DEF ExportOriginalCols
      <3> QED BY <1>3, <3>1, <3>2
    <2> QED BY <2>1, <2>2, <2>3 DEF ExportOriginalOwn
  <1> HIDE DEF own
  <1>5. \A x, y \in own : x.col = y.col /\ x.row = y.row => x = y
    BY <1>4
  <1> QED BY <1>4, <1>5 DEF ExportOwn, rank, own

\* A sheet with the blocks below its summary.
LEMMA ExportSheetOf ==
  ASSUME NEW groups, ExportParts(groups), NEW header \in Int, NEW row \in Int, header + Len(groups) + 1 < row
  PROVE  /\ ExportSheet(groups, header, Export!Blocks(row, groups), Export!AfterBlocks(row, groups))
         /\ Export!AfterBlocks(row, groups) \in Int
  <1>1. ExportBlocked(groups, Export!Blocks(row, groups), row, Export!AfterBlocks(row, groups))
    BY ExportBlocks
  <1>2. Export!AfterBlocks(row, groups) \in Int
    BY <1>1 DEF ExportBlocked
  <1> QED BY <1>1, <1>2 DEF ExportSheet

\* The summary of a column is part of the summary.
LEMMA ExportSummaryPart ==
  ASSUME NEW header, NEW groups, NEW blocks, NEW cols, NEW c \in cols
  PROVE  Export!Summary(header, groups, blocks, {c}) \subseteq Export!Summary(header, groups, blocks, cols)
  <1> DEFINE RowCell(i, d) == Export!Plus(d, header + i, <<<<d, Export!SubtotalRow(i, groups, blocks)>>>>)
             TotalCell(d) == IF groups = <<>> THEN Export!Num(d, header + 1, 0)
                             ELSE Export!Sum(d, header + Len(groups) + 1, header + 1, header + Len(groups))
             Of(D) == {RowCell(i, d) : i \in DOMAIN groups, d \in D} \cup {TotalCell(d) : d \in D}
  <1>1. \A D : Export!Summary(header, groups, blocks, D) = Of(D)
    BY DEF Export!Summary
  <1> HIDE DEF RowCell, TotalCell
  <1>2. Of({c}) \subseteq Of(cols)
    <2> SUFFICES ASSUME NEW x \in Of({c}) PROVE x \in Of(cols)
      OBVIOUS
    <2>1. CASE x \in {RowCell(i, d) : i \in DOMAIN groups, d \in {c}}
      <3>1. PICK i \in DOMAIN groups : x = RowCell(i, c)
        BY <2>1
      <3> QED BY <3>1
    <2>2. CASE x \in {TotalCell(d) : d \in {c}}
      BY <2>2
    <2> QED BY <2>1, <2>2
  <1> HIDE DEF Of
  <1> QED BY <1>1, <1>2

\* What the lines amount to, and what that is at the estimated rate.
ExportAmounts == [j \in DOMAIN lines |-> lines[j].amount]
ExportEstimates == [j \in DOMAIN lines |-> lines[j].amount \div rate]
ExportPlannedSum == SumFunctionOnSet(ExportAmounts, DOMAIN lines)

\* Both come out even: the estimates of the lines add up to that of their sum.
LEMMA ExportAmountsAddUp ==
  ASSUME Export!ExportAssumption, lines \in Seq(ExportLine), rate \in Rates
  PROVE  /\ \A j \in DOMAIN lines : ExportAmounts[j] = lines[j].amount /\ ExportAmounts[j] \in Int
         /\ Export!Total([j \in DOMAIN lines |-> lines[j].amount]) = ExportPlannedSum
         /\ ExportPlannedSum \in Int /\ rate \in Nat
         /\ rate # 0 =>
              /\ \A j \in DOMAIN lines :
                   ExportEstimates[j] = lines[j].amount \div rate /\ ExportEstimates[j] \in Int
              /\ SumFunctionOnSet(ExportEstimates, DOMAIN lines) = ExportPlannedSum \div rate
  <1>1. /\ Prices \subseteq Int /\ Rates \subseteq Nat
        /\ \A n \in Rates \ {0} : \A a \in Prices : a % n = 0
    BY DEF Export!ExportAssumption
  <1>2. \A j \in DOMAIN lines : lines[j].amount \in Prices
    <2>1. \A j \in DOMAIN lines : lines[j] \in ExportLine
      OBVIOUS
    <2> QED BY <2>1 DEF ExportLine
  <1>3. \A j \in DOMAIN lines : ExportAmounts[j] = lines[j].amount /\ ExportAmounts[j] \in Int
    BY <1>1, <1>2 DEF ExportAmounts
  <1>4. IsFiniteSet(DOMAIN lines)
    <2>1. DOMAIN lines = 1 .. Len(lines) /\ Len(lines) \in Int /\ 1 \in Int
      OBVIOUS
    <2> QED BY <2>1, FS_Interval
  <1>5. Export!Total([j \in DOMAIN lines |-> lines[j].amount]) = ExportPlannedSum
    BY ExportTotal DEF ExportPlannedSum, ExportAmounts
  <1>6. ExportPlannedSum \in Int
    <2>1. \A j \in DOMAIN lines : ExportAmounts[j] \in Int
      BY <1>3
    <2> QED BY <1>4, <2>1, SumType DEF ExportPlannedSum
  <1>7. ASSUME rate # 0
        PROVE  /\ \A j \in DOMAIN lines :
                    ExportEstimates[j] = lines[j].amount \div rate /\ ExportEstimates[j] \in Int
               /\ SumFunctionOnSet(ExportEstimates, DOMAIN lines) = ExportPlannedSum \div rate
    <2>1. rate \in Nat \ {0} /\ rate \in Rates \ {0}
      BY <1>1, <1>7
    <2>2. \A j \in DOMAIN lines : ExportEstimates[j] = lines[j].amount \div rate
      BY DEF ExportEstimates
    <2>3. \A j \in DOMAIN lines :
            ExportAmounts[j] \in Int /\ ExportAmounts[j] % rate = 0 /\ ExportEstimates[j] = ExportAmounts[j] \div rate
      BY <1>1, <1>2, <1>3, <2>1, <2>2
    <2>4. \A j \in DOMAIN lines : ExportEstimates[j] \in Int
      BY <2>1, <2>3
    <2>5. SumFunctionOnSet(ExportEstimates, DOMAIN lines) = SumFunctionOnSet(ExportAmounts, DOMAIN lines) \div rate
      BY <1>4, <2>1, <2>3, SumDivided
    <2> QED BY <2>2, <2>4, <2>5 DEF ExportPlannedSum
  <1>8. rate \in Nat
    BY <1>1
  <1> QED BY <1>3, <1>5, <1>6, <1>7, <1>8

\* The original budget has every cell once, and its totals add up the lines.
LEMMA ExportOriginalAddsUp ==
  ASSUME Export!ExportAssumption, lines \in Seq(ExportLine), rate \in Rates,
         NEW groups, ExportParts(groups)
  PROVE  LET value == Export!OriginalValues(groups)
             W(c, r) == Export!Worth(value, <<c, r>>)
         IN  /\ \A x, y \in Export!OriginalSheet(groups) : <<x.col, x.row>> = <<y.col, y.row>> => x = y
             /\ W(3, Export!OriginalTotal(groups)) = ExportPlannedSum
             /\ W(3, Export!OriginalDetail(groups) - 2) = ExportPlannedSum
             /\ rate # 0 => /\ W(4, Export!OriginalTotal(groups)) = ExportPlannedSum \div rate
                            /\ W(4, Export!OriginalDetail(groups) - 2) = ExportPlannedSum \div rate
  <1> DEFINE sheet == Export!OriginalSheet(groups)
             value == Export!OriginalValues(groups)
             W(c, r) == Export!Worth(value, <<c, r>>)
             row == Export!OriginalDetail(groups)
             blocks == ExportOriginalBlocks(groups)
             end == ExportOriginalEnd(groups)
             own == ExportOriginalOwn(groups, blocks)
             cols == ExportOriginalCols
             T == Export!OriginalTotal(groups)
             Sub(i) == Export!SubtotalRow(i, groups, blocks)
  <1>1. ExportSheet(groups, 9, blocks, end) /\ row = 9 + Len(groups) + 3 /\ row \in Int /\ end \in Int
    <2>1. row = 9 + Len(groups) + 3
      BY DEF Export!OriginalDetail, Export!OriginalSummary
    <2>2. blocks = Export!Blocks(row, groups) /\ end = Export!AfterBlocks(row, groups) /\ 9 \in Int
      BY DEF ExportOriginalBlocks, ExportOriginalEnd
    <2> HIDE DEF row, blocks, end
    <2>3. row \in Int /\ 9 + Len(groups) + 1 < row
      BY <2>1 DEF ExportParts
    <2>4. /\ ExportSheet(groups, 9, Export!Blocks(row, groups), Export!AfterBlocks(row, groups))
          /\ Export!AfterBlocks(row, groups) \in Int
      BY <2>2, <2>3, ExportSheetOf
    <2> QED BY <2>1, <2>2, <2>3, <2>4
  <1>2. T = end + 2
    BY DEF Export!OriginalTotal, ExportOriginalEnd
  <1>3. sheet = own \cup Export!Summary(9, groups, blocks, cols) \cup Export!Subtotals(groups, blocks, cols)
    BY ExportOriginalCells DEF Export!OriginalSummary
  <1> HIDE DEF sheet, value, row, blocks, end, own, cols, T
  <1>4. ExportOwn(groups, 9, blocks, end, own, ExportRank(groups, 9, blocks, end, {}, 4, 3))
    BY <1>1, <1>2, ExportOriginalOwns DEF own, ExportOriginalRank, T
  <1>5. cols \in SUBSET Int /\ 3 \in cols /\ (rate # 0 => 4 \in cols)
    BY DEF cols, ExportOriginalCols
  <1> DEFINE rank == ExportRank(groups, 9, blocks, end, {}, 4, 3)
  <1>6. ExportRanked(sheet, rank, 5)
    BY <1>1, <1>3, <1>4, <1>5, ExportSheetRanked
  <1> HIDE DEF rank
  <1>7. ExportEvaluates(sheet, value, <<>>, <<>>)
    BY <1>6, ExportHasValues DEF value, sheet, Export!OriginalValues
  <1>8. ASSUME NEW c \in cols, NEW v, ExportColumn(groups, blocks, value, c, v)
        PROVE  W(c, T) = SumFunctionOnSet(v, DOMAIN lines) /\ W(c, row - 2) = SumFunctionOnSet(v, DOMAIN lines)
    <2>1. \E r : ExportBlocked(groups, blocks, r, end)
      BY <1>1 DEF ExportSheet
    <2>2. Export!Subtotals(groups, blocks, cols) \subseteq sheet /\ Export!Summary(9, groups, blocks, {c}) \subseteq sheet
      BY <1>3, ExportSummaryPart
    <2>3. /\ \A i \in DOMAIN groups : W(c, Sub(i)) = SumFunctionOnSet(v, ExportPart(groups, i))
          /\ W(c, 9 + Len(groups) + 1) = SumFunctionOnSet(v, DOMAIN lines)
      <3>1. \A i \in DOMAIN groups : blocks[i] \in Int
        BY <2>1 DEF ExportBlocked
      <3> DEFINE header == 9
                 list == <<>>
      <3>2. header \in Int
        OBVIOUS
      <3>3. Export!Summary(header, groups, blocks, {c}) \subseteq sheet
        BY <2>2
      <3>4. ExportEvaluates(sheet, value, list, list)
        BY <1>7
      <3>5. \E d : c \in d /\ Export!Subtotals(groups, blocks, d) \subseteq sheet
        BY <2>2
      <3> HIDE DEF header, list
      <3>6. ExportAdding(groups, blocks, header, sheet, value, list, list, c, v)
        BY <1>8, <3>1, <3>4, <3>5, <3>2, <3>3 DEF ExportAdding
      <3>7. ExportAdded(groups, blocks, header, value, c, v)
        BY <3>6, ExportColumnSums
      <3> QED BY <3>7 DEF header, ExportAdded
    <2>4. row - 2 = 9 + Len(groups) + 1
      BY <1>1 DEF ExportParts
    <2>5. W(c, T) = SumFunctionOnSet(v, DOMAIN lines)
      <3> DEFINE cells == [i \in DOMAIN groups |-> <<c, Sub(i)>>]
                 g == [i \in DOMAIN cells |-> Export!Worth(value, cells[i])]
      <3>1. Export!Plus(c, T, cells) \in sheet
        <4>1. ExportOriginalTotal(groups, blocks, c) \in own
          BY DEF own, ExportOriginalOwn, cols
        <4> QED BY <1>3, <4>1 DEF ExportOriginalTotal, T
      <3>2. DOMAIN cells = DOMAIN groups /\ \A i \in DOMAIN groups : g[i] = SumFunctionOnSet(v, ExportPart(groups, i))
        BY <2>3
      <3>3. W(c, T) = SumFunctionOnSet(g, DOMAIN cells)
        <4> HIDE DEF cells
        <4> QED BY <1>7, <3>1, ExportWorth
      <3>4. \A j \in DOMAIN lines : v[j] \in Int
        BY <1>8 DEF ExportColumn
      <3> HIDE DEF g, cells
      <3>5. SumFunctionOnSet(g, DOMAIN groups) = SumFunctionOnSet(v, DOMAIN lines)
        BY <3>2, <3>4, ExportAllSum
      <3> QED BY <3>2, <3>3, <3>5
    <2> QED BY <2>3, <2>4, <2>5
  <1>9. ASSUME NEW i \in DOMAIN groups, NEW k \in DOMAIN groups[i]
        PROVE  ExportOriginalLine(groups[i][k], blocks[i] + k) \subseteq sheet /\ groups[i][k] \in DOMAIN lines
    <2>1. ExportOriginalLine(groups[i][k], blocks[i] + k) \subseteq ExportOriginalLines(groups, blocks)
      BY DEF ExportOriginalLines
    <2>2. groups[i][k] \in DOMAIN lines
      BY <1>1, ExportLineAt
    <2> QED BY <1>3, <2>1, <2>2 DEF own, ExportOriginalOwn
  <1>10. ExportColumn(groups, blocks, value, 3, ExportAmounts)
    <2>1. ASSUME NEW i \in DOMAIN groups, NEW k \in DOMAIN groups[i]
          PROVE  W(3, blocks[i] + k) = ExportAmounts[groups[i][k]]
      <3> DEFINE r == blocks[i] + k
                 j == groups[i][k]
      <3>1. Export!Num(3, r, lines[j].amount) \in sheet /\ j \in DOMAIN lines
        BY <1>9 DEF ExportOriginalLine
      <3> HIDE DEF r, j
      <3>2. W(3, r) = lines[j].amount
        BY <1>7, <3>1, ExportWorth
      <3>3. W(3, r) = ExportAmounts[j]
        BY <3>1, <3>2, ExportAmountsAddUp
      <3> QED BY <3>3 DEF r, j
    <2> QED BY <2>1, ExportAmountsAddUp DEF ExportColumn
  <1>11. ASSUME rate # 0 PROVE ExportColumn(groups, blocks, value, 4, ExportEstimates)
    <2>1. ASSUME NEW i \in DOMAIN groups, NEW k \in DOMAIN groups[i]
          PROVE  W(4, blocks[i] + k) = ExportEstimates[groups[i][k]]
      <3> DEFINE r == blocks[i] + k
                 j == groups[i][k]
      <3>1. /\ Export!Num(3, r, lines[j].amount) \in sheet /\ j \in DOMAIN lines
            /\ Export!Over(4, r, <<3, r>>, <<2, 6>>) \in sheet
        BY <1>9, <1>11 DEF ExportOriginalLine, Export!RateCell
      <3>2. Export!Num(2, 6, rate) \in sheet
        BY <1>3 DEF own, ExportOriginalOwn
      <3> HIDE DEF r, j
      <3>3. W(3, r) = lines[j].amount /\ W(2, 6) = rate
        BY <1>7, <3>1, <3>2, ExportWorth
      <3>4. W(4, r) = W(3, r) \div W(2, 6)
        BY <1>7, <3>1, ExportWorth
      <3>5. W(4, r) = ExportEstimates[j]
        BY <1>11, <3>1, <3>3, <3>4, ExportAmountsAddUp
      <3> QED BY <3>5 DEF r, j
    <2> QED BY <1>11, <2>1, ExportAmountsAddUp DEF ExportColumn
  <1>12. \A x, y \in sheet : <<x.col, x.row>> = <<y.col, y.row>> => x = y
    BY <1>6 DEF ExportRanked
  <1>13. W(3, T) = ExportPlannedSum /\ W(3, row - 2) = ExportPlannedSum
    BY <1>5, <1>8, <1>10 DEF ExportPlannedSum
  <1>14. ASSUME rate # 0 PROVE W(4, T) = ExportPlannedSum \div rate /\ W(4, row - 2) = ExportPlannedSum \div rate
    <2>1. W(4, T) = SumFunctionOnSet(ExportEstimates, DOMAIN lines)
          /\ W(4, row - 2) = SumFunctionOnSet(ExportEstimates, DOMAIN lines)
      BY <1>5, <1>8, <1>11, <1>14
    <2> QED BY <1>14, <2>1, ExportAmountsAddUp
  <1> QED BY <1>12, <1>13, <1>14 DEF sheet, value, T, row

\* The dashboard: where its blocks are, and its own cells.
ExportDashboardRow(groups) == Export!DashboardTotal(groups) + 1
ExportDashboardBlocks(groups) == Export!Blocks(ExportDashboardRow(groups), groups)
ExportDashboardEnd(groups) == Export!AfterBlocks(ExportDashboardRow(groups), groups)
ExportDashboardCols == IF rate = 0 THEN {3, 4} ELSE 2 .. 6
ExportDashboardLine(j, r) ==
  {Export!Num(3, r, lines[j].amount), Export!SumIf(4, r, j, 5)}
  \cup UNION {{Export!Num(2, r, lines[j].amount \div rate), Export!SumIf(5, r, j, 6),
               Export!Minus(6, r, <<2, r>>, <<5, r>>)} : x \in IF rate = 0 THEN {} ELSE {rate}}
ExportDashboardLines(groups, blocks) ==
  UNION {UNION {ExportDashboardLine(groups[i][k], blocks[i] + k) : k \in DOMAIN groups[i]} : i \in DOMAIN groups}
ExportDashboardHead ==
  {Export!Num(2, 11, Export!Total(received)), Export!Num(2, 12, Export!Total(converted)),
   Export!Minus(2, 14, <<2, 11>>, <<2, 12>>)}
  \cup {Export!Num(2, 8, Export!Total([j \in DOMAIN lines |-> lines[j].amount]) \div rate)
          : x \in IF rate = 0 THEN {} ELSE {rate}}
ExportLedgerSum ==
  IF received = <<>> THEN Export!Num(3, Export!LedgerTotal, 0)
  ELSE Export!Sum(3, Export!LedgerTotal, 18, Export!LedgerTotal - 1)
ExportLedger ==
  {Export!Num(2, 17 + i, received[i]) : i \in DOMAIN received}
  \cup {Export!Num(3, 17 + Len(received) + i, converted[i]) : i \in DOMAIN converted}
  \cup {ExportLedgerSum}
ExportRefund(groups, end) ==
  Export!Minus(2, end + 4, <<2, 11>>, <<5, Export!DashboardTotal(groups)>>)
ExportDashboardOwn(groups, blocks, end) ==
  ExportDashboardHead \cup ExportLedger \cup {ExportRefund(groups, end)} \cup ExportDashboardLines(groups, blocks)

\* The sheet is these cells, a summary and subtotals.
LEMMA ExportDashboardCells ==
  ASSUME NEW groups
  PROVE  LET blocks == ExportDashboardBlocks(groups) IN
         Export!DashboardSheet(groups)
           = ExportDashboardOwn(groups, blocks, ExportDashboardEnd(groups))
             \cup Export!Summary(Export!DashboardSummary(groups), groups, blocks, 2 .. 6)
             \cup Export!Subtotals(groups, blocks, ExportDashboardCols)
  <1> DEFINE blocks == ExportDashboardBlocks(groups)
             end == ExportDashboardEnd(groups)
             a == Export!Num(2, 11, Export!Total(received))
             b == Export!Num(2, 12, Export!Total(converted))
             m == Export!Minus(2, 14, <<2, 11>>, <<2, 12>>)
             d == ExportRefund(groups, end)
             A == {Export!Num(2, 17 + i, received[i]) : i \in DOMAIN received}
             B == {Export!Num(3, 17 + Len(received) + i, converted[i]) : i \in DOMAIN converted}
             C == {ExportLedgerSum}
             D == {Export!Num(2, 8, Export!Total([j \in DOMAIN lines |-> lines[j].amount]) \div rate)
                     : x \in IF rate = 0 THEN {} ELSE {rate}}
             E == Export!Summary(Export!DashboardSummary(groups), groups, blocks, 2 .. 6)
             F == Export!Subtotals(groups, blocks, ExportDashboardCols)
             G == ExportDashboardLines(groups, blocks)
  <1>1. Export!DashboardSheet(groups) = {a, b, m, d} \cup A \cup B \cup C \cup D \cup E \cup F \cup G
    <2>1. /\ Export!RefundCell(groups)[1] = 2 /\ Export!RefundCell(groups)[2] = end + 4
          /\ Export!ReceivedCell = <<2, 11>> /\ Export!ConvertedCell = <<2, 12>>
          /\ blocks = Export!Blocks(Export!DashboardTotal(groups) + 1, groups)
      BY DEF Export!RefundCell, Export!ReceivedCell, Export!ConvertedCell, ExportDashboardEnd, ExportDashboardRow,
             ExportDashboardBlocks
    <2> HIDE DEF blocks, end
    <2> QED BY <2>1 DEF Export!DashboardSheet, Export!LineCells, ExportDashboardCols,
           ExportDashboardLines, ExportDashboardLine, ExportLedgerSum, ExportRefund
  <1>2. ExportDashboardOwn(groups, blocks, end) = ({a, b, m} \cup D) \cup (A \cup B \cup C) \cup {d} \cup G
    BY DEF ExportDashboardOwn, ExportDashboardHead, ExportLedger
  <1> HIDE DEF a, b, m, d, A, B, C, D, E, F, G
  <1>3. Export!DashboardSheet(groups) = (({a, b, m} \cup D) \cup (A \cup B \cup C) \cup {d} \cup G) \cup E \cup F
    BY <1>1
  <1> QED BY <1>2, <1>3 DEF E, F, blocks, end

\* A cell that holds a number, and one that subtracts.
ExportIs(x, c, r, reads) == x.col = c /\ x.row = r /\ ExportCell(x) /\ ExportReads(x) = reads

\* A number reads nothing.
LEMMA ExportNum ==
  ASSUME NEW c, NEW r, NEW n, NEW x, x = Export!Num(c, r, n)
  PROVE  ExportIs(x, c, r, {})
  BY ExportFields DEF ExportIs

\* A sum reads the cells of its column between two rows.
LEMMA ExportSumCell ==
  ASSUME NEW c, NEW r, NEW a, NEW b, NEW x, x = Export!Sum(c, r, a, b)
  PROVE  ExportIs(x, c, r, {<<c, q>> : q \in a .. b})
  BY ExportFields DEF ExportIs

\* A quotient reads both cells.
LEMMA ExportOver ==
  ASSUME NEW c, NEW r, NEW y, NEW z, NEW x, x = Export!Over(c, r, y, z)
  PROVE  ExportIs(x, c, r, {y, z})
  BY ExportFields DEF ExportIs

\* A difference reads both cells.
LEMMA ExportMinus ==
  ASSUME NEW c, NEW r, NEW y, NEW z, NEW x, x = Export!Minus(c, r, y, z)
  PROVE  ExportIs(x, c, r, {y, z})
  BY ExportFields DEF ExportIs

\* What was received, and what was converted of it.
ExportFunds ==
  received \in Seq(Int) /\ converted \in Seq(Int) /\ (received = <<>> => converted = <<>>)

\* The ledger takes a row for each, and the summary is below it.
LEMMA ExportLedgerRows ==
  ASSUME ExportFunds
  PROVE  /\ Export!LedgerTotal \in Int /\ Export!LedgerTotal = 18 + Len(received) + Len(converted)
         /\ Len(received) \in Nat /\ DOMAIN received = 1 .. Len(received)
         /\ Len(converted) \in Nat /\ DOMAIN converted = 1 .. Len(converted)
         /\ \A groups : Export!DashboardSummary(groups) = Export!LedgerTotal + 3
  BY DEF ExportFunds, Export!LedgerTotal, Export!DashboardSummary

\* The cell of the dashboard in a column and a row.
ExportDashboardAt(groups, blocks, end, c, r) ==
  LET place == ExportPlace(groups, Export!DashboardSummary(groups), blocks, end, r)
      i == ExportBlock(groups, blocks, r)
      j == groups[i][r - blocks[i]]
      n == Len(received)
  IN  IF place = "below" THEN ExportRefund(groups, end)
      ELSE IF place = "above"
      THEN IF r = 8 THEN Export!Num(2, 8, Export!Total([l \in DOMAIN lines |-> lines[l].amount]) \div rate)
           ELSE IF r = 11 THEN Export!Num(2, 11, Export!Total(received))
           ELSE IF r = 12 THEN Export!Num(2, 12, Export!Total(converted))
           ELSE IF r = 14 THEN Export!Minus(2, 14, <<2, 11>>, <<2, 12>>)
           ELSE IF r = Export!LedgerTotal THEN ExportLedgerSum
           ELSE IF c = 2 THEN Export!Num(2, r, received[r - 17]) ELSE Export!Num(3, r, converted[r - 17 - n])
      ELSE IF c = 2 THEN Export!Num(2, r, lines[j].amount \div rate)
      ELSE IF c = 3 THEN Export!Num(3, r, lines[j].amount)
      ELSE IF c = 4 THEN Export!SumIf(4, r, j, 5)
      ELSE IF c = 5 THEN Export!SumIf(5, r, j, 6)
      ELSE Export!Minus(6, r, <<2, r>>, <<5, r>>)
ExportDashboardRank(groups, blocks, end) ==
  ExportRank(groups, Export!DashboardSummary(groups), blocks, end, {14, Export!LedgerTotal}, 6, 5)
ExportDashboardGood(groups, blocks, end, x) ==
  /\ ExportOwnCell(groups, Export!DashboardSummary(groups), blocks, end, x)
  /\ x = ExportDashboardAt(groups, blocks, end, x.col, x.row)
  /\ \A p \in ExportReads(x) :
       p \in Int \X Int /\ ExportDashboardRank(groups, blocks, end)[p]
                             < ExportDashboardRank(groups, blocks, end)[<<x.col, x.row>>]

\* The rows above the summary.
LEMMA ExportAbove ==
  ASSUME ExportFunds, NEW groups, NEW blocks, NEW end,
         ExportSheet(groups, Export!DashboardSummary(groups), blocks, end),
         NEW c \in Int, NEW r \in Int, r =< Export!LedgerTotal
  PROVE  /\ ExportPlace(groups, Export!DashboardSummary(groups), blocks, end, r) = "above"
         /\ <<c, r>> \in Int \X Int
         /\ ExportDashboardRank(groups, blocks, end)[<<c, r>>] = IF r \in {14, Export!LedgerTotal} THEN 1 ELSE 0
  <1> DEFINE H == Export!DashboardSummary(groups)
  <1>1. r =< H
    BY ExportLedgerRows
  <1> HIDE DEF H
  <1>2. ExportPlace(groups, H, blocks, end, r) = "above"
    BY <1>1, ExportPlaces DEF H
  <1>3. /\ <<c, r>> \in Int \X Int
        /\ ExportDashboardRank(groups, blocks, end)[<<c, r>>] = IF r \in {14, Export!LedgerTotal} THEN 1 ELSE 0
    BY <1>2, ExportOwnRank DEF ExportDashboardRank, H
  <1> QED BY <1>2, <1>3 DEF H

\* The figures above the ledger.
LEMMA ExportDashboardHeads ==
  ASSUME ExportFunds, NEW groups, NEW blocks, NEW end,
         ExportSheet(groups, Export!DashboardSummary(groups), blocks, end),
         NEW x \in ExportDashboardHead
  PROVE  ExportDashboardGood(groups, blocks, end, x)
  <1> DEFINE H == Export!DashboardSummary(groups)
             P(r) == ExportPlace(groups, H, blocks, end, r)
             order == ExportDashboardRank(groups, blocks, end)
             L == Export!LedgerTotal
             estimate == Export!Total([l \in DOMAIN lines |-> lines[l].amount]) \div rate
  <1>1. L \in Int /\ 18 =< L
    BY ExportLedgerRows
  <1>2. \A r \in {8, 11, 12, 14} : /\ P(r) = "above" /\ <<2, r>> \in Int \X Int
                                   /\ order[<<2, r>>] = IF r = 14 THEN 1 ELSE 0
    <2> SUFFICES ASSUME NEW r \in {8, 11, 12, 14}
                 PROVE  P(r) = "above" /\ <<2, r>> \in Int \X Int /\ order[<<2, r>>] = IF r = 14 THEN 1 ELSE 0
      OBVIOUS
    <2>1. r \in Int /\ r =< L /\ r # L /\ 2 \in Int
      BY <1>1
    <2> QED BY <2>1, ExportAbove
  <1> HIDE DEF H, P, order, L, estimate
  <1>3. ASSUME NEW r \in {8, 11, 12}, NEW n, x = Export!Num(2, r, n), x = ExportDashboardAt(groups, blocks, end, 2, r)
        PROVE  ExportDashboardGood(groups, blocks, end, x)
    <2>1. x.col = 2 /\ x.row = r /\ ExportCell(x) /\ ExportReads(x) = {}
      BY <1>3, ExportFields
    <2> QED BY <1>2, <1>3, <2>1 DEF ExportDashboardGood, ExportOwnCell, P, H
  <1>4. CASE x = Export!Num(2, 11, Export!Total(received))
    <2>1. x = ExportDashboardAt(groups, blocks, end, 2, 11)
      BY <1>2, <1>4 DEF ExportDashboardAt, P, H
    <2> QED BY <1>3, <1>4, <2>1
  <1>5. CASE x = Export!Num(2, 12, Export!Total(converted))
    <2>1. x = ExportDashboardAt(groups, blocks, end, 2, 12)
      BY <1>2, <1>5 DEF ExportDashboardAt, P, H
    <2> QED BY <1>3, <1>5, <2>1
  <1>6. CASE x = Export!Num(2, 8, estimate)
    <2>1. x = ExportDashboardAt(groups, blocks, end, 2, 8)
      BY <1>2, <1>6 DEF ExportDashboardAt, P, H, estimate
    <2> QED BY <1>3, <1>6, <2>1
  <1>7. CASE x = Export!Minus(2, 14, <<2, 11>>, <<2, 12>>)
    <2>1. x = ExportDashboardAt(groups, blocks, end, 2, 14)
      BY <1>2, <1>7 DEF ExportDashboardAt, P, H
    <2>2. x.col = 2 /\ x.row = 14 /\ ExportCell(x) /\ ExportReads(x) = {<<2, 11>>, <<2, 12>>}
      BY <1>7, ExportFields
    <2>3. \A p \in ExportReads(x) : p \in Int \X Int /\ order[p] < order[<<x.col, x.row>>]
      BY <1>2, <2>2
    <2> QED BY <1>2, <2>1, <2>2, <2>3 DEF ExportDashboardGood, ExportOwnCell, P, H, order
  <1> QED BY <1>4, <1>5, <1>6, <1>7 DEF ExportDashboardHead, estimate

\* The rows of the ledger and their total.
LEMMA ExportLedgers ==
  ASSUME ExportFunds, NEW groups, NEW blocks, NEW end,
         ExportSheet(groups, Export!DashboardSummary(groups), blocks, end),
         NEW x \in ExportLedger
  PROVE  ExportDashboardGood(groups, blocks, end, x)
  <1> DEFINE H == Export!DashboardSummary(groups)
             P(r) == ExportPlace(groups, H, blocks, end, r)
             order == ExportDashboardRank(groups, blocks, end)
             L == Export!LedgerTotal
             n == Len(received)
             m == Len(converted)
  <1>1. L \in Int /\ L = 18 + n + m /\ n \in Nat /\ m \in Nat /\ DOMAIN received = 1 .. n /\ DOMAIN converted = 1 .. m
    BY ExportLedgerRows
  <1>2. \A c \in {2, 3} : \A r \in 18 .. L : /\ P(r) = "above" /\ <<c, r>> \in Int \X Int
                                            /\ order[<<c, r>>] = IF r = L THEN 1 ELSE 0
    <2> SUFFICES ASSUME NEW c \in {2, 3}, NEW r \in 18 .. L
                 PROVE  P(r) = "above" /\ <<c, r>> \in Int \X Int /\ order[<<c, r>>] = IF r = L THEN 1 ELSE 0
      OBVIOUS
    <2>1. r \in Int /\ r =< L /\ r # 14 /\ c \in Int
      BY <1>1
    <2> QED BY <2>1, ExportAbove
  <1> HIDE DEF H, P, order, L, n, m
  <1>3. ASSUME NEW c \in {2, 3}, NEW r \in 18 .. L, NEW a, x = Export!Num(c, r, a),
               x = ExportDashboardAt(groups, blocks, end, c, r)
        PROVE  ExportDashboardGood(groups, blocks, end, x)
    <2>1. x.col = c /\ x.row = r /\ ExportCell(x) /\ ExportReads(x) = {}
      <3>1. ExportIs(x, c, r, {})
        BY <1>3, ExportNum
      <3> QED BY <3>1 DEF ExportIs
    <2> QED BY <1>2, <1>3, <2>1 DEF ExportDashboardGood, ExportOwnCell, P, H
  <1>4. ASSUME NEW i \in DOMAIN received, x = Export!Num(2, 17 + i, received[i])
        PROVE  ExportDashboardGood(groups, blocks, end, x)
    <2> DEFINE r == 17 + i
    <2>1. r \in 18 .. L /\ r # L /\ r - 17 = i /\ r \notin {8, 11, 12, 14}
      BY <1>1
    <2> HIDE DEF r
    <2>2. P(r) = "above"
      BY <1>2, <2>1
    <2>3. x = Export!Num(2, r, received[i])
      BY <1>4 DEF r
    <2>4. x = ExportDashboardAt(groups, blocks, end, 2, r)
      BY <2>1, <2>2, <2>3 DEF ExportDashboardAt, P, H, L
    <2> QED BY <1>3, <2>1, <2>3, <2>4
  <1>5. ASSUME NEW i \in DOMAIN converted, x = Export!Num(3, 17 + Len(received) + i, converted[i])
        PROVE  ExportDashboardGood(groups, blocks, end, x)
    <2> DEFINE r == 17 + n + i
    <2>1. r \in 18 .. L /\ r # L /\ r - 17 - n = i /\ r \notin {8, 11, 12, 14}
      BY <1>1
    <2>2. x = Export!Num(3, r, converted[i])
      BY <1>5 DEF n
    <2> HIDE DEF r
    <2>3. P(r) = "above"
      BY <1>2, <2>1
    <2>4. x = ExportDashboardAt(groups, blocks, end, 3, r)
      BY <2>1, <2>2, <2>3 DEF ExportDashboardAt, P, H, L, n
    <2> QED BY <1>3, <2>1, <2>2, <2>4
  <1>6. CASE x = ExportLedgerSum
    <2>1. L \in 18 .. L /\ L \notin {8, 11, 12, 14}
      BY <1>1
    <2>2. P(L) = "above" /\ <<3, L>> \in Int \X Int /\ order[<<3, L>>] = 1
      BY <1>2, <2>1
    <2>3. x = ExportDashboardAt(groups, blocks, end, 3, L)
      BY <1>6, <2>1, <2>2 DEF ExportDashboardAt, P, H, L
    <2>4. CASE received = <<>>
      <3>1. x = Export!Num(3, L, 0)
        BY <1>6, <2>4 DEF ExportLedgerSum, L
      <3> QED BY <1>3, <2>1, <2>3, <3>1
    <2>5. CASE received # <<>>
      <3> DEFINE last == L - 1
      <3>1. x = Export!Sum(3, L, 18, last)
        BY <1>6, <2>5 DEF ExportLedgerSum, L
      <3>2. 18 .. last \subseteq 18 .. L /\ \A q \in 18 .. last : q # L
        BY <1>1
      <3> HIDE DEF last
      <3>3. x.col = 3 /\ x.row = L /\ ExportCell(x) /\ ExportReads(x) = {<<3, q>> : q \in 18 .. last}
        BY <3>1, ExportFields
      <3>4. ASSUME NEW p \in ExportReads(x) PROVE p \in Int \X Int /\ order[p] = 0
        <4>1. PICK q \in 18 .. last : p = <<3, q>>
          BY <3>3, <3>4
        <4>2. q \in 18 .. L /\ q # L
          BY <3>2
        <4> QED BY <1>2, <4>1, <4>2
      <3>5. \A p \in ExportReads(x) : p \in Int \X Int /\ order[p] < order[<<x.col, x.row>>]
        BY <2>2, <3>3, <3>4
      <3>6. ExportOwnCell(groups, H, blocks, end, x)
        BY <1>1, <2>2, <3>3 DEF ExportOwnCell, P
      <3>7. x = ExportDashboardAt(groups, blocks, end, x.col, x.row)
        BY <2>3, <3>3
      <3> QED BY <3>5, <3>6, <3>7 DEF ExportDashboardGood, order, H
    <2> QED BY <2>4, <2>5
  <1> QED BY <1>4, <1>5, <1>6 DEF ExportLedger

\* What is to be refunded.
LEMMA ExportRefunds ==
  ASSUME ExportFunds, NEW groups, NEW blocks, NEW end, end \in Int,
         ExportSheet(groups, Export!DashboardSummary(groups), blocks, end),
         NEW x, x = ExportRefund(groups, end)
  PROVE  ExportDashboardGood(groups, blocks, end, x)
  <1> DEFINE H == Export!DashboardSummary(groups)
             P(r) == ExportPlace(groups, H, blocks, end, r)
             order == ExportDashboardRank(groups, blocks, end)
             T == Export!DashboardTotal(groups)
             r == end + 4
  <1>1. T \in Int /\ P(T) = "total"
    <2>1. T = H + Len(groups) + 1
      BY DEF Export!DashboardTotal
    <2> HIDE DEF T, H, P
    <2>2. H + Len(groups) + 1 \in Int /\ P(H + Len(groups) + 1) = "total"
      BY ExportPlaces DEF P, H
    <2> QED BY <2>1, <2>2
  <1>2. r \in Int /\ P(r) = "below"
    <2>1. r \in Int /\ end =< r
      OBVIOUS
    <2> HIDE DEF r, H
    <2> QED BY <2>1, ExportPlaces DEF H
  <1>3. <<2, 11>> \in Int \X Int /\ order[<<2, 11>>] = 0
    <2>1. 11 \in Int /\ 2 \in Int /\ 11 =< Export!LedgerTotal /\ 11 \notin {14, Export!LedgerTotal}
      BY ExportLedgerRows
    <2> HIDE DEF order
    <2> QED BY <2>1, ExportAbove DEF order
  <1> HIDE DEF H, P, order, T, r
  <1>4. <<5, T>> \in Int \X Int /\ order[<<5, T>>] = 4 /\ order[<<2, r>>] = 5
    BY <1>1, <1>2, ExportOwnRank DEF order, P, H, ExportDashboardRank
  <1>5. x = Export!Minus(2, r, <<2, 11>>, <<5, T>>)
    BY DEF ExportRefund, T, r
  <1>6. x.col = 2 /\ x.row = r /\ ExportCell(x) /\ ExportReads(x) = {<<2, 11>>, <<5, T>>}
    BY <1>5, ExportMinus DEF ExportIs
  <1>7. x = ExportDashboardAt(groups, blocks, end, 2, r)
    BY <1>2 DEF ExportDashboardAt, P, H
  <1>8. \A p \in ExportReads(x) : p \in Int \X Int /\ order[p] < order[<<x.col, x.row>>]
    BY <1>3, <1>4, <1>6
  <1>9. ExportOwnCell(groups, H, blocks, end, x)
    BY <1>2, <1>6 DEF ExportOwnCell, P
  <1> QED BY <1>6, <1>7, <1>8, <1>9 DEF ExportDashboardGood, order, H

\* The cells of a line.
LEMMA ExportDashboardLineCells ==
  ASSUME NEW groups, NEW blocks, NEW end,
         ExportSheet(groups, Export!DashboardSummary(groups), blocks, end),
         NEW i \in DOMAIN groups, NEW k \in DOMAIN groups[i],
         NEW x \in ExportDashboardLine(groups[i][k], blocks[i] + k)
  PROVE  ExportDashboardGood(groups, blocks, end, x)
  <1> DEFINE H == Export!DashboardSummary(groups)
             P(q) == ExportPlace(groups, H, blocks, end, q)
             order == ExportDashboardRank(groups, blocks, end)
             j == groups[i][k]
             r == blocks[i] + k
  <1>1. r \in Int /\ r - blocks[i] = k /\ P(r) = "line" /\ ExportBlock(groups, blocks, r) = i
    <2> HIDE DEF H
    <2> QED BY ExportLineAt DEF H
  <1>2. \/ x = Export!Num(2, r, lines[j].amount \div rate)
        \/ x = Export!Num(3, r, lines[j].amount)
        \/ x = Export!SumIf(4, r, j, 5)
        \/ x = Export!SumIf(5, r, j, 6)
        \/ x = Export!Minus(6, r, <<2, r>>, <<5, r>>)
    BY DEF ExportDashboardLine
  <1> HIDE DEF r, P, H, order
  <1>3. ASSUME NEW c \in Int PROVE <<c, r>> \in Int \X Int /\ order[<<c, r>>] = IF c = 6 THEN 1 ELSE 0
    <2> DEFINE upper == {14, Export!LedgerTotal}
    <2>1. "line" = ExportPlace(groups, H, blocks, end, r)
      BY <1>1 DEF P
    <2> HIDE DEF upper
    <2>2. /\ <<c, r>> \in Int \X Int
          /\ ExportRank(groups, H, blocks, end, upper, 6, 5)[<<c, r>>] = IF c = 6 THEN 1 ELSE 0
      <3> DEFINE place == ExportPlace(groups, H, blocks, end, r)
                 rank == ExportRank(groups, H, blocks, end, upper, 6, 5)[<<c, r>>]
      <3>1. r \in Int /\ place = "line"
        BY <1>1, <2>1
      <3>2. place = ExportPlace(groups, H, blocks, end, r)
        OBVIOUS
      <3> HIDE DEF place
      <3>3. <<c, r>> \in Int \X Int /\ (place = "line" => rank = IF c = 6 THEN 1 ELSE 0)
        BY <3>1, <3>2, ExportOwnRank
      <3> HIDE DEF rank
      <3>4. rank = IF c = 6 THEN 1 ELSE 0
        BY <3>1, <3>3
      <3> QED BY <3>3, <3>4 DEF rank
    <2> QED BY <2>2 DEF order, ExportDashboardRank, H, upper
  <1>4. ASSUME NEW c \in 2 .. 6, x.col = c, x.row = r, ExportCell(x), ExportReads(x) = {},
               x = ExportDashboardAt(groups, blocks, end, c, r)
        PROVE  ExportDashboardGood(groups, blocks, end, x)
    BY <1>1, <1>4 DEF ExportDashboardGood, ExportOwnCell, P, H
  <1>5. CASE x = Export!Num(2, r, lines[j].amount \div rate)
    <2>1. x.col = 2 /\ x.row = r /\ ExportCell(x) /\ ExportReads(x) = {}
      <3> DEFINE a == lines[j].amount \div rate
      <3>1. x = Export!Num(2, r, a)
        BY <1>5
      <3> HIDE DEF a
      <3> QED BY <3>1, ExportFields
    <2>2. x = ExportDashboardAt(groups, blocks, end, 2, r)
      BY <1>1, <1>5 DEF ExportDashboardAt, P, H
    <2> QED BY <1>4, <2>1, <2>2
  <1>6. CASE x = Export!Num(3, r, lines[j].amount)
    <2>1. x.col = 3 /\ x.row = r /\ ExportCell(x) /\ ExportReads(x) = {}
      BY <1>6, ExportFields
    <2>2. x = ExportDashboardAt(groups, blocks, end, 3, r)
      BY <1>1, <1>6 DEF ExportDashboardAt, P, H
    <2> QED BY <1>4, <2>1, <2>2
  <1>7. CASE x = Export!SumIf(4, r, j, 5)
    <2>1. x.col = 4 /\ x.row = r /\ ExportCell(x) /\ ExportReads(x) = {}
      BY <1>7, ExportFields
    <2>2. x = ExportDashboardAt(groups, blocks, end, 4, r)
      BY <1>1, <1>7 DEF ExportDashboardAt, P, H
    <2> QED BY <1>4, <2>1, <2>2
  <1>8. CASE x = Export!SumIf(5, r, j, 6)
    <2>1. x.col = 5 /\ x.row = r /\ ExportCell(x) /\ ExportReads(x) = {}
      BY <1>8, ExportFields
    <2>2. x = ExportDashboardAt(groups, blocks, end, 5, r)
      BY <1>1, <1>8 DEF ExportDashboardAt, P, H
    <2> QED BY <1>4, <2>1, <2>2
  <1>9. CASE x = Export!Minus(6, r, <<2, r>>, <<5, r>>)
    <2>1. x.col = 6 /\ x.row = r /\ ExportCell(x) /\ ExportReads(x) = {<<2, r>>, <<5, r>>}
      BY <1>9, ExportMinus DEF ExportIs
    <2>2. x = ExportDashboardAt(groups, blocks, end, 6, r)
      BY <1>1, <1>9 DEF ExportDashboardAt, P, H
    <2>3. \A p \in ExportReads(x) : p \in Int \X Int /\ order[p] < order[<<x.col, x.row>>]
      BY <1>3, <2>1
    <2> QED BY <1>1, <2>1, <2>2, <2>3 DEF ExportDashboardGood, ExportOwnCell, P, H, order
  <1> QED BY <1>2, <1>5, <1>6, <1>7, <1>8, <1>9

\* All of them are outside the summary and the subtotals.
LEMMA ExportDashboardOwns ==
  ASSUME ExportFunds, NEW groups, NEW blocks, NEW end \in Int,
         ExportSheet(groups, Export!DashboardSummary(groups), blocks, end)
  PROVE  ExportOwn(groups, Export!DashboardSummary(groups), blocks, end, ExportDashboardOwn(groups, blocks, end),
                   ExportDashboardRank(groups, blocks, end))
  <1> DEFINE own == ExportDashboardOwn(groups, blocks, end)
  <1>1. \A x \in own : ExportDashboardGood(groups, blocks, end, x)
    <2> SUFFICES ASSUME NEW x \in own PROVE ExportDashboardGood(groups, blocks, end, x)
      OBVIOUS
    <2>1. CASE x \in ExportDashboardHead
      BY <2>1, ExportDashboardHeads
    <2>2. CASE x \in ExportLedger
      BY <2>2, ExportLedgers
    <2>3. CASE x = ExportRefund(groups, end)
      BY <2>3, ExportRefunds
    <2>4. CASE x \in ExportDashboardLines(groups, blocks)
      <3>1. PICK i \in DOMAIN groups : \E k \in DOMAIN groups[i] : x \in ExportDashboardLine(groups[i][k], blocks[i] + k)
        BY <2>4 DEF ExportDashboardLines
      <3>2. PICK k \in DOMAIN groups[i] : x \in ExportDashboardLine(groups[i][k], blocks[i] + k)
        BY <3>1
      <3> QED BY <3>2, ExportDashboardLineCells
    <2> QED BY <2>1, <2>2, <2>3, <2>4 DEF ExportDashboardOwn
  <1> HIDE DEF own
  <1>2. \A x, y \in own : x.col = y.col /\ x.row = y.row => x = y
    BY <1>1 DEF ExportDashboardGood
  <1> QED BY <1>1, <1>2 DEF ExportDashboardGood, ExportOwn, own

\* Where the parts of the dashboard are.
LEMMA ExportDashboardPlaces ==
  ASSUME ExportFunds, NEW groups, ExportParts(groups)
  PROVE  LET H == Export!DashboardSummary(groups)
             blocks == ExportDashboardBlocks(groups)
             end == ExportDashboardEnd(groups)
         IN  /\ H \in Int /\ H = Export!LedgerTotal + 3 /\ Export!DashboardTotal(groups) = H + Len(groups) + 1
             /\ ExportSheet(groups, H, blocks, end) /\ end \in Int
             /\ \A i \in DOMAIN groups : blocks[i] \in Int
  <1> DEFINE H == Export!DashboardSummary(groups)
             row == ExportDashboardRow(groups)
             blocks == ExportDashboardBlocks(groups)
             end == ExportDashboardEnd(groups)
  <1>1. H \in Int /\ H = Export!LedgerTotal + 3
    BY ExportLedgerRows
  <1>2. Export!DashboardTotal(groups) = H + Len(groups) + 1
    BY DEF Export!DashboardTotal
  <1>3. row \in Int /\ H + Len(groups) + 1 < row
    <2>1. row = H + Len(groups) + 1 + 1 /\ Len(groups) \in Nat
      BY <1>2 DEF ExportDashboardRow, ExportParts
    <2> HIDE DEF H, row
    <2> QED BY <1>1, <2>1
  <1>4. blocks = Export!Blocks(row, groups) /\ end = Export!AfterBlocks(row, groups)
    BY DEF ExportDashboardBlocks, ExportDashboardEnd
  <1> HIDE DEF H, row, blocks, end
  <1>5. ExportSheet(groups, H, blocks, end) /\ end \in Int
    BY <1>1, <1>3, <1>4, ExportSheetOf
  <1>6. \A i \in DOMAIN groups : blocks[i] \in Int
    BY <1>5 DEF ExportSheet, ExportBlocked
  <1> QED BY <1>1, <1>2, <1>5, <1>6 DEF H, blocks, end

\* It has every cell once, and these have values.
LEMMA ExportDashboardEvaluates ==
  ASSUME ExportFunds, NEW groups, ExportParts(groups), NEW list, NEW amounts
  PROVE  LET sheet == Export!DashboardSheet(groups) IN
         /\ \A x, y \in sheet : <<x.col, x.row>> = <<y.col, y.row>> => x = y
         /\ ExportEvaluates(sheet, Export!Values(Export!Indexed(sheet), list, amounts), list, amounts)
  <1> DEFINE sheet == Export!DashboardSheet(groups)
             H == Export!DashboardSummary(groups)
             blocks == ExportDashboardBlocks(groups)
             end == ExportDashboardEnd(groups)
             own == ExportDashboardOwn(groups, blocks, end)
             cols == 2 .. 6
             subs == ExportDashboardCols
             upper == {14, Export!LedgerTotal}
             rank == ExportRank(groups, H, blocks, end, upper, 6, 5)
  <1>1. ExportSheet(groups, H, blocks, end) /\ end \in Int
    BY ExportDashboardPlaces
  <1>2. sheet = own \cup Export!Summary(H, groups, blocks, cols) \cup Export!Subtotals(groups, blocks, subs)
    BY ExportDashboardCells
  <1>3. cols \in SUBSET Int /\ subs \in SUBSET Int
    BY DEF ExportDashboardCols
  <1> HIDE DEF sheet, H, blocks, end, cols, subs
  <1>4. ExportOwn(groups, H, blocks, end, own, rank)
    BY <1>1, ExportDashboardOwns DEF ExportDashboardRank, H
  <1> HIDE DEF own, upper
  <1>5. ExportRanked(sheet, rank, 5)
    BY <1>1, <1>2, <1>3, <1>4, ExportSheetRanked
  <1> HIDE DEF rank
  <1>6. ExportEvaluates(sheet, Export!Values(Export!Indexed(sheet), list, amounts), list, amounts)
    BY <1>5, ExportHasValues
  <1>7. \A x, y \in sheet : <<x.col, x.row>> = <<y.col, y.row>> => x = y
    BY <1>5 DEF ExportRanked
  <1> QED BY <1>6, <1>7 DEF sheet

\* Its total of a column is that of the lines.
LEMMA ExportDashboardColumn ==
  ASSUME ExportFunds, lines \in Seq(ExportLine), NEW groups, ExportParts(groups),
         NEW list, NEW amounts, NEW value, NEW sheet, sheet = Export!DashboardSheet(groups),
         ExportEvaluates(sheet, value, list, amounts),
         NEW c \in ExportDashboardCols, NEW v, ExportColumn(groups, ExportDashboardBlocks(groups), value, c, v)
  PROVE  Export!Worth(value, <<c, Export!DashboardTotal(groups)>>) = SumFunctionOnSet(v, DOMAIN lines)
  <1> DEFINE H == Export!DashboardSummary(groups)
             blocks == ExportDashboardBlocks(groups)
             end == ExportDashboardEnd(groups)
             cols == 2 .. 6
             T == Export!DashboardTotal(groups)
  <1>1. H \in Int /\ T = H + Len(groups) + 1 /\ \A i \in DOMAIN groups : blocks[i] \in Int
    BY ExportDashboardPlaces
  <1>2. c \in cols
    BY DEF ExportDashboardCols
  <1>3. /\ Export!Summary(H, groups, blocks, cols) \subseteq sheet
        /\ Export!Subtotals(groups, blocks, ExportDashboardCols) \subseteq sheet
    BY ExportDashboardCells
  <1> HIDE DEF H, blocks, end, cols, T
  <1>4. Export!Summary(H, groups, blocks, {c}) \subseteq sheet
    BY <1>2, <1>3, ExportSummaryPart
  <1>5. ExportColumn(groups, blocks, value, c, v)
    BY DEF blocks
  <1>6. \E d : c \in d /\ Export!Subtotals(groups, blocks, d) \subseteq sheet
    BY <1>3
  <1>7. ExportAdding(groups, blocks, H, sheet, value, list, amounts, c, v)
    BY <1>1, <1>4, <1>5, <1>6 DEF ExportAdding
  <1>8. ExportAdded(groups, blocks, H, value, c, v)
    BY <1>7, ExportColumnSums
  <1> QED BY <1>1, <1>8 DEF ExportAdded, T

\* Beside what was received nothing is converted: there the column of the ledger is empty.
LEMMA ExportLedgerGap ==
  ASSUME ExportFunds, NEW groups, ExportParts(groups),
         NEW x \in Export!DashboardSheet(groups), x.col = 3, NEW q \in 18 .. 17 + Len(received), x.row = q
  PROVE  FALSE
  <1> DEFINE H == Export!DashboardSummary(groups)
             blocks == ExportDashboardBlocks(groups)
             end == ExportDashboardEnd(groups)
             P(r) == ExportPlace(groups, H, blocks, end, r)
             L == Export!LedgerTotal
             n == Len(received)
  <1>1. /\ L \in Int /\ L = 18 + n + Len(converted) /\ n \in Nat
        /\ DOMAIN received = 1 .. n /\ Len(converted) \in Nat /\ DOMAIN converted = 1 .. Len(converted)
    BY ExportLedgerRows
  <1>2. q \in Int /\ q # L /\ q =< L
    BY <1>1
  <1>3. ExportSheet(groups, H, blocks, end) /\ end \in Int
    BY ExportDashboardPlaces
  <1>4. P(q) = "above"
    <2>1. q =< H
      <3>1. H = L + 3
        BY ExportLedgerRows
      <3> HIDE DEF H, L
      <3> QED BY <1>1, <1>2, <3>1
    <2> HIDE DEF H
    <2> QED BY <1>2, <1>3, <2>1, ExportPlaces
  <1>5. \/ x \in ExportDashboardOwn(groups, blocks, end)
        \/ x \in Export!Summary(H, groups, blocks, 2 .. 6)
        \/ x \in Export!Subtotals(groups, blocks, ExportDashboardCols)
    BY ExportDashboardCells
  <1> HIDE DEF H, blocks, end, P, L, n
  <1>6. CASE x \in Export!Summary(H, groups, blocks, 2 .. 6)
    <2> DEFINE cols == 2 .. 6
    <2>1. cols \in SUBSET Int /\ x \in Export!Summary(H, groups, blocks, cols)
      BY <1>6
    <2> HIDE DEF cols
    <2>2. \/ ExportSharedCell(groups, H, blocks, end, x, "row", "subtotal")
          \/ ExportSharedCell(groups, H, blocks, end, x, "total", "row")
      BY <1>3, <2>1, ExportSummaryCells
    <2> QED BY <1>4, <2>2 DEF ExportSharedCell, P
  <1>7. CASE x \in Export!Subtotals(groups, blocks, ExportDashboardCols)
    <2>1. ExportDashboardCols \in SUBSET Int
      BY DEF ExportDashboardCols
    <2>2. ExportSharedCell(groups, H, blocks, end, x, "subtotal", "line")
      BY <1>3, <1>7, <2>1, ExportSubtotalCells
    <2> QED BY <1>4, <2>2 DEF ExportSharedCell, P
  <1>8. CASE x \in ExportDashboardOwn(groups, blocks, end)
    <2>1. CASE x \in ExportDashboardHead
      <3>1. PICK r \in {8, 11, 12, 14} : \E a : x = Export!Num(2, r, a) \/ x = Export!Minus(2, r, <<2, 11>>, <<2, 12>>)
        BY <2>1 DEF ExportDashboardHead
      <3>2. PICK a : x = Export!Num(2, r, a) \/ x = Export!Minus(2, r, <<2, 11>>, <<2, 12>>)
        BY <3>1
      <3>3. x.col = 2
        BY <3>2 DEF Export!Num, Export!Minus, Export!Cell
      <3> QED BY <3>3
    <2>2. CASE \E i \in DOMAIN received : x = Export!Num(2, 17 + i, received[i])
      <3>1. PICK i \in DOMAIN received : x = Export!Num(2, 17 + i, received[i])
        BY <2>2
      <3> DEFINE r == 17 + i
      <3>2. x = Export!Num(2, r, received[i])
        BY <3>1
      <3> HIDE DEF r
      <3>3. x.col = 2
        BY <3>2, ExportFields
      <3> QED BY <3>3
    <2>3. CASE \E i \in DOMAIN converted : x = Export!Num(3, 17 + Len(received) + i, converted[i])
      <3>1. PICK i \in DOMAIN converted : x = Export!Num(3, 17 + Len(received) + i, converted[i])
        BY <2>3
      <3> DEFINE r == 17 + n + i
      <3>2. x = Export!Num(3, r, converted[i])
        BY <3>1 DEF n
      <3>3. r > 17 + n
        BY <1>1
      <3> HIDE DEF r
      <3>4. x.row = r
        BY <3>2, ExportFields
      <3> QED BY <1>1, <3>3, <3>4 DEF n
    <2>4. CASE x = ExportLedgerSum
      <3>1. PICK a : \/ x = Export!Num(3, L, a)
                     \/ x = Export!Sum(3, L, 18, a)
        BY <2>4 DEF ExportLedgerSum, L
      <3>2. x.row = L
        BY <3>1 DEF Export!Num, Export!Sum, Export!Cell
      <3> QED BY <1>2, <3>2
    <2>5. CASE x = ExportRefund(groups, end)
      <3> DEFINE r == end + 4
      <3>1. x = Export!Minus(2, r, <<2, 11>>, <<5, Export!DashboardTotal(groups)>>)
        BY <2>5 DEF ExportRefund
      <3> HIDE DEF r
      <3>2. x.col = 2
        BY <3>1 DEF Export!Minus, Export!Cell
      <3> QED BY <3>2
    <2>6. CASE x \in ExportDashboardLines(groups, blocks)
      <3>1. PICK i \in DOMAIN groups : \E k \in DOMAIN groups[i] : x \in ExportDashboardLine(groups[i][k], blocks[i] + k)
        BY <2>6 DEF ExportDashboardLines
      <3>2. PICK k \in DOMAIN groups[i] : x \in ExportDashboardLine(groups[i][k], blocks[i] + k)
        BY <3>1
      <3> DEFINE r == blocks[i] + k
      <3>3. P(r) = "line"
        BY <1>3, ExportLineAt DEF P
      <3>4. PICK c, a, y : \/ x = Export!Num(c, r, a)
                           \/ x = Export!SumIf(c, r, y, a)
                           \/ x = Export!Minus(c, r, y, a)
        BY <3>2 DEF ExportDashboardLine
      <3> HIDE DEF r
      <3>5. x.row = r
        BY <3>4 DEF Export!Num, Export!SumIf, Export!Minus, Export!Cell
      <3> QED BY <1>4, <3>3, <3>5
    <2> QED BY <1>8, <2>1, <2>2, <2>3, <2>4, <2>5, <2>6 DEF ExportDashboardOwn, ExportLedger
  <1> QED BY <1>5, <1>6, <1>7, <1>8

\* What the ledger converts adds up to what was converted.
LEMMA ExportLedgerAddsUp ==
  ASSUME ExportFunds, NEW groups, ExportParts(groups),
         NEW list, NEW amounts, NEW value, NEW sheet, sheet = Export!DashboardSheet(groups),
         ExportEvaluates(sheet, value, list, amounts)
  PROVE  Export!Worth(value, <<3, Export!LedgerTotal>>) = Export!Total(converted)
  <1> DEFINE W(c, r) == Export!Worth(value, <<c, r>>)
             L == Export!LedgerTotal
             n == Len(received)
             m == Len(converted)
             all == Export!Total(converted)
  <1>1. /\ L \in Int /\ L = 18 + n + m /\ n \in Nat /\ m \in Nat
        /\ DOMAIN received = 1 .. n /\ DOMAIN converted = 1 .. m
        /\ received = <<>> => converted = <<>>
    BY ExportLedgerRows DEF ExportFunds
  <1>2. all = SumFunctionOnSet(converted, 1 .. m)
    BY <1>1, ExportTotal
  <1>3. ExportDashboardHead \cup ExportLedger \subseteq sheet
    BY ExportDashboardCells DEF ExportDashboardOwn
  <1>4. \A i \in 1 .. m : converted[i] \in Int
    BY <1>1 DEF ExportFunds
  <1>5. ExportLedgerSum \in sheet
    BY <1>3 DEF ExportLedger
  <1>6. CASE received = <<>>
    <2>1. Export!Num(3, L, 0) \in sheet
      BY <1>5, <1>6 DEF ExportLedgerSum
    <2> HIDE DEF L
    <2>2. W(3, L) = 0
      BY <2>1, ExportWorth
    <2>3. m = 0 /\ 1 .. m = {}
      BY <1>1, <1>6
    <2>4. all = 0
      <3> HIDE DEF all
      <3> QED BY <1>2, <2>3, SumEmpty
    <2> QED BY <2>2, <2>4 DEF L
  <1>7. CASE received # <<>>
    <2> DEFINE first == 18
               last == L - 1
               S == 18 .. 17 + n
               T == 18 + n .. L - 1
               w == [q \in first .. last |-> W(3, q)]
               h == [q \in T |-> q - 17 - n]
    <2>1. Export!Sum(3, L, first, last) \in sheet
      BY <1>5, <1>7 DEF ExportLedgerSum
    <2>2. /\ first .. last = S \cup T /\ S \cap T = {} /\ IsFiniteSet(S) /\ IsFiniteSet(T) /\ IsFiniteSet(1 .. m)
      <3>1. 18 \in Int /\ 17 + n \in Int /\ 18 + n \in Int /\ L - 1 \in Int /\ 1 \in Int /\ m \in Int
        BY <1>1
      <3>2. first .. last = S \cup T /\ S \cap T = {}
        BY <1>1
      <3> QED BY <3>1, <3>2, FS_Interval
    <2>3. ASSUME NEW q \in S PROVE w[q] = 0
      <3>1. \A x \in sheet : <<x.col, x.row>> # <<3, q>>
        <4> SUFFICES ASSUME NEW x \in sheet, <<x.col, x.row>> = <<3, q>> PROVE FALSE
          OBVIOUS
        <4>1. x.col = 3 /\ x.row = q
          OBVIOUS
        <4> HIDE DEF L
        <4> QED BY <4>1, ExportLedgerGap
      <3>2. W(3, q) = 0
        BY <3>1 DEF ExportEvaluates
      <3>3. q \in first .. last
        BY <2>2
      <3> QED BY <3>2, <3>3
    <2>4. ASSUME NEW i \in 1 .. m PROVE W(3, 17 + n + i) = converted[i]
      <3> DEFINE r == 17 + n + i
      <3>1. Export!Num(3, r, converted[i]) \in sheet
        <4>1. {Export!Num(3, 17 + Len(received) + l, converted[l]) : l \in DOMAIN converted} \subseteq sheet
          BY <1>3 DEF ExportLedger
        <4> QED BY <1>1, <4>1
      <3> HIDE DEF r
      <3>2. W(3, r) = converted[i]
        BY <3>1, ExportWorth
      <3> QED BY <3>2 DEF r
    <2>5. ASSUME NEW q \in T PROVE h[q] \in 1 .. m /\ w[q] = converted[h[q]]
      <3>1. h[q] = q - 17 - n /\ q - 17 - n \in 1 .. m /\ 17 + n + (q - 17 - n) = q
        BY <1>1
      <3>2. W(3, 17 + n + (q - 17 - n)) = converted[q - 17 - n]
        BY <2>4, <3>1
      <3>3. q \in first .. last
        BY <2>2
      <3> HIDE DEF W
      <3> QED BY <3>1, <3>2, <3>3
    <2>6. ASSUME NEW i \in 1 .. m PROVE converted[i] \in Int /\ \E q \in T : h[q] = i
      <3>1. 17 + n + i \in T /\ h[17 + n + i] = i
        BY <1>1
      <3> QED BY <1>4, <3>1
    <2>7. \A p, q \in T : h[p] = h[q] => p = q
      BY <1>1
    <2>8. W(3, L) = SumFunctionOnSet(w, first .. last)
      <3> HIDE DEF first, last, L
      <3> QED BY <2>1, ExportWorth
    <2> HIDE DEF w, S, T, h, first, last, L
    <2>9. Renames(h, T, 1 .. m, converted, w)
      BY <2>5, <2>6, <2>7 DEF Renames
    <2>10. SumFunctionOnSet(w, T) = SumFunctionOnSet(converted, 1 .. m)
      BY <2>2, <2>9, SumRenamed
    <2>11. SumFunctionOnSet(w, S) = 0
      BY <2>2, <2>3, SumOfZeros
    <2>12. \A q \in S \cup T : w[q] \in Int
      BY <1>4, <2>3, <2>5
    <2>13. SumFunctionOnSet(w, S \cup T) = SumFunctionOnSet(w, S) + SumFunctionOnSet(w, T)
      BY <2>2, <2>12, SumUnion
    <2>14. all \in Int
      <3> HIDE DEF all
      <3> QED BY <1>2, <1>4, <2>2, SumType
    <2>15. W(3, L) = all
      <3>1. W(3, L) = SumFunctionOnSet(w, S \cup T)
        BY <2>2, <2>8
      <3>2. SumFunctionOnSet(w, T) = all
        BY <1>2, <2>10
      <3> HIDE DEF all, W
      <3> QED BY <2>11, <2>13, <2>14, <3>1, <3>2
    <2> QED BY <2>15 DEF L
  <1> QED BY <1>6, <1>7

\* What the list of expenses adds up to in a column, by line.
ExportRowsOf(list, j) == {p \in DOMAIN list : p[1] = 9 /\ list[p].n = j}
ExportSums(list, amounts, column) ==
  [j \in DOMAIN lines |->
     SumFunctionOnSet([q \in ExportRowsOf(list, j) |-> Export!Worth(amounts, <<column, q[2]>>)], ExportRowsOf(list, j))]
ExportListed(list, amounts) ==
  \A j \in DOMAIN lines : ExportSums(list, amounts, 5)[j] \in Int /\ ExportSums(list, amounts, 6)[j] \in Int

\* A line of the dashboard shows its amount and its expenses, and in donor currency its
\* estimate, its expenses and what these deviate from it.
LEMMA ExportDashboardOf ==
  ASSUME Export!ExportAssumption, ExportFunds, lines \in Seq(ExportLine), rate \in Rates,
         NEW groups, ExportParts(groups), NEW list, NEW amounts, NEW value, ExportListed(list, amounts),
         NEW sheet, sheet = Export!DashboardSheet(groups), ExportEvaluates(sheet, value, list, amounts),
         NEW i \in DOMAIN groups, NEW k \in DOMAIN groups[i]
  PROVE  LET r == ExportDashboardBlocks(groups)[i] + k
             j == groups[i][k]
             W(c) == Export!Worth(value, <<c, r>>)
         IN  /\ j \in DOMAIN lines
             /\ W(3) = ExportAmounts[j] /\ W(4) = ExportSums(list, amounts, 5)[j]
             /\ rate # 0 => /\ W(2) = ExportEstimates[j] /\ W(5) = ExportSums(list, amounts, 6)[j]
                            /\ W(6) = ExportEstimates[j] - ExportSums(list, amounts, 6)[j]
  <1> DEFINE blocks == ExportDashboardBlocks(groups)
             end == ExportDashboardEnd(groups)
             H == Export!DashboardSummary(groups)
             r == blocks[i] + k
             j == groups[i][k]
             W(c) == Export!Worth(value, <<c, r>>)
  <1>1. j \in DOMAIN lines
    <2>1. ExportSheet(groups, H, blocks, end)
      BY ExportDashboardPlaces
    <2> HIDE DEF H, blocks, end
    <2> QED BY <2>1, ExportLineAt
  <1>2. ExportDashboardLine(j, r) \subseteq sheet
    <2>1. ExportDashboardLine(j, r) \subseteq ExportDashboardLines(groups, blocks)
      BY DEF ExportDashboardLines
    <2> QED BY <2>1, ExportDashboardCells DEF ExportDashboardOwn
  <1>3. /\ Export!Num(3, r, lines[j].amount) \in sheet /\ Export!SumIf(4, r, j, 5) \in sheet
        /\ rate # 0 => /\ Export!Num(2, r, lines[j].amount \div rate) \in sheet /\ Export!SumIf(5, r, j, 6) \in sheet
                       /\ Export!Minus(6, r, <<2, r>>, <<5, r>>) \in sheet
    BY <1>2 DEF ExportDashboardLine
  <1> HIDE DEF r, j, W
  <1>4. W(3) = ExportAmounts[j]
    <2>1. W(3) = lines[j].amount
      BY <1>3, ExportWorth DEF W
    <2> QED BY <1>1, <2>1, ExportAmountsAddUp
  <1>5. \A c, column : Export!SumIf(c, r, j, column) \in sheet => W(c) = ExportSums(list, amounts, column)[j]
    <2> SUFFICES ASSUME NEW c, NEW column, Export!SumIf(c, r, j, column) \in sheet
                 PROVE  W(c) = ExportSums(list, amounts, column)[j]
      OBVIOUS
    <2> DEFINE Q == ExportRowsOf(list, j)
               f == [q \in {p \in DOMAIN list : p[1] = 9 /\ list[p].n = j} |-> Export!Worth(amounts, <<column, q[2]>>)]
    <2>1. W(c) = SumFunctionOnSet(f, {p \in DOMAIN list : p[1] = 9 /\ list[p].n = j})
      BY ExportWorth DEF W
    <2>2. ExportSums(list, amounts, column)[j] = SumFunctionOnSet(f, {p \in DOMAIN list : p[1] = 9 /\ list[p].n = j})
      BY <1>1 DEF ExportSums, ExportRowsOf
    <2> QED BY <2>1, <2>2
  <1>6. ASSUME rate # 0
        PROVE  /\ W(2) = ExportEstimates[j] /\ W(5) = ExportSums(list, amounts, 6)[j]
               /\ W(6) = ExportEstimates[j] - ExportSums(list, amounts, 6)[j]
    <2>1. W(2) = lines[j].amount \div rate
      <3> DEFINE a == lines[j].amount \div rate
      <3>1. Export!Num(2, r, a) \in sheet
        BY <1>3, <1>6
      <3> HIDE DEF a
      <3>2. W(2) = a
        BY <3>1, ExportWorth DEF W
      <3> QED BY <3>2 DEF a
    <2>2. W(2) = ExportEstimates[j]
      BY <1>1, <1>6, <2>1, ExportAmountsAddUp
    <2>3. W(5) = ExportSums(list, amounts, 6)[j]
      BY <1>3, <1>5, <1>6
    <2>4. W(6) = W(2) - W(5)
      BY <1>3, <1>6, ExportWorth DEF W
    <2> QED BY <2>2, <2>3, <2>4
  <1>7. W(4) = ExportSums(list, amounts, 5)[j]
    BY <1>3, <1>5
  <1> QED BY <1>1, <1>4, <1>6, <1>7 DEF W, r, j

\* The totals of the dashboard: those of lines and those of expenses.
ExportDashboardAdded(groups, list, amounts, value) ==
  LET W(c, r) == Export!Worth(value, <<c, r>>)
      T == Export!DashboardTotal(groups)
      donor == SumFunctionOnSet(ExportSums(list, amounts, 6), DOMAIN lines)
  IN  /\ W(3, T) = ExportPlannedSum
      /\ W(4, T) = SumFunctionOnSet(ExportSums(list, amounts, 5), DOMAIN lines)
      /\ W(3, Export!LedgerTotal) = W(2, 12)
      /\ rate # 0 =>
           /\ W(2, T) = ExportPlannedSum \div rate /\ W(2, 8) = ExportPlannedSum \div rate
           /\ W(5, T) = donor /\ W(6, T) = W(2, T) - donor
           /\ Export!Worth(value, Export!RefundCell(groups)) = Export!Total(received) - donor

\* They are these, for whatever the list of expenses adds up to.
LEMMA ExportDashboardAddsUp ==
  ASSUME Export!ExportAssumption, ExportFunds, lines \in Seq(ExportLine), rate \in Rates,
         NEW groups, ExportParts(groups), NEW list, NEW amounts, NEW value, ExportListed(list, amounts),
         NEW sheet, sheet = Export!DashboardSheet(groups), ExportEvaluates(sheet, value, list, amounts)
  PROVE  ExportDashboardAdded(groups, list, amounts, value)
  <1> DEFINE W(c, r) == Export!Worth(value, <<c, r>>)
             T == Export!DashboardTotal(groups)
             blocks == ExportDashboardBlocks(groups)
             converts == ExportSums(list, amounts, 6)
             donor == SumFunctionOnSet(converts, DOMAIN lines)
             deviations == [j \in DOMAIN lines |-> ExportEstimates[j] - converts[j]]
  <1>1. ASSUME NEW i \in DOMAIN groups, NEW k \in DOMAIN groups[i]
        PROVE  LET r == blocks[i] + k
                   j == groups[i][k]
               IN  /\ j \in DOMAIN lines
                   /\ W(3, r) = ExportAmounts[j] /\ W(4, r) = ExportSums(list, amounts, 5)[j]
                   /\ rate # 0 => /\ W(2, r) = ExportEstimates[j] /\ W(5, r) = converts[j]
                                  /\ W(6, r) = ExportEstimates[j] - converts[j]
    BY ExportDashboardOf
  <1>2. ASSUME NEW c \in ExportDashboardCols, NEW v, ExportColumn(groups, blocks, value, c, v)
        PROVE  W(c, T) = SumFunctionOnSet(v, DOMAIN lines)
    <2> HIDE DEF T
    <2> QED BY <1>2, ExportDashboardColumn DEF T
  <1>3. /\ \A j \in DOMAIN lines : ExportAmounts[j] \in Int
        /\ \A j \in DOMAIN lines : ExportSums(list, amounts, 5)[j] \in Int /\ converts[j] \in Int
        /\ rate # 0 => \A j \in DOMAIN lines : ExportEstimates[j] \in Int
    BY ExportAmountsAddUp DEF ExportListed
  <1> HIDE DEF W, T, blocks, converts
  <1>4. 3 \in ExportDashboardCols /\ 4 \in ExportDashboardCols
        /\ (rate # 0 => 2 \in ExportDashboardCols /\ 5 \in ExportDashboardCols /\ 6 \in ExportDashboardCols)
    BY DEF ExportDashboardCols
  <1>5. W(3, T) = ExportPlannedSum
    <2>1. ExportColumn(groups, blocks, value, 3, ExportAmounts)
      BY <1>1, <1>3 DEF ExportColumn, W
    <2> QED BY <1>2, <1>4, <2>1 DEF ExportPlannedSum
  <1>6. W(4, T) = SumFunctionOnSet(ExportSums(list, amounts, 5), DOMAIN lines)
    <2> DEFINE v == ExportSums(list, amounts, 5)
    <2>1. ExportColumn(groups, blocks, value, 4, v)
      BY <1>1, <1>3 DEF ExportColumn, W
    <2> QED BY <1>2, <1>4, <2>1
  <1>7. ExportDashboardHead \cup {ExportRefund(groups, ExportDashboardEnd(groups))} \subseteq sheet
    BY ExportDashboardCells DEF ExportDashboardOwn
  <1>8. W(2, 11) = Export!Total(received) /\ W(2, 12) = Export!Total(converted)
    <2>1. Export!Num(2, 11, Export!Total(received)) \in sheet /\ Export!Num(2, 12, Export!Total(converted)) \in sheet
      BY <1>7 DEF ExportDashboardHead
    <2> QED BY <2>1, ExportWorth DEF W
  <1>9. W(3, Export!LedgerTotal) = W(2, 12)
    BY <1>8, ExportLedgerAddsUp DEF W
  <1>10. ASSUME rate # 0
         PROVE  /\ W(2, T) = ExportPlannedSum \div rate /\ W(2, 8) = ExportPlannedSum \div rate
                /\ W(5, T) = donor /\ W(6, T) = W(2, T) - donor
                /\ Export!Worth(value, Export!RefundCell(groups)) = Export!Total(received) - donor
    <2>1. W(2, T) = ExportPlannedSum \div rate
      <3>1. ExportColumn(groups, blocks, value, 2, ExportEstimates)
        BY <1>1, <1>3, <1>10 DEF ExportColumn, W
      <3>2. W(2, T) = SumFunctionOnSet(ExportEstimates, DOMAIN lines)
        BY <1>2, <1>4, <1>10, <3>1
      <3> QED BY <1>10, <3>2, ExportAmountsAddUp
    <2>2. W(5, T) = donor
      <3>1. ExportColumn(groups, blocks, value, 5, converts)
        BY <1>1, <1>3, <1>10 DEF ExportColumn, W
      <3> QED BY <1>2, <1>4, <1>10, <3>1
    <2>3. W(6, T) = W(2, T) - donor
      <3>1. \A j \in DOMAIN lines : deviations[j] = ExportEstimates[j] - converts[j]
        OBVIOUS
      <3> HIDE DEF deviations
      <3>2. \A j \in DOMAIN lines : deviations[j] \in Int /\ ExportEstimates[j] = deviations[j] + converts[j]
        BY <1>3, <1>10, <3>1
      <3>3. ExportColumn(groups, blocks, value, 6, deviations)
        BY <1>1, <1>10, <3>1, <3>2 DEF ExportColumn, W
      <3>4. W(6, T) = SumFunctionOnSet(deviations, DOMAIN lines)
        BY <1>2, <1>4, <1>10, <3>3
      <3>5. IsFiniteSet(DOMAIN lines)
        <4>1. DOMAIN lines = 1 .. Len(lines) /\ Len(lines) \in Int /\ 1 \in Int
          OBVIOUS
        <4> QED BY <4>1, FS_Interval
      <3>6. SumFunctionOnSet(ExportEstimates, DOMAIN lines) = SumFunctionOnSet(deviations, DOMAIN lines) + donor
        BY <1>3, <3>2, <3>5, SumOfSums
      <3>7. SumFunctionOnSet(ExportEstimates, DOMAIN lines) = W(2, T)
        BY <1>10, <2>1, ExportAmountsAddUp
      <3>8. SumFunctionOnSet(deviations, DOMAIN lines) \in Int /\ donor \in Int
        BY <1>3, <3>2, <3>5, SumType
      <3> HIDE DEF donor
      <3> QED BY <3>4, <3>6, <3>7, <3>8
    <2>4. W(2, 8) = ExportPlannedSum \div rate
      <3> DEFINE e == Export!Total([l \in DOMAIN lines |-> lines[l].amount]) \div rate
      <3>1. Export!Num(2, 8, e) \in sheet
        BY <1>7, <1>10 DEF ExportDashboardHead
      <3>2. e = ExportPlannedSum \div rate
        BY ExportAmountsAddUp
      <3> HIDE DEF e
      <3> QED BY <3>1, <3>2, ExportWorth DEF W
    <2>5. Export!Worth(value, Export!RefundCell(groups)) = Export!Total(received) - donor
      <3> DEFINE r == ExportDashboardEnd(groups) + 4
      <3>1. Export!RefundCell(groups) = <<2, r>>
        BY DEF Export!RefundCell, ExportDashboardEnd, ExportDashboardRow
      <3>2. Export!Minus(2, r, <<2, 11>>, <<5, T>>) \in sheet
        BY <1>7 DEF ExportRefund, T
      <3> HIDE DEF r, donor
      <3>3. W(2, r) = W(2, 11) - W(5, T)
        BY <3>2, ExportWorth DEF W
      <3>4. W(2, r) = Export!Total(received) - donor
        BY <1>8, <2>2, <3>3
      <3> QED BY <3>1, <3>4 DEF W
    <2> QED BY <2>1, <2>2, <2>3, <2>4, <2>5
  <1> QED BY <1>5, <1>6, <1>9, <1>10 DEF ExportDashboardAdded, W, T, converts

\* A row of the list of expenses, and what the rows of some lines amount to.
ExportRow == [line : Nat \ {0}, amount : Int, rate : Nat]
ExportCounted(rows, A) == [i \in DOMAIN rows |-> IF rows[i].line \in A THEN rows[i].amount ELSE 0]
ExportCount(rows, A) == SumFunctionOnSet(ExportCounted(rows, A), DOMAIN rows)

\* Rows below rows amount to both.
LEMMA ExportCountBoth ==
  ASSUME NEW r \in Seq(ExportRow), NEW s \in Seq(ExportRow), NEW A
  PROVE  ExportCount(r \o s, A) = ExportCount(r, A) + ExportCount(s, A)
  <1> DEFINE l == Len(r)
             m == Len(s)
             f == ExportCounted(r, A)
             g == ExportCounted(s, A)
             h == ExportCounted(r \o s, A)
  <1>1. /\ l \in Nat /\ m \in Nat /\ DOMAIN r = 1 .. l /\ DOMAIN s = 1 .. m
        /\ Len(r \o s) = l + m /\ DOMAIN (r \o s) = 1 .. l + m
        /\ \A i \in 1 .. l : (r \o s)[i] = r[i]
        /\ \A i \in 1 .. m : (r \o s)[l + i] = s[i]
    OBVIOUS
  <1>2. (\A i \in 1 .. l : r[i].amount \in Int) /\ \A i \in 1 .. m : s[i].amount \in Int
    <2>1. (\A i \in 1 .. l : r[i] \in ExportRow) /\ \A i \in 1 .. m : s[i] \in ExportRow
      BY <1>1
    <2> QED BY <2>1 DEF ExportRow
  <1> HIDE DEF l, m
  <1>3. \A i \in 1 .. l : f[i] \in Int /\ h[i] = f[i]
    <2> SUFFICES ASSUME NEW i \in 1 .. l PROVE f[i] \in Int /\ h[i] = f[i]
      OBVIOUS
    <2>1. i \in 1 .. l + m
      BY <1>1
    <2> QED BY <1>1, <1>2, <2>1 DEF ExportCounted
  <1>4. \A i \in 1 .. m : g[i] \in Int /\ h[l + i] = g[i]
    <2> SUFFICES ASSUME NEW i \in 1 .. m PROVE g[i] \in Int /\ h[l + i] = g[i]
      OBVIOUS
    <2>1. l + i \in 1 .. l + m
      BY <1>1
    <2> QED BY <1>1, <1>2, <2>1 DEF ExportCounted
  <1> HIDE DEF f, g, h
  <1>5. SumFunctionOnSet(h, 1 .. l + m) = SumFunctionOnSet(f, 1 .. l) + SumFunctionOnSet(g, 1 .. m)
    <2>1. l \in Nat /\ m \in Nat
      BY <1>1
    <2>2. Concatenates(l, m, f, g, h)
      BY <1>3, <1>4 DEF Concatenates
    <2> QED BY <2>1, <2>2, SumConcatenated
  <1> QED BY <1>1, <1>5 DEF ExportCount, f, g, h

\* The rows of an expense are rows of its line, and amount to it however it is allocated.
LEMMA ExportRowsOfExpense ==
  ASSUME Export!ExportAssumption, NEW e \in ExportExpense, rate \in Nat
  PROVE  /\ Export!RowsOf(e) \in Seq(ExportRow)
         /\ \A A : ExportCount(Export!RowsOf(e), A) = IF e.line \in A THEN e.amount ELSE 0
  <1> DEFINE a == e.allocations
             m == Len(a)
             paid == Export!Total([i \in DOMAIN a |-> a[i].amount])
             left == e.amount - paid
             parts == [i \in 1 .. m |-> [line |-> e.line, amount |-> a[i].amount, rate |-> a[i].rate]]
             last == [line |-> e.line, amount |-> left, rate |-> rate]
             rest == IF a = <<>> \/ left # 0 THEN <<last>> ELSE <<>>
  <1>1. e.line \in Nat \ {0} /\ e.amount \in Int /\ a \in Seq([amount : Int, rate : Nat])
    BY DEF ExportExpense, Export!ExportAssumption
  <1>2. m \in Nat /\ DOMAIN a = 1 .. m /\ \A i \in 1 .. m : a[i] \in [amount : Int, rate : Nat]
    <2> DEFINE P == [amount : Int, rate : Nat]
               b == e.allocations
    <2>1. b \in Seq(P)
      BY <1>1
    <2> HIDE DEF P, b
    <2>2. Len(b) \in Nat /\ DOMAIN b = 1 .. Len(b) /\ \A i \in 1 .. Len(b) : b[i] \in P
      BY <2>1
    <2> QED BY <2>2 DEF P, b
  <1>3. \A i \in 1 .. m : a[i].amount \in Int /\ a[i].rate \in Nat
    BY <1>2
  <1> DEFINE amounts == [i \in 1 .. m |-> a[i].amount]
  <1>4. IsFiniteSet(1 .. m)
    <2>1. m \in Int /\ 1 \in Int
      BY <1>2
    <2> QED BY <2>1, FS_Interval
  <1>5. paid = SumFunctionOnSet(amounts, 1 .. m) /\ paid \in Int
    <2>1. paid = SumFunctionOnSet(amounts, 1 .. m)
      BY <1>2, ExportTotal
    <2>2. \A i \in 1 .. m : amounts[i] \in Int
      BY <1>3
    <2> HIDE DEF amounts, paid
    <2>3. SumFunctionOnSet(amounts, 1 .. m) \in Int
      BY <1>4, <2>2, SumType
    <2> QED BY <2>1, <2>3
  <1>6. Export!RowsOf(e) = parts \o rest
    BY <1>2 DEF Export!RowsOf
  <1> HIDE DEF paid, a, m
  <1>7. \A i \in 1 .. m : parts[i] \in ExportRow /\ parts[i].line = e.line /\ parts[i].amount = amounts[i]
    BY <1>1, <1>3 DEF ExportRow
  <1>8. parts \in Seq(ExportRow) /\ Len(parts) = m /\ DOMAIN parts = 1 .. m
    <2>1. \A i \in 1 .. m : parts[i] \in ExportRow
      BY <1>7
    <2>2. parts = [i \in 1 .. m |-> parts[i]]
      OBVIOUS
    <2>3. DOMAIN parts = 1 .. m
      OBVIOUS
    <2> HIDE DEF parts
    <2> QED BY <1>2, <2>1, <2>2, <2>3
  <1>9. left \in Int /\ last \in ExportRow /\ last.line = e.line /\ last.amount = left
    BY <1>1, <1>5 DEF ExportRow
  <1> HIDE DEF left, last
  <1>10. rest \in Seq(ExportRow)
    BY <1>9
  <1> HIDE DEF parts, rest
  <1>11. Export!RowsOf(e) \in Seq(ExportRow)
    BY <1>6, <1>8, <1>10
  <1>12. ASSUME NEW A PROVE ExportCount(Export!RowsOf(e), A) = IF e.line \in A THEN e.amount ELSE 0
    <2>1. ExportCount(Export!RowsOf(e), A) = ExportCount(parts, A) + ExportCount(rest, A)
      BY <1>6, <1>8, <1>10, ExportCountBoth
    <2>2. ExportCount(parts, A) = IF e.line \in A THEN paid ELSE 0
      <3> DEFINE f == ExportCounted(parts, A)
      <3>1. \A i \in 1 .. m : f[i] = IF e.line \in A THEN amounts[i] ELSE 0
        BY <1>7, <1>8 DEF ExportCounted
      <3>2. \A i \in 1 .. m : amounts[i] \in Int
        BY <1>3
      <3>3. ExportCount(parts, A) = SumFunctionOnSet(f, 1 .. m)
        BY <1>8 DEF ExportCount
      <3> HIDE DEF f, amounts
      <3>4. CASE e.line \in A
        <4>1. SumFunctionOnSet(f, 1 .. m) = SumFunctionOnSet(amounts, 1 .. m)
          BY <1>4, <3>1, <3>2, <3>4, SumSame
        <4> QED BY <1>5, <3>3, <3>4, <4>1
      <3>5. CASE e.line \notin A
        <4>1. SumFunctionOnSet(f, 1 .. m) = 0
          BY <1>4, <3>1, <3>5, SumOfZeros
        <4> QED BY <3>3, <3>5, <4>1
      <3> QED BY <3>4, <3>5
    <2>3. ExportCount(rest, A) = IF e.line \in A THEN left ELSE 0
      <3> DEFINE f == ExportCounted(rest, A)
      <3>1. CASE a = <<>> \/ left # 0
        <4>1. DOMAIN rest = {1} /\ rest[1] = last
          BY <3>1 DEF rest
        <4>2. f[1] = (IF e.line \in A THEN left ELSE 0) /\ f[1] \in Int
          BY <1>9, <4>1 DEF ExportCounted
        <4>3. ExportCount(rest, A) = SumFunctionOnSet(f, {1})
          BY <4>1 DEF ExportCount
        <4> HIDE DEF f
        <4>4. SumFunctionOnSet(f, {1}) = f[1]
          BY <4>2, SumSingle
        <4> QED BY <4>2, <4>3, <4>4
      <3>2. CASE ~(a = <<>> \/ left # 0)
        <4>1. DOMAIN rest = {}
          BY <3>2 DEF rest
        <4>2. ExportCount(rest, A) = SumFunctionOnSet(f, {})
          BY <4>1 DEF ExportCount
        <4> HIDE DEF f
        <4>3. ExportCount(rest, A) = 0
          BY <4>2, SumEmpty
        <4> QED BY <3>2, <4>3
      <3> QED BY <3>1, <3>2
    <2>4. paid + left = e.amount
      BY <1>1, <1>5 DEF left
    <2> QED BY <2>1, <2>2, <2>3, <2>4
  <1> QED BY <1>11, <1>12

\* The rows of the expenses, one after the other.
ExportMore(rows, e) == rows \o Export!RowsOf(e)
ExportRowsTake(it) ==
  it = [s \in SUBSET DOMAIN expenses |->
          IF s = {} THEN <<>> ELSE ExportMore(it[s \ {Last(s)}], expenses[Last(s)])]

\* They are made expense by expense.
LEMMA ExportRowsPass ==
  ASSUME Export!ExportAssumption, expenses \in Seq(ExportExpense), rate \in Nat
  PROVE  \E at \in [0 .. Len(expenses) -> Seq(ExportRow)] :
           /\ at[0] = <<>> /\ at[Len(expenses)] = Export!ExpenseRows
           /\ \A k \in 1 .. Len(expenses) : at[k] = ExportMore(at[k - 1], expenses[k])
  <1> DEFINE n == Len(expenses)
             S == SUBSET (1 .. n)
             V == Seq(ExportRow)
             g == [p \in V \X (1 .. n) |-> ExportMore(p[1], expenses[p[2]])]
  <1>1. n \in Nat /\ DOMAIN expenses = 1 .. n /\ <<>> \in V /\ \A k \in 1 .. n : expenses[k] \in ExportExpense
    OBVIOUS
  <1>2. \A v \in V : \A k \in 1 .. n : g[<<v, k>>] = ExportMore(v, expenses[k]) /\ g[<<v, k>>] \in V
    <2> SUFFICES ASSUME NEW v \in V, NEW k \in 1 .. n
                 PROVE  g[<<v, k>>] = ExportMore(v, expenses[k]) /\ g[<<v, k>>] \in V
      OBVIOUS
    <2>1. Export!RowsOf(expenses[k]) \in V
      BY <1>1, ExportRowsOfExpense
    <2>2. ExportMore(v, expenses[k]) \in V
      BY <2>1 DEF ExportMore
    <2> QED BY <2>2
  <1> HIDE DEF n, V, g
  <1>3. FoldStays(V, g, n)
    BY <1>2 DEF FoldStays
  <1>4. PICK it \in [S -> V] : IsFold(it, g, <<>>, n)
    BY Zenon, <1>1, <1>3, FoldIsThere
  <1>5. \A t \in S : t # {} => Last(t) \in 1 .. n /\ t \ {Last(t)} \in S
    BY <1>1, LastOf
  <1>6. \A t \in S : FoldStep(it, g, <<>>, t)
                       = IF t = {} THEN <<>> ELSE ExportMore(it[t \ {Last(t)}], expenses[Last(t)])
    BY <1>1, <1>2, <1>4, <1>5 DEF FoldStep
  <1>7. ExportRowsTake(it)
    <2>1. it = [t \in S |-> FoldStep(it, g, <<>>, t)]
      BY <1>4 DEF IsFold
    <2>2. it = [t \in S |-> IF t = {} THEN <<>> ELSE ExportMore(it[t \ {Last(t)}], expenses[Last(t)])]
      BY <1>6, <2>1
    <2> QED BY <1>1, <2>2 DEF ExportRowsTake
  <1> DEFINE jt == CHOOSE j : ExportRowsTake(j)
  <1>8. ExportRowsTake(jt)
    BY <1>7
  <1>9. Export!ExpenseRows = jt[DOMAIN expenses]
    BY Zenon DEF Export!ExpenseRows, Export!FoldLeft, Export!MapThenFoldSet, Export!Max, ExportRowsTake, Last,
       ExportMore
  <1> HIDE DEF jt
  <1>10. \A t \in S : jt[t] = IF t = {} THEN <<>> ELSE ExportMore(jt[t \ {Last(t)}], expenses[Last(t)])
    <2> DEFINE ft == [t \in S |-> IF t = {} THEN <<>> ELSE ExportMore(jt[t \ {Last(t)}], expenses[Last(t)])]
    <2>1. jt = ft
      BY Zenon, <1>1, <1>8 DEF ExportRowsTake
    <2>2. \A t \in S : ft[t] = IF t = {} THEN <<>> ELSE ExportMore(jt[t \ {Last(t)}], expenses[Last(t)])
      OBVIOUS
    <2> HIDE DEF ft
    <2> QED BY <2>1, <2>2
  <1>11. jt[{}] = <<>>
    BY <1>10
  <1>12. FoldFollows(jt, V, g, n)
    BY <1>1, <1>2, <1>5, <1>10 DEF FoldFollows
  <1>13. PICK at \in [0 .. n -> V] : FoldPasses(at, g, <<>>, jt[1 .. n], n)
    BY Zenon, <1>1, <1>3, <1>11, <1>12, FoldPass
  <1>14. at[0] = <<>> /\ at[n] = jt[1 .. n]
    BY <1>13 DEF FoldPasses
  <1>15. \A k \in 1 .. n : at[k] = ExportMore(at[k - 1], expenses[k])
    <2> SUFFICES ASSUME NEW k \in 1 .. n PROVE at[k] = ExportMore(at[k - 1], expenses[k])
      OBVIOUS
    <2>1. k - 1 \in 0 .. n
      BY <1>1
    <2>2. at[k - 1] \in V /\ at[k] = g[<<at[k - 1], k>>]
      BY <1>13, <2>1 DEF FoldPasses
    <2> QED BY <1>2, <2>2
  <1>16. at[n] = Export!ExpenseRows
    BY <1>1, <1>9, <1>14
  <1> QED BY <1>14, <1>15, <1>16 DEF n, V

\* They amount to the expenses, those of some lines as well as all.
ExportCharged(A) == [i \in DOMAIN expenses |-> IF expenses[i].line \in A THEN expenses[i].amount ELSE 0]

\* The rows of some lines amount to what the expenses of these lines do.
LEMMA ExportRowsAddUp ==
  ASSUME Export!ExportAssumption, expenses \in Seq(ExportExpense), rate \in Nat, NEW A
  PROVE  /\ Export!ExpenseRows \in Seq(ExportRow)
         /\ ExportCount(Export!ExpenseRows, A) = SumFunctionOnSet(ExportCharged(A), DOMAIN expenses)
  <1> DEFINE n == Len(expenses)
             f == ExportCharged(A)
  <1>1. PICK at \in [0 .. n -> Seq(ExportRow)] :
          /\ at[0] = <<>> /\ at[n] = Export!ExpenseRows
          /\ \A k \in 1 .. n : at[k] = ExportMore(at[k - 1], expenses[k])
    BY ExportRowsPass
  <1>2. n \in Nat /\ DOMAIN expenses = 1 .. n /\ n \in 0 .. n /\ \A k \in 1 .. n : expenses[k] \in ExportExpense
    OBVIOUS
  <1>3. \A k \in 1 .. n : expenses[k].amount \in Int
    BY <1>2 DEF ExportExpense, Export!ExportAssumption
  <1>4. \A k \in 1 .. n : f[k] \in Int /\ f[k] = IF expenses[k].line \in A THEN expenses[k].amount ELSE 0
    BY <1>2, <1>3 DEF ExportCharged
  <1> HIDE DEF f, n
  <1> DEFINE Good == {k \in Nat : k =< n => ExportCount(at[k], A) = SumFunctionOnSet(f, 1 .. k)}
  <1>5. 0 \in Good
    <2>1. 1 .. 0 = {} /\ DOMAIN at[0] = {}
      BY <1>1
    <2>2. SumFunctionOnSet(f, 1 .. 0) = 0
      BY <2>1, SumEmpty
    <2>3. ExportCount(at[0], A) = 0
      BY <2>1, SumEmpty DEF ExportCount
    <2> QED BY <2>2, <2>3
  <1>6. \A k \in Nat : k \in Good => k + 1 \in Good
    <2> SUFFICES ASSUME NEW k \in Nat, k \in Good, k + 1 =< n
                 PROVE  ExportCount(at[k + 1], A) = SumFunctionOnSet(f, 1 .. k + 1)
      OBVIOUS
    <2>1. k \in 0 .. n /\ k + 1 \in 1 .. n /\ (k + 1) - 1 = k /\ k =< n
      BY <1>2
    <2> DEFINE e == expenses[k + 1]
               r == at[k]
               s == Export!RowsOf(e)
    <2>2. at[k + 1] = r \o s
      BY <1>1, <2>1 DEF ExportMore
    <2>3. e \in ExportExpense /\ r \in Seq(ExportRow)
      BY <1>1, <1>2, <2>1
    <2>4. f[k + 1] = IF e.line \in A THEN e.amount ELSE 0
      BY <1>4, <2>1
    <2> HIDE DEF e, r
    <2>5. s \in Seq(ExportRow) /\ ExportCount(s, A) = IF e.line \in A THEN e.amount ELSE 0
      BY <2>3, ExportRowsOfExpense
    <2> HIDE DEF s
    <2>6. ExportCount(at[k + 1], A) = ExportCount(r, A) + f[k + 1]
      BY <2>2, <2>3, <2>4, <2>5, ExportCountBoth
    <2>7. ExportCount(r, A) = SumFunctionOnSet(f, 1 .. k)
      BY <2>1 DEF r
    <2>8. IsFiniteSet(1 .. k) /\ k + 1 \notin 1 .. k /\ 1 .. k + 1 = (1 .. k) \cup {k + 1}
      <3>1. k \in Int /\ 1 \in Int /\ k + 1 \notin 1 .. k /\ 1 .. k + 1 = (1 .. k) \cup {k + 1}
        OBVIOUS
      <3> QED BY <3>1, FS_Interval
    <2>9. (\A i \in 1 .. k : f[i] \in Int) /\ f[k + 1] \in Int
      BY <1>2, <1>4, <2>1
    <2>10. SumFunctionOnSet(f, 1 .. k + 1) = f[k + 1] + SumFunctionOnSet(f, 1 .. k)
      BY <2>8, <2>9, SumAdd
    <2>11. SumFunctionOnSet(f, 1 .. k) \in Int
      BY <2>8, <2>9, SumType
    <2> QED BY <2>6, <2>7, <2>9, <2>10, <2>11
  <1>7. n \in Good
    <2>1. Nat \subseteq Good
      <3> HIDE DEF Good
      <3> QED BY <1>5, <1>6, NumberInduction
    <2> QED BY <1>2, <2>1
  <1>8. ExportCount(at[n], A) = SumFunctionOnSet(f, 1 .. n)
    BY <1>2, <1>7
  <1> QED BY <1>1, <1>2, <1>8 DEF f

\* List of Expenses: its cells, and by their places.
ExportListTotal(rows) == Len(rows) + 2
ExportListSum(rows) ==
  IF rows = <<>> THEN Export!Num(5, ExportListTotal(rows), 0)
  ELSE Export!Sum(5, ExportListTotal(rows), 2, ExportListTotal(rows) - 1)
ExportListRated(rows, i) ==
  {Export!Num(7, i + 1, rows[i].rate), Export!Over(6, i + 1, <<5, i + 1>>, <<7, i + 1>>)}
ExportListConverted(rows) == Export!Sum(6, ExportListTotal(rows), 2, ExportListTotal(rows) - 1)
ExportListAt(rows, c, r) ==
  IF r = ExportListTotal(rows) THEN (IF c = 5 THEN ExportListSum(rows) ELSE ExportListConverted(rows))
  ELSE IF c = 5 THEN Export!Num(5, r, rows[r - 1].amount)
  ELSE IF c = 9 THEN Export!Num(9, r, rows[r - 1].line)
  ELSE IF c = 7 THEN Export!Num(7, r, rows[r - 1].rate)
  ELSE Export!Over(6, r, <<5, r>>, <<7, r>>)
ExportListOrder(rows, c, r) == IF r = ExportListTotal(rows) THEN 2 ELSE IF c = 6 THEN 1 ELSE 0
ExportListRank(rows) == [p \in Int \X Int |-> ExportListOrder(rows, p[1], p[2])]

\* The rank of a place.
LEMMA ExportListRanks ==
  ASSUME NEW rows, NEW c \in Int, NEW r \in Int
  PROVE  /\ <<c, r>> \in Int \X Int
         /\ ExportListRank(rows)[<<c, r>>] = ExportListOrder(rows, c, r)
  <1> DEFINE p == <<c, r>>
  <1>1. p \in Int \X Int /\ p[1] = c /\ p[2] = r
    OBVIOUS
  <1> HIDE DEF p
  <1>2. ExportListRank(rows)[p] = ExportListOrder(rows, c, r)
    BY <1>1 DEF ExportListRank
  <1> QED BY <1>1, <1>2 DEF p

\* A cell of the list: where it is, and that it reads what comes before it.
ExportListCell(rows, x) ==
  /\ ExportCell(x) /\ x.col \in Int /\ x.row \in Int
  /\ x = ExportListAt(rows, x.col, x.row)
  /\ x.row # ExportListTotal(rows) => x.row - 1 \in DOMAIN rows /\ (x.col = 6 => rows[x.row - 1].rate # 0)
  /\ \A p \in ExportReads(x) : p \in Int \X Int /\ ExportListRank(rows)[p] < ExportListRank(rows)[<<x.col, x.row>>]

\* A number of the list.
LEMMA ExportListNum ==
  ASSUME NEW rows, rows \in Seq(ExportRow), NEW c \in {5, 7, 9}, NEW r \in Int, NEW a, NEW x, x = Export!Num(c, r, a),
         x = ExportListAt(rows, c, r), r # ExportListTotal(rows) => r - 1 \in DOMAIN rows
  PROVE  ExportListCell(rows, x)
  <1>1. ExportIs(x, c, r, {})
    BY ExportNum
  <1>2. c \in Int /\ c # 6
    OBVIOUS
  <1> QED BY <1>1, <1>2 DEF ExportListCell, ExportIs

\* A total of the list.
LEMMA ExportListTotals ==
  ASSUME NEW rows, rows \in Seq(ExportRow), NEW c \in {5, 6}, NEW x,
         x = Export!Sum(c, ExportListTotal(rows), 2, ExportListTotal(rows) - 1),
         x = ExportListAt(rows, c, ExportListTotal(rows))
  PROVE  ExportListCell(rows, x)
  <1> DEFINE T == ExportListTotal(rows)
             last == T - 1
  <1>1. T \in Int /\ \A q \in 2 .. last : q \in Int /\ q # T
    BY DEF ExportListTotal
  <1>2. c \in Int
    OBVIOUS
  <1>3. x = Export!Sum(c, T, 2, last)
    OBVIOUS
  <1> HIDE DEF T, last
  <1>4. ExportIs(x, c, T, {<<c, q>> : q \in 2 .. last})
    BY <1>3, ExportSumCell
  <1>5. x.col = c /\ x.row = T /\ ExportCell(x) /\ ExportReads(x) = {<<c, q>> : q \in 2 .. last}
    BY <1>4 DEF ExportIs
  <1>6. ExportListRank(rows)[<<c, T>>] = 2
    <2>1. ExportListRank(rows)[<<c, T>>] = ExportListOrder(rows, c, T)
      BY <1>1, <1>2, ExportListRanks
    <2> QED BY <2>1 DEF ExportListOrder, T
  <1>7. ASSUME NEW p \in ExportReads(x) PROVE p \in Int \X Int /\ ExportListRank(rows)[p] < 2
    <2>1. PICK q \in 2 .. last : p = <<c, q>>
      BY <1>5, <1>7
    <2>2. q \in Int /\ q # T
      BY <1>1
    <2>3. <<c, q>> \in Int \X Int /\ ExportListRank(rows)[<<c, q>>] = ExportListOrder(rows, c, q)
      BY <1>2, <2>2, ExportListRanks
    <2>4. ExportListOrder(rows, c, q) < 2
      BY <2>2 DEF ExportListOrder, T
    <2> QED BY <2>1, <2>3, <2>4
  <1> QED BY <1>1, <1>2, <1>5, <1>6, <1>7 DEF ExportListCell, T

ExportListSheet(rows) ==
  {Export!Num(5, i + 1, rows[i].amount) : i \in DOMAIN rows}
  \cup {Export!Num(9, i + 1, rows[i].line) : i \in DOMAIN rows}
  \cup {ExportListSum(rows)}
  \cup {ExportListConverted(rows) : y \in {k \in DOMAIN rows : rows[k].rate # 0}}
  \cup UNION {ExportListRated(rows, i) : i \in {k \in DOMAIN rows : rows[k].rate # 0}}

\* The sheet is these cells.
LEMMA ExportListParts == Export!ExpenseSheet = ExportListSheet(Export!ExpenseRows)
  BY DEF Export!ExpenseSheet, ExportListSheet, ExportListRated, ExportListSum, ExportListTotal, ExportListConverted

\* Every cell of the list is one of these.
LEMMA ExportListCells ==
  ASSUME NEW rows, rows \in Seq(ExportRow), rows = Export!ExpenseRows, NEW x \in Export!ExpenseSheet
  PROVE  ExportListCell(rows, x)
  <1> DEFINE n == Len(rows)
             T == ExportListTotal(rows)
  <1>1. n \in Nat /\ DOMAIN rows = 1 .. n /\ T \in Int /\ T = n + 2
    BY DEF ExportListTotal
  <1>2. \/ \E i \in DOMAIN rows : x = Export!Num(5, i + 1, rows[i].amount)
        \/ \E i \in DOMAIN rows : x = Export!Num(9, i + 1, rows[i].line)
        \/ \E i \in {k \in DOMAIN rows : rows[k].rate # 0} : x \in ExportListRated(rows, i)
        \/ x = ExportListSum(rows)
        \/ x = ExportListConverted(rows)
    <2>1. x \in ExportListSheet(rows)
      BY ExportListParts
    <2> DEFINE A == {Export!Num(5, i + 1, rows[i].amount) : i \in DOMAIN rows}
               B == {Export!Num(9, i + 1, rows[i].line) : i \in DOMAIN rows}
               C == UNION {ExportListRated(rows, i) : i \in {k \in DOMAIN rows : rows[k].rate # 0}}
               D == {ExportListSum(rows)}
               E == {ExportListConverted(rows) : y \in {k \in DOMAIN rows : rows[k].rate # 0}}
    <2>2. ExportListSheet(rows) = A \cup B \cup D \cup E \cup C
      BY DEF ExportListSheet
    <2> HIDE DEF A, B, C, D, E
    <2>3. x \in A \/ x \in B \/ x \in C \/ x \in D \/ x \in E
      BY <2>1, <2>2
    <2>4. CASE x \in A \/ x \in B \/ x \in D
      BY <2>4 DEF A, B, D
    <2>5. CASE x \in C
      BY <2>5 DEF C
    <2>6. CASE x \in E
      BY <2>6 DEF E
    <2> QED BY <2>3, <2>4, <2>5, <2>6
  <1>3. ASSUME NEW i \in DOMAIN rows PROVE i + 1 \in Int /\ (i + 1) - 1 = i /\ i + 1 # T
    BY <1>1
  <1> HIDE DEF n, T
  <1>4. CASE \E i \in DOMAIN rows : x = Export!Num(5, i + 1, rows[i].amount)
    <2>1. PICK i \in DOMAIN rows : x = Export!Num(5, i + 1, rows[i].amount)
      BY <1>4
    <2> DEFINE r == i + 1
    <2>2. r \in Int /\ r - 1 = i /\ r # T /\ x = Export!Num(5, r, rows[i].amount)
      BY <1>3, <2>1
    <2> HIDE DEF r
    <2>3. x = ExportListAt(rows, 5, r)
      BY <2>2 DEF ExportListAt, T
    <2> QED BY <2>2, <2>3, ExportListNum
  <1>5. CASE \E i \in DOMAIN rows : x = Export!Num(9, i + 1, rows[i].line)
    <2>1. PICK i \in DOMAIN rows : x = Export!Num(9, i + 1, rows[i].line)
      BY <1>5
    <2> DEFINE r == i + 1
    <2>2. r \in Int /\ r - 1 = i /\ r # T /\ x = Export!Num(9, r, rows[i].line)
      BY <1>3, <2>1
    <2> HIDE DEF r
    <2>3. x = ExportListAt(rows, 9, r)
      BY <2>2 DEF ExportListAt, T
    <2> QED BY <2>2, <2>3, ExportListNum
  <1>6. CASE \E i \in {k \in DOMAIN rows : rows[k].rate # 0} : x \in ExportListRated(rows, i)
    <2>1. PICK i \in {k \in DOMAIN rows : rows[k].rate # 0} : x \in ExportListRated(rows, i)
      BY <1>6
    <2> DEFINE r == i + 1
    <2>2. r \in Int /\ r - 1 = i /\ r # T /\ i \in DOMAIN rows /\ rows[i].rate # 0
      BY <1>3
    <2>3. x = Export!Num(7, r, rows[i].rate) \/ x = Export!Over(6, r, <<5, r>>, <<7, r>>)
      BY <2>1 DEF ExportListRated
    <2> HIDE DEF r
    <2>4. CASE x = Export!Num(7, r, rows[i].rate)
      <3>1. x = ExportListAt(rows, 7, r)
        BY <2>2, <2>4 DEF ExportListAt, T
      <3> QED BY <2>2, <2>4, <3>1, ExportListNum
    <2>5. CASE x = Export!Over(6, r, <<5, r>>, <<7, r>>)
      <3>1. x = ExportListAt(rows, 6, r)
        BY <2>2, <2>5 DEF ExportListAt, T
      <3>2. x.col = 6 /\ x.row = r /\ ExportCell(x) /\ ExportReads(x) = {<<5, r>>, <<7, r>>}
        <4>1. ExportIs(x, 6, r, {<<5, r>>, <<7, r>>})
          BY <2>5, ExportOver
        <4> QED BY <4>1 DEF ExportIs
      <3>3. /\ ExportListRank(rows)[<<5, r>>] = 0 /\ ExportListRank(rows)[<<7, r>>] = 0
            /\ ExportListRank(rows)[<<6, r>>] = 1
            /\ <<5, r>> \in Int \X Int /\ <<7, r>> \in Int \X Int
        <4>1. \A c \in Int : /\ ExportListRank(rows)[<<c, r>>] = ExportListOrder(rows, c, r)
                              /\ <<c, r>> \in Int \X Int
          BY <2>2, ExportListRanks
        <4> QED BY <2>2, <4>1 DEF ExportListOrder, T
      <3>4. \A p \in ExportReads(x) : p \in Int \X Int /\ ExportListRank(rows)[p] < ExportListRank(rows)[<<x.col, x.row>>]
        BY <3>2, <3>3
      <3>5. x = ExportListAt(rows, x.col, x.row)
        BY <3>1, <3>2
      <3>6. x.row - 1 \in DOMAIN rows /\ rows[x.row - 1].rate # 0
        BY <2>2, <3>2
      <3> QED BY <2>2, <3>2, <3>4, <3>5, <3>6 DEF ExportListCell
    <2> QED BY <2>3, <2>4, <2>5
  <1>7. CASE x = ExportListSum(rows)
    <2>1. x = ExportListAt(rows, 5, T)
      BY <1>7 DEF ExportListAt, T
    <2>2. CASE rows = <<>>
      <3>1. x = Export!Num(5, T, 0)
        BY <1>7, <2>2 DEF ExportListSum, T
      <3> QED BY <1>1, <2>1, <3>1, ExportListNum DEF T
    <2>3. CASE rows # <<>>
      <3>1. x = Export!Sum(5, ExportListTotal(rows), 2, ExportListTotal(rows) - 1)
        BY <1>7, <2>3 DEF ExportListSum
      <3> QED BY <2>1, <3>1, ExportListTotals DEF T
    <2> QED BY <2>2, <2>3
  <1>8. CASE x = ExportListConverted(rows)
    <2>1. x = ExportListAt(rows, 6, T)
      BY <1>8 DEF ExportListAt, T
    <2>2. x = Export!Sum(6, ExportListTotal(rows), 2, ExportListTotal(rows) - 1)
      BY <1>8 DEF ExportListConverted
    <2> QED BY <2>1, <2>2, ExportListTotals DEF T
  <1> QED BY <1>2, <1>4, <1>5, <1>6, <1>7, <1>8

\* It has every cell once, and these have values.
LEMMA ExportListEvaluates ==
  ASSUME Export!ExpenseRows \in Seq(ExportRow)
  PROVE  /\ \A x, y \in Export!ExpenseSheet : <<x.col, x.row>> = <<y.col, y.row>> => x = y
         /\ ExportEvaluates(Export!ExpenseSheet, Export!ListValues, <<>>, <<>>)
  <1> DEFINE sheet == Export!ExpenseSheet
             rows == Export!ExpenseRows
             rank == ExportListRank(rows)
  <1>1. \A x \in sheet : ExportListCell(rows, x)
    BY ExportListCells
  <1> HIDE DEF sheet, rows
  <1>2. \A x \in sheet : ExportCell(x) /\ rank[<<x.col, x.row>>] \in 0 .. 2
    <2> SUFFICES ASSUME NEW x \in sheet PROVE ExportCell(x) /\ rank[<<x.col, x.row>>] \in 0 .. 2
      OBVIOUS
    <2>1. ExportCell(x) /\ x.col \in Int /\ x.row \in Int
      BY <1>1 DEF ExportListCell
    <2>2. rank[<<x.col, x.row>>] = ExportListOrder(rows, x.col, x.row)
      BY <2>1, ExportListRanks
    <2> QED BY <2>1, <2>2 DEF ExportListOrder
  <1>3. \A x, y \in sheet : <<x.col, x.row>> = <<y.col, y.row>> => x = y
    <2> SUFFICES ASSUME NEW x \in sheet, NEW y \in sheet, <<x.col, x.row>> = <<y.col, y.row>> PROVE x = y
      OBVIOUS
    <2>1. x.col = y.col /\ x.row = y.row
      OBVIOUS
    <2> QED BY <1>1, <2>1 DEF ExportListCell
  <1>4. \A x, y \in sheet : <<y.col, y.row>> \in ExportReads(x) => rank[<<y.col, y.row>>] < rank[<<x.col, x.row>>]
    BY <1>1 DEF ExportListCell
  <1> HIDE DEF rank
  <1>5. ExportRanked(sheet, rank, 2)
    BY <1>2, <1>3, <1>4 DEF ExportRanked
  <1> DEFINE none1 == <<>>
  <1>6. Export!ListValues = Export!Values(Export!Indexed(sheet), none1, none1)
    BY DEF Export!ListValues, sheet
  <1> HIDE DEF none1
  <1>7. ExportEvaluates(sheet, Export!Values(Export!Indexed(sheet), none1, none1), none1, none1)
    BY <1>5, ExportHasValues
  <1> QED BY <1>3, <1>6, <1>7 DEF sheet, none1

\* What a row of the list says in donor currency, and what it is worth there.
ExportPaid(rows) == [i \in DOMAIN rows |-> rows[i].amount]
ExportDonor(rows) == [i \in DOMAIN rows |-> IF rows[i].rate # 0 THEN rows[i].amount \div rows[i].rate ELSE 0]
ExportOfColumn(rows, column) == IF column = 5 THEN ExportPaid(rows) ELSE ExportDonor(rows)

\* The cells of a row are worth its amount, and that in donor currency; nothing without a rate.
LEMMA ExportListAmounts ==
  ASSUME NEW rows, rows \in Seq(ExportRow), rows = Export!ExpenseRows,
         NEW i \in DOMAIN rows, NEW column \in {5, 6}
  PROVE  /\ Export!Worth(Export!ListValues, <<column, i + 1>>) = ExportOfColumn(rows, column)[i]
         /\ ExportOfColumn(rows, column)[i] \in Int
  <1> DEFINE r == i + 1
             sheet == Export!ExpenseSheet
             W(c) == Export!Worth(Export!ListValues, <<c, r>>)
             empty == <<>>
  <1>1. rows[i].amount \in Int /\ rows[i].rate \in Nat
    <2>1. rows[i] \in ExportRow
      OBVIOUS
    <2> QED BY <2>1 DEF ExportRow
  <1>2. ExportEvaluates(sheet, Export!ListValues, empty, empty)
    BY ExportListEvaluates
  <1>3. /\ Export!Num(5, r, rows[i].amount) \in sheet
        /\ rows[i].rate # 0 => Export!Num(7, r, rows[i].rate) \in sheet
                               /\ Export!Over(6, r, <<5, r>>, <<7, r>>) \in sheet
    <2> DEFINE A == {Export!Num(5, k + 1, rows[k].amount) : k \in DOMAIN rows}
               B == {Export!Num(9, k + 1, rows[k].line) : k \in DOMAIN rows}
               C == UNION {ExportListRated(rows, k) : k \in {k \in DOMAIN rows : rows[k].rate # 0}}
               D == {ExportListSum(rows)}
               E == {ExportListConverted(rows) : y \in {k \in DOMAIN rows : rows[k].rate # 0}}
    <2>1. ExportListSheet(rows) = A \cup B \cup D \cup E \cup C
      BY DEF ExportListSheet
    <2>2. Export!Num(5, r, rows[i].amount) \in A
      OBVIOUS
    <2>3. rows[i].rate # 0 => Export!Num(7, r, rows[i].rate) \in C /\ Export!Over(6, r, <<5, r>>, <<7, r>>) \in C
      <3>1. rows[i].rate # 0 => ExportListRated(rows, i) \subseteq C
        OBVIOUS
      <3> HIDE DEF C
      <3>2. Export!Num(7, r, rows[i].rate) \in ExportListRated(rows, i)
            /\ Export!Over(6, r, <<5, r>>, <<7, r>>) \in ExportListRated(rows, i)
        BY DEF ExportListRated
      <3> QED BY <3>1, <3>2
    <2> HIDE DEF A, B, C, D, E
    <2> QED BY <2>1, <2>2, <2>3, ExportListParts
  <1>4. r \in Int /\ r - 1 = i /\ r # ExportListTotal(rows)
    <2>1. i \in 1 .. Len(rows) /\ Len(rows) \in Nat
      OBVIOUS
    <2> QED BY <2>1 DEF ExportListTotal
  <1> HIDE DEF r, sheet, empty, W
  <1>5. W(5) = rows[i].amount
    BY <1>2, <1>3, ExportWorth DEF W
  <1>6. CASE column = 5
    BY <1>1, <1>5, <1>6 DEF ExportOfColumn, ExportPaid, W, r
  <1>7. CASE column = 6 /\ rows[i].rate # 0
    <2>1. W(7) = rows[i].rate
      BY <1>2, <1>3, <1>7, ExportWorth DEF W
    <2>2. W(6) = W(5) \div W(7)
      BY <1>2, <1>3, <1>7, ExportWorth DEF W
    <2>3. ExportDonor(rows)[i] = rows[i].amount \div rows[i].rate
      BY <1>7 DEF ExportDonor
    <2>4. rows[i].amount \div rows[i].rate \in Int
      BY <1>1, <1>7
    <2>5. W(6) = ExportDonor(rows)[i]
      BY <1>5, <2>1, <2>2, <2>3
    <2> QED BY <1>7, <2>3, <2>4, <2>5 DEF ExportOfColumn, W, r
  <1>8. CASE column = 6 /\ rows[i].rate = 0
    <2>1. ASSUME NEW x \in sheet, <<x.col, x.row>> = <<6, r>> PROVE FALSE
      <3>1. ExportListCell(rows, x)
        BY ExportListCells DEF sheet
      <3>2. x.col = 6 /\ x.row = r
        BY <2>1
      <3> QED BY <1>4, <1>8, <3>1, <3>2 DEF ExportListCell
    <2>2. W(6) = 0
      BY <1>2, <2>1 DEF ExportEvaluates, W
    <2>3. ExportDonor(rows)[i] = 0
      BY <1>8 DEF ExportDonor
    <2> QED BY <1>8, <2>2, <2>3 DEF ExportOfColumn, W, r
  <1> QED BY <1>6, <1>7, <1>8

\* The rows of a line in the list are those that carry its id.
LEMMA ExportListRows ==
  ASSUME NEW rows, rows \in Seq(ExportRow), rows = Export!ExpenseRows,
         NEW list, list = Export!Indexed(Export!ExpenseSheet), NEW j
  PROVE  /\ \A i \in DOMAIN rows : rows[i].line = j => <<9, i + 1>> \in ExportRowsOf(list, j)
         /\ \A q \in ExportRowsOf(list, j) :
              \E i \in DOMAIN rows : rows[i].line = j /\ q = <<9, i + 1>>
  <1> DEFINE sheet == Export!ExpenseSheet
  <1>1. /\ \A x \in sheet : <<x.col, x.row>> \in DOMAIN list /\ list[<<x.col, x.row>>] = x
        /\ \A p \in DOMAIN list : list[p] \in sheet /\ <<list[p].col, list[p].row>> = p
    BY ExportListEvaluates, ExportIndexed
  <1>2. ASSUME NEW i \in DOMAIN rows, rows[i].line = j PROVE <<9, i + 1>> \in ExportRowsOf(list, j)
    <2> DEFINE r == i + 1
               x == Export!Num(9, r, j)
    <2>1. x \in sheet
      <3> DEFINE A == {Export!Num(5, k + 1, rows[k].amount) : k \in DOMAIN rows}
                 B == {Export!Num(9, k + 1, rows[k].line) : k \in DOMAIN rows}
                 C == UNION {ExportListRated(rows, k) : k \in {k \in DOMAIN rows : rows[k].rate # 0}}
                 D == {ExportListSum(rows)}
                 E == {ExportListConverted(rows) : y \in {k \in DOMAIN rows : rows[k].rate # 0}}
      <3>1. ExportListSheet(rows) = A \cup B \cup D \cup E \cup C
        BY DEF ExportListSheet
      <3>2. x \in B
        BY <1>2
      <3> HIDE DEF A, B, C, D, E
      <3> QED BY <3>1, <3>2, ExportListParts
    <2>2. x.col = 9 /\ x.row = r /\ x.n = j
      BY DEF Export!Num, Export!Cell
    <2> HIDE DEF sheet, x, r
    <2>3. <<9, r>> \in DOMAIN list /\ list[<<9, r>>] = x
      BY <1>1, <2>1, <2>2
    <2> QED BY <2>2, <2>3 DEF ExportRowsOf, r
  <1>3. ASSUME NEW q \in ExportRowsOf(list, j)
        PROVE  \E i \in DOMAIN rows : rows[i].line = j /\ q = <<9, i + 1>>
    <2> DEFINE x == list[q]
               r == x.row
    <2>1. x \in sheet /\ <<x.col, r>> = q /\ q[1] = 9 /\ x.n = j
      BY <1>1 DEF ExportRowsOf
    <2>2. ExportListCell(rows, x)
      BY <2>1, ExportListCells
    <2> HIDE DEF sheet, x
    <2>3. x.col = 9 /\ r \in Int /\ x = ExportListAt(rows, 9, r)
          /\ (r # ExportListTotal(rows) => r - 1 \in DOMAIN rows)
      <3>1. x.col = 9
        BY <2>1
      <3> QED BY <2>2, <3>1 DEF ExportListCell
    <2>4. r # ExportListTotal(rows)
      <3> SUFFICES ASSUME r = ExportListTotal(rows) PROVE FALSE
        OBVIOUS
      <3> DEFINE T == ExportListTotal(rows)
                 last == T - 1
      <3>1. x = Export!Sum(6, T, 2, last)
        BY <2>3 DEF ExportListAt, ExportListConverted
      <3> HIDE DEF T, last
      <3>2. x.col = 6
        BY <3>1 DEF Export!Sum, Export!Cell
      <3> QED BY <2>3, <3>2
    <2>5. x.n = rows[r - 1].line
      <3>1. x = Export!Num(9, r, rows[r - 1].line)
        BY <2>3, <2>4 DEF ExportListAt
      <3> DEFINE l == rows[r - 1].line
      <3> HIDE DEF l, r
      <3>2. x.n = l
        BY <3>1 DEF Export!Num, Export!Cell, l
      <3> QED BY <3>2 DEF l
    <2>6. (r - 1) + 1 = r /\ q = <<9, r>>
      BY <2>1, <2>3
    <2> HIDE DEF r
    <2> QED BY <2>1, <2>3, <2>4, <2>5, <2>6
  <1> QED BY <1>2, <1>3

\* What a line is charged with in the list is what the rows that carry its id amount to.
LEMMA ExportListSums ==
  ASSUME NEW rows, rows \in Seq(ExportRow), rows = Export!ExpenseRows,
         NEW list, list = Export!Indexed(Export!ExpenseSheet), NEW column \in {5, 6}, NEW j \in DOMAIN lines
  PROVE  ExportSums(list, Export!ListValues, column)[j]
           = SumFunctionOnSet(ExportOfColumn(rows, column), {i \in DOMAIN rows : rows[i].line = j})
  <1> DEFINE S == {i \in DOMAIN rows : rows[i].line = j}
             T == ExportRowsOf(list, j)
             h == [i \in S |-> <<9, i + 1>>]
             f == [q \in T |-> Export!Worth(Export!ListValues, <<column, q[2]>>)]
             g == ExportOfColumn(rows, column)
  <1>1. IsFiniteSet(S)
    <2>1. DOMAIN rows = 1 .. Len(rows) /\ Len(rows) \in Int /\ 1 \in Int
      OBVIOUS
    <2>2. IsFiniteSet(DOMAIN rows)
      BY <2>1, FS_Interval
    <2> QED BY <2>2, FS_Subset
  <1>2. \A i \in S : h[i] \in T /\ h[i] = <<9, i + 1>>
    BY ExportListRows
  <1>3. \A q \in T : \E i \in S : h[i] = q
    BY ExportListRows
  <1>4. \A i \in S : Export!Worth(Export!ListValues, <<column, i + 1>>) = g[i] /\ g[i] \in Int
    BY ExportListAmounts
  <1>5. \A i \in S : i \in Int
    OBVIOUS
  <1>6. \A q \in T : f[q] = Export!Worth(Export!ListValues, <<column, q[2]>>)
    OBVIOUS
  <1>7. ExportSums(list, Export!ListValues, column)[j] = SumFunctionOnSet(f, T)
    BY DEF ExportSums
  <1> HIDE DEF S, T, h, f, g
  <1>8. \A i \in S : g[i] = f[h[i]] /\ f[h[i]] \in Int
    <2> SUFFICES ASSUME NEW i \in S PROVE g[i] = f[h[i]] /\ f[h[i]] \in Int
      OBVIOUS
    <2> DEFINE r == i + 1
    <2>1. h[i] = <<9, r>> /\ h[i] \in T /\ Export!Worth(Export!ListValues, <<column, r>>) = g[i] /\ g[i] \in Int
      BY <1>2, <1>4
    <2> HIDE DEF r
    <2>2. f[h[i]] = Export!Worth(Export!ListValues, <<column, r>>)
      BY <1>6, <2>1
    <2> QED BY <2>1, <2>2
  <1>9. \A i, k \in S : h[i] = h[k] => i = k
    <2> SUFFICES ASSUME NEW i \in S, NEW k \in S, h[i] = h[k] PROVE i = k
      OBVIOUS
    <2> DEFINE a == i + 1
               b == k + 1
    <2>1. <<9, a>> = <<9, b>>
      BY <1>2
    <2>2. a = b
      <3> HIDE DEF a, b
      <3> QED BY <2>1
    <2> QED BY <1>5, <2>2
  <1>10. \A q \in T : f[q] \in Int /\ \E i \in S : h[i] = q
    BY <1>3, <1>8
  <1>11. Renames(h, S, T, f, g)
    BY <1>2, <1>8, <1>9, <1>10 DEF Renames
  <1>12. SumFunctionOnSet(g, S) = SumFunctionOnSet(f, T)
    BY <1>1, <1>11, SumRenamed
  <1> QED BY <1>7, <1>12 DEF g, S
\* All rows of known lines, summed line by line.
LEMMA ExportListBoth ==
  ASSUME NEW rows, rows \in Seq(ExportRow), rows = Export!ExpenseRows, lines \in Seq(ExportLine),
         NEW list, list = Export!Indexed(Export!ExpenseSheet), NEW column \in {5, 6},
         NEW g, \A i \in DOMAIN rows : g[i] = IF rows[i].line \in DOMAIN lines
                                              THEN ExportOfColumn(rows, column)[i] ELSE 0
  PROVE  /\ \A j \in DOMAIN lines : ExportSums(list, Export!ListValues, column)[j] \in Int
         /\ SumFunctionOnSet(ExportSums(list, Export!ListValues, column), DOMAIN lines)
              = SumFunctionOnSet(g, DOMAIN rows)
  <1> DEFINE D == DOMAIN rows
             K == DOMAIN lines
             S == {i \in D : rows[i].line \in K}
             f == ExportOfColumn(rows, column)
             sums == ExportSums(list, Export!ListValues, column)
             key == [i \in D |-> rows[i].line]
  <1>1. IsFiniteSet(D) /\ IsFiniteSet(K)
    <2>1. D = 1 .. Len(rows) /\ K = 1 .. Len(lines) /\ Len(rows) \in Int /\ Len(lines) \in Int /\ 1 \in Int
      OBVIOUS
    <2> QED BY <2>1, FS_Interval
  <1>2. \A i \in D : f[i] \in Int
    BY ExportListAmounts
  <1>3. \A j \in K : sums[j] = SumFunctionOnSet(f, {i \in S : key[i] = j})
    <2> SUFFICES ASSUME NEW j \in K PROVE sums[j] = SumFunctionOnSet(f, {i \in S : key[i] = j})
      OBVIOUS
    <2>1. {i \in S : key[i] = j} = {i \in D : rows[i].line = j}
      OBVIOUS
    <2>2. sums[j] = SumFunctionOnSet(f, {i \in D : rows[i].line = j})
      BY ExportListSums
    <2> QED BY <2>1, <2>2
  <1>4. \A i \in S : key[i] \in K /\ g[i] = f[i]
    OBVIOUS
  <1>5. \A i \in D \ S : g[i] = 0
    OBVIOUS
  <1>6. S \in SUBSET D
    OBVIOUS
  <1> HIDE DEF D, K, S, f, sums, key
  <1>7. IsFiniteSet(S) /\ (\A i \in S : f[i] \in Int)
    BY <1>1, <1>2, <1>6, FS_Subset
  <1>8. SumFunctionOnSet(sums, K) = SumFunctionOnSet(f, S)
    <2>1. SumsOfKeys(key, S, K, f, sums)
      BY <1>3, <1>4, <1>7 DEF SumsOfKeys
    <2> QED BY <1>1, <1>7, <2>1, SumByKey
  <1>9. SumFunctionOnSet(g, D) = SumFunctionOnSet(f, S)
    BY <1>1, <1>4, <1>5, <1>6, <1>7, SumAmongZeros
  <1>10. \A j \in K : sums[j] \in Int
    <2> SUFFICES ASSUME NEW j \in K PROVE sums[j] \in Int
      OBVIOUS
    <2> DEFINE P == {i \in S : key[i] = j}
    <2>1. P \subseteq S
      OBVIOUS
    <2>2. sums[j] = SumFunctionOnSet(f, P)
      BY <1>3
    <2> HIDE DEF P
    <2>3. IsFiniteSet(P) /\ \A i \in P : f[i] \in Int
      BY <1>7, <2>1, FS_Subset
    <2> QED BY <2>2, <2>3, SumType
  <1> QED BY <1>8, <1>9, <1>10 DEF D, K, sums

\* The total of the list.
LEMMA ExportListTotalIs ==
  ASSUME NEW rows, rows \in Seq(ExportRow), rows = Export!ExpenseRows
  PROVE  Export!Worth(Export!ListValues, <<5, Len(rows) + 2>>) = SumFunctionOnSet(ExportPaid(rows), DOMAIN rows)
  <1> DEFINE n == Len(rows)
             T == ExportListTotal(rows)
             last == T - 1
             sheet == Export!ExpenseSheet
             W(r) == Export!Worth(Export!ListValues, <<5, r>>)
             empty == <<>>
             f == ExportPaid(rows)
  <1>1. n \in Nat /\ DOMAIN rows = 1 .. n /\ T = n + 2 /\ last = n + 1
    BY DEF ExportListTotal
  <1>2. ExportEvaluates(sheet, Export!ListValues, empty, empty)
    BY ExportListEvaluates
  <1>3. ExportListSum(rows) \in sheet
    <2> DEFINE A == {Export!Num(5, k + 1, rows[k].amount) : k \in DOMAIN rows}
               B == {Export!Num(9, k + 1, rows[k].line) : k \in DOMAIN rows}
               C == UNION {ExportListRated(rows, k) : k \in {k \in DOMAIN rows : rows[k].rate # 0}}
               D == {ExportListSum(rows)}
               E == {ExportListConverted(rows) : y \in {k \in DOMAIN rows : rows[k].rate # 0}}
    <2>1. ExportListSheet(rows) = A \cup B \cup D \cup E \cup C
      BY DEF ExportListSheet
    <2>2. ExportListSum(rows) \in D
      OBVIOUS
    <2> HIDE DEF A, B, C, D, E
    <2> QED BY <2>1, <2>2, ExportListParts
  <1>4. \A i \in 1 .. n : W(i + 1) = f[i] /\ f[i] \in Int
    BY <1>1, ExportListAmounts DEF ExportOfColumn
  <1> HIDE DEF n, T, sheet, W, empty, f, last
  <1>5. CASE rows = <<>>
    <2>1. Export!Num(5, T, 0) \in sheet
      BY <1>3, <1>5 DEF ExportListSum, T
    <2>2. W(T) = 0
      BY <1>2, <2>1, ExportWorth DEF W
    <2>3. SumFunctionOnSet(f, DOMAIN rows) = 0
      <3>1. DOMAIN rows = {}
        BY <1>5
      <3> QED BY <3>1, SumEmpty
    <2> QED BY <1>1, <2>2, <2>3 DEF W, n, f
  <1>6. CASE rows # <<>>
    <2> DEFINE S == 2 .. last
               h == [r \in S |-> r - 1]
               g == [r \in S |-> W(r)]
    <2>1. Export!Sum(5, T, 2, last) \in sheet
      BY <1>3, <1>6 DEF ExportListSum, T, last
    <2>2. W(T) = SumFunctionOnSet(g, S)
      <3>1. Export!Worth(Export!ListValues, <<5, T>>)
              = SumFunctionOnSet([q \in 2 .. last |-> Export!Worth(Export!ListValues, <<5, q>>)], 2 .. last)
        BY <1>2, <2>1, ExportWorth
      <3> QED BY <3>1 DEF W
    <2>3. \A r \in S : h[r] = r - 1 /\ h[r] \in 1 .. n /\ h[r] + 1 = r /\ r \in Int
      BY <1>1
    <2>4. \A r \in S : g[r] = f[h[r]]
      <3> SUFFICES ASSUME NEW r \in S PROVE g[r] = f[h[r]]
        OBVIOUS
      <3>1. W(h[r] + 1) = f[h[r]]
        BY <1>4, <2>3
      <3>2. h[r] + 1 = r
        BY <2>3
      <3> QED BY <3>1, <3>2
    <2>5. \A i \in 1 .. n : f[i] \in Int /\ \E r \in S : h[r] = i
      <3> SUFFICES ASSUME NEW i \in 1 .. n PROVE f[i] \in Int /\ \E r \in S : h[r] = i
        OBVIOUS
      <3>1. i + 1 \in S /\ h[i + 1] = i
        BY <1>1
      <3> QED BY <1>4, <3>1
    <2>6. \A r, s \in S : h[r] = h[s] => r = s
      <3> HIDE DEF h, S
      <3> QED BY <2>3
    <2>7. IsFiniteSet(S)
      <3>1. 2 \in Int /\ last \in Int
        BY <1>1
      <3> QED BY <3>1, FS_Interval
    <2> DEFINE U == 1 .. n
    <2> HIDE DEF h, S, g, U
    <2>8. Renames(h, S, U, f, g)
      BY <2>3, <2>4, <2>5, <2>6 DEF Renames, U
    <2>9. SumFunctionOnSet(g, S) = SumFunctionOnSet(f, U)
      BY <2>7, <2>8, SumRenamed
    <2> QED BY <1>1, <2>2, <2>9 DEF W, n, U, f
  <1> QED BY <1>5, <1>6

\* What the list adds up to: all expenses, and line by line those of the lines that were read.
LEMMA ExportListAddsUp ==
  ASSUME Export!ExportAssumption, expenses \in Seq(ExportExpense), lines \in Seq(ExportLine), rate \in Nat,
         NEW rows, rows = Export!ExpenseRows, NEW list, list = Export!Indexed(Export!ExpenseSheet)
  PROVE  /\ rows \in Seq(ExportRow)
         /\ ExportListed(list, Export!ListValues)
         /\ Export!Worth(Export!ListValues, <<5, Len(rows) + 2>>)
              = Export!Total([i \in DOMAIN expenses |-> expenses[i].amount])
         /\ SumFunctionOnSet(ExportSums(list, Export!ListValues, 5), DOMAIN lines)
              = Export!Total([i \in DOMAIN expenses |->
                                IF expenses[i].line \in DOMAIN lines THEN expenses[i].amount ELSE 0])
         /\ SumFunctionOnSet(ExportSums(list, Export!ListValues, 6), DOMAIN lines)
              = Export!Total([i \in DOMAIN rows |-> IF rows[i].line \in DOMAIN lines /\ rows[i].rate # 0
                                                  THEN rows[i].amount \div rows[i].rate ELSE 0])
  <1> DEFINE K == DOMAIN lines
             values == Export!ListValues
             all == [i \in DOMAIN expenses |-> expenses[i].amount]
             spent == [i \in DOMAIN expenses |-> IF expenses[i].line \in K THEN expenses[i].amount ELSE 0]
             donor == [i \in DOMAIN rows |-> IF rows[i].line \in K /\ rows[i].rate # 0
                                             THEN rows[i].amount \div rows[i].rate ELSE 0]
  <1>1. rows \in Seq(ExportRow) /\ \A A : ExportCount(rows, A) = SumFunctionOnSet(ExportCharged(A), DOMAIN expenses)
    BY ExportRowsAddUp
  <1>2. Export!Worth(values, <<5, Len(rows) + 2>>) = Export!Total(all)
    <2>1. Export!Worth(values, <<5, Len(rows) + 2>>) = SumFunctionOnSet(ExportPaid(rows), DOMAIN rows)
      BY <1>1, ExportListTotalIs
    <2>2. ExportCounted(rows, Nat) = ExportPaid(rows)
      <3>1. \A i \in DOMAIN rows : rows[i] \in ExportRow
        BY <1>1
      <3>2. \A i \in DOMAIN rows : rows[i].line \in Nat
        BY <3>1 DEF ExportRow
      <3> QED BY <3>2 DEF ExportCounted, ExportPaid
    <2>3. ExportCharged(Nat) = all
      <3>1. \A i \in DOMAIN expenses : expenses[i] \in ExportExpense
        OBVIOUS
      <3>2. \A i \in DOMAIN expenses : expenses[i].line \in Nat
        BY <3>1 DEF ExportExpense
      <3> QED BY <3>2 DEF ExportCharged
    <2>4. DOMAIN all = DOMAIN expenses
      OBVIOUS
    <2> HIDE DEF all
    <2>5. Export!Total(all) = SumFunctionOnSet(all, DOMAIN expenses)
      BY <2>4, ExportTotal
    <2>6. ExportCount(rows, Nat) = SumFunctionOnSet(ExportCharged(Nat), DOMAIN expenses)
      BY <1>1
    <2> QED BY <2>1, <2>2, <2>3, <2>5, <2>6 DEF ExportCount
  <1>3. /\ \A j \in K : ExportSums(list, values, 5)[j] \in Int
        /\ SumFunctionOnSet(ExportSums(list, values, 5), K) = Export!Total(spent)
    <2> DEFINE g == ExportCounted(rows, K)
    <2>1. \A i \in DOMAIN rows : g[i] = IF rows[i].line \in K THEN ExportOfColumn(rows, 5)[i] ELSE 0
      BY DEF ExportCounted, ExportOfColumn, ExportPaid
    <2>2. ExportCharged(K) = spent
      BY DEF ExportCharged
    <2>3. DOMAIN spent = DOMAIN expenses
      OBVIOUS
    <2>4. SumFunctionOnSet(g, DOMAIN rows) = SumFunctionOnSet(ExportCharged(K), DOMAIN expenses)
      BY <1>1 DEF ExportCount
    <2> HIDE DEF spent, g
    <2>5. Export!Total(spent) = SumFunctionOnSet(spent, DOMAIN expenses)
      BY <2>3, ExportTotal
    <2>6. /\ \A j \in K : ExportSums(list, values, 5)[j] \in Int
          /\ SumFunctionOnSet(ExportSums(list, values, 5), K) = SumFunctionOnSet(g, DOMAIN rows)
      BY <1>1, <2>1, ExportListBoth
    <2> QED BY <2>2, <2>4, <2>5, <2>6
  <1>4. /\ \A j \in K : ExportSums(list, values, 6)[j] \in Int
        /\ SumFunctionOnSet(ExportSums(list, values, 6), K) = Export!Total(donor)
    <2>1. \A i \in DOMAIN rows : donor[i] = IF rows[i].line \in K THEN ExportOfColumn(rows, 6)[i] ELSE 0
      BY DEF ExportOfColumn, ExportDonor
    <2>2. DOMAIN donor = DOMAIN rows
      OBVIOUS
    <2> HIDE DEF donor
    <2>3. Export!Total(donor) = SumFunctionOnSet(donor, DOMAIN rows)
      BY <2>2, ExportTotal
    <2>4. /\ \A j \in K : ExportSums(list, values, 6)[j] \in Int
          /\ SumFunctionOnSet(ExportSums(list, values, 6), K) = SumFunctionOnSet(donor, DOMAIN rows)
      BY <1>1, <2>1, ExportListBoth
    <2> QED BY <2>3, <2>4
  <1> HIDE DEF all, spent, donor
  <1>5. ExportListed(list, values)
    BY <1>3, <1>4 DEF ExportListed
  <1> HIDE DEF values, K
  <1> QED BY <1>1, <1>2, <1>3, <1>4, <1>5 DEF all, spent, donor, values, K

\* What was read of the tables.
ExportInv ==
  /\ pc \in {"budget", "lines", "expenses", "written"} /\ nCategories \in 0 .. MaxCategories
  /\ pc # "budget" => rate \in Rates
  /\ lines \in Seq(ExportLine) /\ expenses \in Seq(ExportExpense)
  /\ ExportFunds

\* It holds at the start.
LEMMA ExportInvInit ==
  ASSUME Export!ExportAssumption, Export!Init PROVE ExportInv
  BY DEF Export!ExportAssumption, Export!Init, ExportInv, ExportFunds

\* Every step of an export keeps it.
LEMMA ExportInvStep ==
  ASSUME Export!ExportAssumption, ExportInv, [Export!Next]_(Export!exportVars)
  PROVE  ExportInv'
  <1>1. CASE UNCHANGED Export!exportVars
    BY <1>1 DEF Export!exportVars, ExportInv, ExportFunds
  <1>2. CASE Export!ReadBudget
    BY <1>2 DEF Export!ReadBudget, Export!Read, ExportInv, ExportFunds
  <1>3. CASE Export!ReadLine
    <2>1. PICK c \in 0 .. MaxCategories, a \in Prices : lines' = Append(lines, [category |-> c, amount |-> a])
      BY <1>3 DEF Export!ReadLine
    <2>2. lines \in Seq(ExportLine)
      BY DEF ExportInv
    <2>3. [category |-> c, amount |-> a] \in ExportLine
      BY DEF ExportLine
    <2>4. lines' \in Seq(ExportLine)
      BY <2>1, <2>2, <2>3
    <2> QED BY <1>3, <2>4 DEF Export!ReadLine, ExportInv, ExportFunds
  <1>4. CASE Export!ReadLedger
    <2>1. received' \in Seq(Int)
      BY <1>4 DEF Export!ReadLedger, Export!ExportAssumption
    <2>2. PICK n \in 0 .. Len(received') : converted' = SubSeq(received', 1, n)
      BY <1>4 DEF Export!ReadLedger
    <2> DEFINE r == received'
               s == SubSeq(r, 1, n)
    <2>3. s \in Seq(Int) /\ (r = <<>> => s = <<>>)
      <3>1. r \in Seq(Int) /\ n \in 0 .. Len(r)
        BY <2>1, <2>2
      <3> HIDE DEF r
      <3>2. s = [i \in 1 .. n |-> r[i]] /\ \A i \in 1 .. n : r[i] \in Int
        BY <3>1
      <3>3. n \in Nat /\ (r = <<>> => n = 0)
        BY <3>1
      <3> QED BY <3>2, <3>3
    <2>4. ExportFunds'
      BY <2>1, <2>2, <2>3 DEF ExportFunds
    <2> QED BY <1>4, <2>4 DEF Export!ReadLedger, Export!Read, ExportInv
  <1>5. CASE Export!ReadExpense
    <2>1. PICK l \in 1 .. Len(lines) + 1, a \in Amounts, s \in Allocations :
            expenses' = Append(expenses, [line |-> l, amount |-> a, allocations |-> s])
      BY <1>5 DEF Export!ReadExpense
    <2>2. l \in Nat \ {0} /\ expenses \in Seq(ExportExpense)
      BY DEF ExportInv
    <2>3. [line |-> l, amount |-> a, allocations |-> s] \in ExportExpense
      BY <2>2 DEF ExportExpense
    <2>4. expenses' \in Seq(ExportExpense)
      BY <2>1, <2>2, <2>3
    <2> QED BY <1>5, <2>4 DEF Export!ReadExpense, ExportInv, ExportFunds
  <1>6. CASE Export!Write
    BY <1>6 DEF Export!Write, Export!Read, ExportInv, ExportFunds
  <1> QED BY <1>1, <1>2, <1>3, <1>4, <1>5, <1>6 DEF Export!Next

\* It implies what the type invariant says, and that whatever was read is written without
\* overlaps and adds up.
LEMMA ExportInvImplies ==
  ASSUME Export!ExportAssumption, ExportInv
  PROVE  Export!TypeOK /\ Export!NoCellTwice /\ Export!LinesAddUp /\ Export!ExpensesAddUp
  <1>1. Export!TypeOK
    <2>1. Prices \subseteq Int
      BY DEF Export!ExportAssumption
    <2>2. \A j \in DOMAIN lines : lines[j] \in ExportLine
      BY DEF ExportInv
    <2>3. \A i \in DOMAIN expenses : expenses[i] \in ExportExpense
      BY DEF ExportInv
    <2> QED BY <2>1, <2>2, <2>3 DEF ExportInv, ExportLine, ExportExpense, Export!TypeOK
  <1>2. ASSUME pc = "written"
        PROVE  /\ ExportFunds /\ lines \in Seq(ExportLine) /\ expenses \in Seq(ExportExpense)
               /\ rate \in Rates /\ rate \in Nat /\ ExportParts(Export!Grouped)
    <2>1. rate \in Rates /\ ExportFunds /\ lines \in Seq(ExportLine) /\ expenses \in Seq(ExportExpense)
      BY <1>2 DEF ExportInv
    <2>2. rate \in Nat /\ MaxCategories \in Nat
      BY <2>1 DEF Export!ExportAssumption
    <2>3. nCategories \in 0 .. MaxCategories
      BY DEF ExportInv
    <2> QED BY <2>1, <2>2, <2>3, ExportGrouped
  <1> DEFINE groups == Export!Grouped
             rows == Export!ExpenseRows
             list == Export!Indexed(Export!ExpenseSheet)
             amounts == Export!ListValues
             dashboard == Export!DashboardValues(groups)
             sheet == Export!DashboardSheet(groups)
             D(c, r) == Export!Worth(dashboard, <<c, r>>)
             donor == Export!Total([i \in DOMAIN rows |-> IF rows[i].line \in DOMAIN lines /\ rows[i].rate # 0
                                                         THEN rows[i].amount \div rows[i].rate ELSE 0])
             spent == Export!Total([i \in DOMAIN expenses |->
                                      IF expenses[i].line \in DOMAIN lines THEN expenses[i].amount ELSE 0])
  <1>3. ASSUME pc = "written"
        PROVE  /\ rows \in Seq(ExportRow) /\ ExportListed(list, amounts)
               /\ Export!Worth(amounts, <<5, Len(rows) + 2>>)
                    = Export!Total([i \in DOMAIN expenses |-> expenses[i].amount])
               /\ SumFunctionOnSet(ExportSums(list, amounts, 5), DOMAIN lines) = spent
               /\ SumFunctionOnSet(ExportSums(list, amounts, 6), DOMAIN lines) = donor
    BY <1>2, <1>3, ExportListAddsUp
  <1>4. ASSUME pc = "written"
        PROVE  /\ \A x, y \in sheet : <<x.col, x.row>> = <<y.col, y.row>> => x = y
               /\ ExportEvaluates(sheet, dashboard, list, amounts)
    <2>1. dashboard = Export!Values(Export!Indexed(sheet), list, amounts)
      BY DEF Export!DashboardValues
    <2> HIDE DEF list, amounts, dashboard
    <2> QED BY <1>2, <1>4, <2>1, ExportDashboardEvaluates
  <1> HIDE DEF rows, list, amounts, dashboard, donor, spent
  <1>5. ASSUME pc = "written"
        PROVE  LET T == Export!DashboardTotal(groups) IN
               /\ D(3, T) = ExportPlannedSum /\ D(4, T) = spent
               /\ D(3, Export!LedgerTotal) = D(2, 12)
               /\ rate # 0 =>
                    /\ D(2, T) = ExportPlannedSum \div rate /\ D(2, 8) = ExportPlannedSum \div rate
                    /\ D(5, T) = donor /\ D(6, T) = D(2, T) - donor
                    /\ Export!Worth(dashboard, Export!RefundCell(groups)) = Export!Total(received) - donor
    <2> HIDE DEF groups, D
    <2>1. ExportParts(groups)
      BY <1>2, <1>5 DEF groups
    <2> DEFINE T == Export!DashboardTotal(groups)
               refund == Export!Worth(dashboard, Export!RefundCell(groups))
               spends == SumFunctionOnSet(ExportSums(list, amounts, 5), DOMAIN lines)
               converts == SumFunctionOnSet(ExportSums(list, amounts, 6), DOMAIN lines)
    <2>2. spends = spent /\ converts = donor
      BY <1>3, <1>5
    <2>3. /\ D(3, T) = ExportPlannedSum /\ D(4, T) = spends
          /\ D(3, Export!LedgerTotal) = D(2, 12)
          /\ rate # 0 =>
               /\ D(2, T) = ExportPlannedSum \div rate /\ D(2, 8) = ExportPlannedSum \div rate
               /\ D(5, T) = converts /\ D(6, T) = D(2, T) - converts
               /\ refund = Export!Total(received) - converts
      <3>1. ExportListed(list, amounts) /\ ExportEvaluates(sheet, dashboard, list, amounts)
        BY <1>3, <1>4, <1>5
      <3>2. ExportFunds /\ lines \in Seq(ExportLine) /\ rate \in Rates
        BY <1>2, <1>5
      <3>3. sheet = Export!DashboardSheet(groups)
        OBVIOUS
      <3> HIDE DEF sheet
      <3>4. ExportDashboardAdded(groups, list, amounts, dashboard)
        BY <2>1, <3>1, <3>2, <3>3, ExportDashboardAddsUp
      <3> QED BY <3>4 DEF ExportDashboardAdded, D
    <2> HIDE DEF spends, converts
    <2> QED BY <2>2, <2>3
  <1>6. Export!NoCellTwice
    <2> SUFFICES ASSUME pc = "written",
                        NEW s \in {Export!OriginalSheet(groups), sheet, Export!ExpenseSheet}
                 PROVE  \A x, y \in s : <<x.col, x.row>> = <<y.col, y.row>> => x = y
      BY DEF Export!NoCellTwice
    <2>1. CASE s = Export!OriginalSheet(groups)
      <3> HIDE DEF groups
      <3>1. ExportParts(groups)
        BY <1>2 DEF groups
      <3> QED BY <1>2, <2>1, <3>1, ExportOriginalAddsUp
    <2>2. CASE s = sheet
      BY <1>4, <2>2
    <2>3. CASE s = Export!ExpenseSheet
      BY <1>3, <2>3, ExportListEvaluates DEF rows
    <2> QED BY <2>1, <2>2, <2>3
  <1>7. Export!LinesAddUp
    <2> SUFFICES ASSUME pc = "written" PROVE Export!LinesAddUp
      BY DEF Export!LinesAddUp
    <2> DEFINE original == Export!OriginalValues(groups)
               O(c, r) == Export!Worth(original, <<c, r>>)
               planned == Export!Total([j \in DOMAIN lines |-> lines[j].amount])
    <2>1. planned = ExportPlannedSum
      BY <1>2, ExportAmountsAddUp
    <2>2. /\ O(3, Export!OriginalTotal(groups)) = ExportPlannedSum
          /\ O(3, Export!OriginalDetail(groups) - 2) = ExportPlannedSum
          /\ rate # 0 => /\ O(4, Export!OriginalTotal(groups)) = ExportPlannedSum \div rate
                         /\ O(4, Export!OriginalDetail(groups) - 2) = ExportPlannedSum \div rate
      <3> HIDE DEF groups
      <3>1. ExportParts(groups)
        BY <1>2 DEF groups
      <3> QED BY <1>2, <3>1, ExportOriginalAddsUp
    <2> HIDE DEF planned
    <2> QED BY <1>5, <2>1, <2>2 DEF Export!LinesAddUp, Export!ConvertedCell, planned, dashboard
  <1>8. Export!ExpensesAddUp
    <2> SUFFICES ASSUME pc = "written" PROVE Export!ExpensesAddUp
      BY DEF Export!ExpensesAddUp
    <2>1. <<Export!RefundCell(groups)[1], Export!RefundCell(groups)[2]>> = Export!RefundCell(groups)
      BY DEF Export!RefundCell
    <2> QED BY <1>3, <1>5, <2>1 DEF Export!ExpensesAddUp, dashboard, rows, amounts, donor, spent
  <1> QED BY <1>1, <1>6, <1>7, <1>8
-----------------------------------------------------------------------------
(* The four parts of the instance.                                         *)

\* The inductive invariant: that of the part the behaviour is of.
FilesInv ==
  /\ part = "export" => ExportInv
  /\ part = "import" => ImportInv
  /\ part = "limits" => LimitsInv
  /\ part = "flow" => FlowInv

\* A step is one of the part the behaviour is of, which stays the same.
LEMMA StepsAreOfOnePart ==
  ASSUME [Next]_vars
  PROVE  /\ part' = part
         /\ part = "export" => [Export!Next]_(Export!exportVars)
         /\ part = "import" => [Import!Next]_(Import!importVars)
         /\ part = "limits" => [Limits!Next]_(Limits!limitVars)
         /\ part = "flow" => [Flow!Next]_(Flow!flowVars)
  <1> DEFINE StepOf == /\ part' = part
                       /\ part = "export" => [Export!Next]_(Export!exportVars)
                       /\ part = "import" => [Import!Next]_(Import!importVars)
                       /\ part = "limits" => [Limits!Next]_(Limits!limitVars)
                       /\ part = "flow" => [Flow!Next]_(Flow!flowVars)
             ExportMove ==
               \/ Export!ReadBudget \/ Export!ReadLine \/ Export!ReadLedger \/ Export!ReadExpense \/ Export!Write
             ImportMove ==
               \/ \E u \in Uploads, s \in Sheets : Import!Prepare(u, s)
               \/ \E u \in Uploads : Import!Extract(u) \/ Import!Create(u) \/ Import!EditLine(u)
               \/ \E w \in Savers, u \in Uploads : Import!ReadBudget(w, u)
               \/ \E w \in Savers : Import!SaveTemplate(w) \/ Import!NameTemplate(w)
             LimitsMove == Limits!AddMember \/ Limits!AddElement \/ Limits!Check
             FlowMove ==
               \/ \E t \in Trees : Flow!EditTasks(t) \/ Flow!Branch(t) \/ Flow!Finish(t) \/ Flow!StartSync(t)
               \/ \E t \in Trees, i \in 1 .. Cardinality(Groups) : Flow!StartGroup(t, i)
               \/ Flow!CreateParent \/ Flow!NameParent
               \/ Flow!LinkRecorded \/ Flow!TakeMatched \/ Flow!CreateIssue \/ Flow!RecordIssue
               \/ Flow!LinkIssue \/ Flow!BoardIssue \/ Flow!WriteTasks \/ Flow!EndSync \/ Flow!Die
  <1>1. \/ UNCHANGED vars
        \/ InExport /\ ExportMove /\ ExportOnly
        \/ InImport /\ ImportMove /\ ImportOnly
        \/ InLimits /\ LimitsMove /\ LimitsOnly
        \/ InFlow /\ FlowMove /\ FlowOnly
    BY DEF Next
  <1>2. ExportMove => Export!Next
    BY DEF Export!Next
  <1>3. ImportMove => Import!Next
    BY DEF Import!Next
  <1>4. LimitsMove => Limits!Next
    BY DEF Limits!Next
  <1>5. FlowMove => Flow!Next
    <2>1. Flow!Cardinality(Groups) = Cardinality(Groups)
      BY Zenon DEF Flow!Cardinality, Cardinality, Flow!IsFiniteSet, IsFiniteSet
    <2> QED BY <2>1 DEF Flow!Next
  <1> HIDE DEF ExportMove, ImportMove, LimitsMove, FlowMove
  <1>6. ASSUME UNCHANGED vars
        PROVE  StepOf
    BY <1>6 DEF vars, exportVars, importVars, limitVars, flowVars, Export!exportVars,
                Import!importVars, Limits!limitVars, Flow!flowVars
  <1>7. ASSUME InExport /\ ExportMove /\ ExportOnly
        PROVE  StepOf
    BY <1>2, <1>7 DEF InExport, ExportOnly
  <1>8. ASSUME InImport /\ ImportMove /\ ImportOnly
        PROVE  StepOf
    BY <1>3, <1>8 DEF InImport, ImportOnly
  <1>9. ASSUME InLimits /\ LimitsMove /\ LimitsOnly
        PROVE  StepOf
    BY <1>4, <1>9 DEF InLimits, LimitsOnly
  <1>10. ASSUME InFlow /\ FlowMove /\ FlowOnly
         PROVE  StepOf
    BY <1>5, <1>10 DEF InFlow, FlowOnly
  <1> QED BY <1>1, <1>6, <1>7, <1>8, <1>9, <1>10

\* The invariant holds in every reachable state.
LEMMA FilesInvariance == Spec => []FilesInv
  <1> USE PartsAssumption
  <1>1. Init => FilesInv
    <2> SUFFICES ASSUME Init PROVE FilesInv
      OBVIOUS
    <2>1. part = "export" => ExportInv
      BY ExportInvInit DEF Init
    <2>2. part = "import" => ImportInv
      BY ImportInvInit DEF Init
    <2>3. part = "limits" => LimitsInv
      BY LimitsInvInit DEF Init
    <2>4. part = "flow" => FlowInv
      BY FlowInvInit DEF Init
    <2> QED BY <2>1, <2>2, <2>3, <2>4 DEF FilesInv
  <1>2. FilesInv /\ [Next]_vars => FilesInv'
    <2> SUFFICES ASSUME FilesInv, [Next]_vars PROVE FilesInv'
      OBVIOUS
    <2>1. part' = part
      BY StepsAreOfOnePart
    <2>2. part = "export" => ExportInv'
      BY StepsAreOfOnePart, ExportInvStep DEF FilesInv
    <2>3. part = "import" => ImportInv'
      BY StepsAreOfOnePart, ImportInvStep DEF FilesInv
    <2>4. part = "limits" => LimitsInv'
      BY StepsAreOfOnePart, LimitsInvStep DEF FilesInv
    <2>5. part = "flow" => FlowInv'
      BY StepsAreOfOnePart, FlowInvStep DEF FilesInv
    <2> QED BY <2>1, <2>2, <2>3, <2>4, <2>5 DEF FilesInv
  <1> QED BY <1>1, <1>2, PTL DEF Spec
-----------------------------------------------------------------------------
(* The modules by themselves.                                              *)

\* ExcelImport by itself: however uploads, edits and requests to save interleave, a template
\* does what the import it was saved from did.
THEOREM ExcelImportCorrect ==
  ASSUME Import!ImportAssumption
  PROVE  Import!Spec => [](Import!TypeOK /\ Import!ReplayAgrees)
  <1>1. Import!Init => ImportInv
    BY ImportInvInit
  <1>2. ImportInv /\ [Import!Next]_(Import!importVars) => ImportInv'
    BY ImportInvStep
  <1>3. ImportInv => Import!TypeOK /\ Import!ReplayAgrees
    BY ImportInvImplies
  <1> QED BY <1>1, <1>2, <1>3, PTL DEF Import!Spec

\* ExcelExport by itself: whatever is read between the edits of others, no cell is planned
\* twice, and the totals of lines and of expenses add up in both currencies.
THEOREM ExcelExportCorrect ==
  ASSUME Export!ExportAssumption
  PROVE  Export!Spec => [](Export!TypeOK /\ Export!NoCellTwice /\ Export!LinesAddUp /\ Export!ExpensesAddUp)
  <1>1. Export!Init => ExportInv
    BY ExportInvInit
  <1>2. ExportInv /\ [Export!Next]_(Export!exportVars) => ExportInv'
    BY ExportInvStep
  <1>3. ExportInv => Export!TypeOK /\ Export!NoCellTwice /\ Export!LinesAddUp /\ Export!ExpensesAddUp
    BY ExportInvImplies
  <1> QED BY <1>1, <1>2, <1>3, PTL DEF Export!Spec

\* WorkbookLimits by itself: whatever its members and the rows, cells and merged ranges of its
\* sheet, a workbook that is let through is within the limits.
THEOREM WorkbookLimitsCorrect ==
  ASSUME Limits!LimitsAssumption
  PROVE  Limits!Spec => [](Limits!TypeOK /\ Limits!ReadIsBounded)
  <1>1. Limits!Init => LimitsInv
    BY LimitsInvInit
  <1>2. LimitsInv /\ [Limits!Next]_(Limits!limitVars) => LimitsInv'
    BY LimitsInvStep
  <1>3. LimitsInv => Limits!TypeOK /\ Limits!ReadIsBounded
    BY LimitsInvImplies
  <1> QED BY <1>1, <1>2, <1>3, PTL DEF Limits!Spec

\* FlowTool by itself: a command that ends leaves every group a sub-issue of its own.
THEOREM FlowToolCorrect ==
  ASSUME Flow!FlowAssumption
  PROVE  Flow!Spec => [](Flow!TypeOK /\ Flow!Tracked)
  <1>1. Flow!Init => FlowInv
    BY FlowInvInit
  <1>2. FlowInv /\ [Flow!Next]_(Flow!flowVars) => FlowInv'
    BY FlowInvStep
  <1>3. FlowInv => Flow!TypeOK /\ Flow!Tracked
    BY FlowInvImplies
  <1> QED BY <1>1, <1>2, <1>3, PTL DEF Flow!Spec
-----------------------------------------------------------------------------
(* The properties of the instance.                                         *)

\* What is read for an export, what imports, their budgets, templates and requests hold, what
\* a workbook declares, and the issues, files and branches of the tool are what the type
\* invariants of the modules say, for any number of them.
THEOREM FilesTypeCorrect == Spec => []TypeOK
  <1>1. FilesInv => TypeOK
    BY PartsAssumption, ExportInvImplies, ImportInvImplies, LimitsInvImplies, FlowInvImplies
       DEF FilesInv, TypeOK
  <1> QED BY <1>1, FilesInvariance, PTL

\* A workbook has no cell twice and its totals add up, for any number of categories, lines,
\* expenses and lots, whatever was created while the tables were read: all three sheets show
\* the same sum of the lines, and the dashboard, the list and the refund the same expenses, in
\* both currencies (_plan_rows, _plan and the sheets of excel_export_service.py).
THEOREM ExportsAddUp == Spec => []TotalsAddUp
  <1>1. FilesInv => TotalsAddUp
    BY PartsAssumption, ExportInvImplies DEF FilesInv, TotalsAddUp
  <1> QED BY <1>1, FilesInvariance, PTL

\* A template replayed on the sheet it was saved from makes the amounts of that import, for
\* sheets of any length, whichever way round the model had labelled the columns and whatever
\* was edited, or saved by others, in between (_amount_column, _extract_via_template).
THEOREM ReplaysAgree == Spec => []ReplayAgrees
  <1>1. FilesInv => ReplayAgrees
    BY PartsAssumption, ImportInvImplies DEF FilesInv, ReplayAgrees
  <1> QED BY <1>1, FilesInvariance, PTL

\* A sheet that the check lets through has, as the reader sees it, no row, column or number of
\* cells beyond the limits, however its rows and cells state their places and its ranges are
\* written (check_workbook_limits, whose one pass over the elements is _check_sheet_extents).
THEOREM ReadsBounded == Spec => []ReadIsBounded
  <1>1. FilesInv => ReadIsBounded
    BY PartsAssumption, LimitsInvImplies DEF FilesInv, ReadIsBounded
  <1> QED BY <1>1, FilesInvariance, PTL

\* When sync is done every group of tasks.md has a linked sub-issue of its own, however many
\* commands died on the way, in whichever checkouts (flow.py).
THEOREM SyncsTrack == Spec => []Tracked
  <1>1. FilesInv => Tracked
    BY FlowInvImplies DEF FilesInv, Tracked
  <1> QED BY <1>1, FilesInvariance, PTL
=============================================================================

-------------------------- MODULE Delivery_proofs --------------------------
(* Theorems about Delivery, for any set of channels and of jobs, and any      *)
(* number of slots, attempts, stalls, crashes and errors.                     *)
EXTENDS Delivery, FiniteSetTheorems, TLAPS

\* The points of a job that has a row, and those where the row is not settled.
WithRow == {"send", "stamp", "settle", "column", "catch"}
Unsettled == {"send", "stamp", "settle"}

\* Where a job stands.
Placed(t) ==
    /\ task[t].at \in FanPC => task[t].kind = "fan"
    /\ task[t].at \in ChannelPC => task[t].kind = "channel"
    /\ task[t].at \notin FanPC \cup {"free"} => t \in Jobs
    /\ task[t].at = "stalled" => crashes > 0
    /\ task[t].at = "free" => task[t] = NoTask
    /\ task[t].at # "add" => task[t].left = {}

\* A job and its row.
Owner(t) ==
    LET v == task[t] IN
    /\ v.row # 0 <=> v.at \in WithRow
    /\ v.row # 0 => v.row \in DOMAIN rows /\ rows[v.row].ch = v.ch
    /\ v.at = "send" => ~rows[v.row].taken
    /\ v.at \in Unsettled => rows[v.row].status = "pending"
    /\ v.at = "column" => rows[v.row].status # "pending"

Delivered(c) == c = InApp \/ sends[c] > 0

\* What the answer that a job has got is worth.
Told(t) ==
    LET v == task[t] IN
    /\ v.at = "stamp" => v.ok
    /\ v.at \in {"stamp", "settle", "column"} /\ v.ok =>
         (rows[v.row].taken \/ v.ch = InApp) /\ Delivered(v.ch)
    /\ v.at \in {"settle", "column"} /\ ~v.ok /\ rows[v.row].taken => faults > 0
    /\ v.at = "catch" => faults > 0 \/ (~rows[v.row].taken /\ v.ch = Sms)
    /\ \A c \in Channels : v.base[c] = "sent" => Delivered(c)

Apart == \A i, j \in Tasks : task[i].row = task[j].row /\ i # j => task[i].row = 0

\* After its message no job has another one to send.
LateOnce ==
    \A t \in Tasks : /\ late[t] <= 1
                     /\ late[t] = 1 => gone /\ task[t].at \notin {"record", "send"}

Good(t) == Placed(t) /\ Owner(t) /\ Told(t)
ColumnOK == \A c \in Channels : column[c] = "sent" => Delivered(c)

Inv == /\ TypeOK
       /\ \A t \in Tasks : Good(t)
       /\ Apart
       /\ RowsTruthful
       /\ ColumnOK

\* Without errors and crashes each channel has one job and one row.
OneFan == \A t, u \in Tasks : task[t].kind = "fan" /\ task[u].kind = "fan" => t = u
FanFirst ==
    \A t \in Tasks : task[t].kind = "fan" /\ task[t].at # "add" =>
        Len(rows) = 0 /\ \A j \in Tasks : task[j].kind # "channel"
Fresh ==
    \A t \in Tasks : task[t].kind = "fan" => \A c \in task[t].left :
        /\ \A j \in Tasks : task[j].kind = "channel" => task[j].ch # c
        /\ \A i \in DOMAIN rows : rows[i].ch # c
OneJob ==
    \A i, j \in Tasks :
        task[i].kind = "channel" /\ task[j].kind = "channel" /\ task[i].ch = task[j].ch
          => i = j
OwnRow ==
    \A j \in Tasks, i \in DOMAIN rows :
        task[j].kind = "channel" /\ rows[i].ch = task[j].ch => i = task[j].row
OneRow == \A i, k \in DOMAIN rows : rows[i].ch = rows[k].ch => i = k
Once == OneFan /\ FanFirst /\ Fresh /\ OneJob /\ OwnRow /\ OneRow

\* Without overlapping the one copy of the column is the column.
Current ==
    /\ \A i, j \in Holders : i = j
    /\ \A j \in Holders : task[j].base = column
    /\ \A j \in Tasks : task[j].at = "column" => rows[task[j].row].status = Verdict(j)

Shown ==
    \A i \in DOMAIN rows :
        rows[i].ch # Sms => column[rows[i].ch] = rows[i].status
                            \/ \E j \in Jobs : task[j].row = i

Quiet == "overlapped" \notin marks /\ faults = 0 /\ crashes = 0
QuietInv == Quiet => Once /\ Current /\ Shown

\* The rows that are pending and have no job.
Orphans ==
    {i \in DOMAIN rows : rows[i].status = "pending" /\ \A j \in Jobs : task[j].row # i}
Busy == {j \in Jobs : Running(j)}
OrphanInv == Cardinality(Busy) <= Slots /\ Cardinality(Orphans) <= faults + crashes * Slots

-----------------------------------------------------------------------------
(* Steps of one task leave the others as they are. *)

\* A step that changes no more than the tasks in T and their rows.
Frame(T) ==
    /\ task' \in [Tasks -> Task]
    /\ \A u \in Tasks \ T : task'[u] = task[u]
    /\ rows' \in Seq(Row)
    /\ Len(rows) <= Len(rows')
    /\ \A i \in DOMAIN rows : (\A t \in T : task[t].row # i) => rows'[i] = rows[i]
    /\ sends' \in [Channels -> Nat]
    /\ \A c \in Channels : sends[c] <= sends'[c]
    /\ faults' \in Nat /\ faults <= faults'
    /\ crashes' \in Nat /\ crashes <= crashes'

\* The types of the other variables.
Others ==
    /\ gone \in BOOLEAN
    /\ column \in [Channels -> Outcome]
    /\ late \in [Tasks -> Nat]
    /\ marks \subseteq {"overlapped", "gaveUp"}

LEMMA Kinds ==
    /\ NoTask \in Task /\ NoTask.row = 0 /\ NoTask.at = "free" /\ NoTask.base = Unread
    /\ NoTask.kind = "none" /\ NoTask.left = {}
    /\ \A k \in {"none", "fan", "channel"}, c \in Channels :
         /\ Job(k, c) \in Task /\ Job(k, c).row = 0 /\ Job(k, c).at = "waiting"
         /\ Job(k, c).base = Unread /\ Job(k, c).kind = k /\ Job(k, c).ch = c
         /\ Job(k, c).left = {}
  BY ChannelsAssumption, ZenonT(60)
     DEF NoTask, Job, Task, Unread, Outcome, FanPC, ChannelPC

LEMMA OthersGood ==
    ASSUME Inv, NEW T \in SUBSET Tasks, Frame(T), NEW u \in Tasks \ T
    PROVE  Good(u)'
<1>. DEFINE v == task[u]
<1>1. task'[u] = v /\ v \in Task /\ Good(u)
  BY DEF Inv, Frame, TypeOK
<1>2. ASSUME v.row # 0
      PROVE  v.row \in DOMAIN rows' /\ rows'[v.row] = rows[v.row]
  <2>1. v.row \in DOMAIN rows
    BY <1>1, <1>2 DEF Good, Owner
  <2>2. \A t \in T : task[t].row # v.row
    BY <1>2 DEF Inv, Apart
  <2>3. DOMAIN rows = 1 .. Len(rows) /\ DOMAIN rows' = 1 .. Len(rows')
        /\ Len(rows) \in Nat /\ Len(rows') \in Nat
    BY DEF Inv, TypeOK, Frame
  <2>. QED  BY <2>1, <2>2, <2>3, SMTT(30) DEF Frame
<1>3. \A c \in Channels : Delivered(c) => Delivered(c)'
  BY DEF Delivered, Frame, Inv, TypeOK
<1>4. faults > 0 => faults' > 0
  BY DEF Frame, Inv, TypeOK
<1>5. crashes > 0 => crashes' > 0
  BY DEF Frame, Inv, TypeOK
<1>6. Placed(u)'
  BY <1>1, <1>5 DEF Good, Placed
<1>7. Owner(u)'
  BY <1>1, <1>2 DEF Good, Owner, WithRow, Unsettled
<1>8. Told(u)'
  <2>1. v.ch \in Channels
    BY <1>1 DEF Task
  <2>2. v.at \in WithRow => v.row # 0
    BY <1>1 DEF Good, Owner
  <2>. QED  BY <1>1, <1>2, <1>3, <1>4, <2>1, <2>2 DEF Good, Told, WithRow
<1>. QED  BY <1>6, <1>7, <1>8 DEF Good

LEMMA Rowless ==
    ASSUME Inv, NEW T, Frame(T), NEW t \in Tasks, Placed(t)',
           task'[t].row = 0, task'[t].at \notin WithRow,
           task'[t].base \in {Unread, task[t].base, column}
    PROVE  Good(t)'
<1>1. \A c \in Channels : Delivered(c) => Delivered(c)'
  BY DEF Delivered, Frame, Inv, TypeOK
<1>2. \A c \in Channels : task'[t].base[c] = "sent" => Delivered(c)
  BY DEF Inv, Good, Told, ColumnOK, Unread
<1>. QED  BY <1>1, <1>2 DEF Good, Owner, Told, WithRow, Unsettled

LEMMA ApartStays ==
    ASSUME Inv, NEW T \in SUBSET Tasks, Frame(T),
           \A t \in T : task'[t].row \in {0, task[t].row}
    PROVE  Apart'
<1>1. \A t \in Tasks : task'[t].row \in {0, task[t].row}
  BY DEF Frame
<1>. QED  BY <1>1 DEF Inv, Apart

LEMMA ColumnStays ==
    ASSUME Inv, NEW T, Frame(T), column' = column
    PROVE  ColumnOK'
  BY DEF Inv, Frame, TypeOK, ColumnOK, Delivered

LEMMA RowsStay ==
    ASSUME Inv, NEW T, Frame(T), rows' = rows
    PROVE  RowsTruthful'
  BY DEF Inv, Frame, TypeOK, RowsTruthful

LEMMA Simple ==
    ASSUME Inv, NEW T \in SUBSET Tasks, Frame(T), rows' = rows, column' = column,
           Others',
           \A t \in T : /\ Placed(t)'
                        /\ task'[t].row = 0
                        /\ task'[t].at \notin WithRow
                        /\ task'[t].base \in {Unread, task[t].base, column}
    PROVE  Inv'
<1>1. TypeOK'
  BY DEF Frame, Others, TypeOK
<1>2. ASSUME NEW u \in Tasks
      PROVE  Good(u)'
  <2>1. CASE u \in T
    BY <2>1, Rowless
  <2>2. CASE u \notin T
    BY <2>2, OthersGood
  <2>. QED  BY <2>1, <2>2
<1>3. Apart'
  BY ApartStays
<1>. QED  BY <1>1, <1>2, <1>3, ColumnStays, RowsStay DEF Inv

\* Or: a task changes, or throws.
LEMMA OneTask ==
    ASSUME Inv, NEW t \in Tasks, NEW v \in Task, task' = [task EXCEPT ![t] = v],
           UNCHANGED <<rows, sends, crashes>>, faults' \in {faults, faults + 1}
    PROVE  Frame({t}) /\ task'[t] = v
  BY DEF Inv, TypeOK, Frame

LEMMA RetriedGood ==
    ASSUME Inv, NEW t \in Tasks
    PROVE  /\ Retried(t) \in Task
           /\ Retried(t).row = 0
           /\ Retried(t).base = Unread
           /\ Retried(t).left = {}
           /\ Retried(t).at \in {"free", "waiting"}
           /\ Retried(t).at = "waiting" => t \in Jobs /\ Retried(t).kind = task[t].kind
           /\ Retried(t).at = "free" => Retried(t) = NoTask
<1>1. task[t] \in Task
  BY DEF Inv, TypeOK
<1>2. CASE LastTry(t)
  BY <1>2, Kinds DEF Retried
<1>3. CASE ~LastTry(t)
  <2>1. PICK v \in Task : v = Job(task[t].kind, task[t].ch)
    BY <1>1, Kinds DEF Task
  <2>2. Retried(t) = [v EXCEPT !.tries = task[t].tries + 1, !.stalls = task[t].stalls]
    BY <1>3, <2>1 DEF Retried
  <2>3. t \in Jobs
    BY <1>3 DEF LastTry, Tasks
  <2>4. v.row = 0 /\ v.base = Unread /\ v.left = {} /\ v.at = "waiting" /\ v.kind = task[t].kind
    BY <1>1, <2>1, Kinds DEF Task
  <2>5. task[t].tries + 1 \in Nat /\ task[t].stalls \in Nat
    BY <1>1 DEF Task
  <2>6. Retried(t) \in Task
    BY <2>1, <2>2, <2>5 DEF Task
  <2>7. /\ Retried(t).row = 0 /\ Retried(t).base = Unread /\ Retried(t).left = {}
        /\ Retried(t).at = "waiting" /\ Retried(t).kind = task[t].kind
    BY <2>1, <2>2, <2>4 DEF Task
  <2>. QED  BY <2>3, <2>6, <2>7
<1>. QED  BY <1>2, <1>3

LEMMA MarksType ==
    ASSUME Inv, NEW m \in {"overlapped", "gaveUp"}, NEW P, Mark(m, P)
    PROVE  marks' \subseteq {"overlapped", "gaveUp"}
  BY DEF Inv, TypeOK, Mark

LEMMA ThrowStep ==
    ASSUME Inv, NEW t \in Tasks, Throw(t), faults' \in {faults, faults + 1},
           UNCHANGED <<gone, column, rows, sends, late, crashes>>
    PROVE  Inv'
<1>1. Frame({t}) /\ task'[t] = Retried(t)
  BY OneTask, RetriedGood DEF Throw
<1>2. Others'
  BY MarksType DEF Inv, TypeOK, Others, Throw
<1>3. Placed(t)'
  BY <1>1, RetriedGood DEF Placed, FanPC, ChannelPC
<1>. QED  BY <1>1, <1>2, <1>3, RetriedGood, Simple DEF WithRow

\* A task that neither has a row nor gets one.
LEMMA RowlessStep ==
    ASSUME Inv, NEW t \in Tasks, NEW v \in Task, task' = [task EXCEPT ![t] = v],
           v.row = 0, v.at \notin WithRow, v.base \in {Unread, task[t].base, column},
           v.at \in FanPC => v.kind = "fan",
           v.at \in ChannelPC => v.kind = "channel",
           v.at \notin FanPC \cup {"free"} => t \in Jobs,
           v.at # "stalled", v.at = "free" => v = NoTask, v.at # "add" => v.left = {},
           marks' \subseteq {"overlapped", "gaveUp"},
           UNCHANGED <<gone, column, rows, sends, late, crashes, faults>>
    PROVE  Inv'
<1>1. Frame({t}) /\ task'[t] = v
  BY OneTask
<1>2. Others'
  BY DEF Inv, TypeOK, Others
<1>3. Placed(t)'
  BY <1>1 DEF Placed
<1>. QED  BY <1>1, <1>2, <1>3, Simple

-----------------------------------------------------------------------------
(* The actions that leave the rows alone. *)

LEMMA RowlessActions ==
    ASSUME Inv, NEW t \in Tasks,
           \/ FindFan(t) \/ Prefs(t)
           \/ t \in Jobs /\ (BeginFan(t) \/ BeginChannel(t) \/ Load(t) \/ Recover(t))
    PROVE  Inv'
<1>1. task \in [Tasks -> Task] /\ task[t] \in Task /\ marks \subseteq {"overlapped", "gaveUp"}
  BY DEF Inv, TypeOK
<1>2. faults \in Nat /\ (Fault => faults' = faults + 1)
  BY DEF Inv, TypeOK, Fault
<1>3. Good(t)
  BY DEF Inv
<1>4. ASSUME Done(t), UNCHANGED <<gone, column, rows, sends, late, marks, crashes, faults>>
      PROVE  Inv'
  BY <1>1, <1>4, Kinds, RowlessStep DEF Done, FanPC, ChannelPC, WithRow
<1>5. CASE FindFan(t)
  <2>1. CASE GoTo(t, "prefs") /\ UNCHANGED <<rows, marks, faults>>
    <3>. DEFINE v == [task[t] EXCEPT !.at = "prefs"]
    <3>1. v \in Task /\ v.row = 0 /\ v.at = "prefs" /\ v.base = task[t].base /\ v.kind = "fan"
          /\ v.left = {}
      BY <1>1, <1>3, <1>5 DEF Task, FanPC, FindFan, Good, Owner, WithRow, Placed
    <3>2. task' = [task EXCEPT ![t] = v]
      BY <1>1, <2>1 DEF GoTo
    <3>. QED  BY <1>1, <1>5, <2>1, <3>1, <3>2, RowlessStep DEF FindFan, WithRow, FanPC, ChannelPC
  <2>. QED  BY <1>2, <1>4, <1>5, <2>1, ThrowStep DEF FindFan, Or
<1>6. CASE Prefs(t)
  <2>1. ASSUME NEW enabled \in SUBSET Channels, enabled # {},
               task' = [task EXCEPT ![t] = [@ EXCEPT !.at = "add", !.left = enabled]],
               UNCHANGED <<rows, marks, faults>>
        PROVE  Inv'
    <3>. DEFINE v == [task[t] EXCEPT !.at = "add", !.left = enabled]
    <3>1. v \in Task /\ v.row = 0 /\ v.at = "add" /\ v.base = task[t].base /\ v.kind = "fan"
      BY <1>1, <1>3, <1>6 DEF Task, FanPC, Prefs, Good, Owner, WithRow, Placed
    <3>2. task' = [task EXCEPT ![t] = v]
      BY <1>1, <2>1
    <3>. QED  BY <1>1, <1>6, <2>1, <3>1, <3>2, RowlessStep DEF Prefs, WithRow, FanPC, ChannelPC
  <2>2. \A enabled \in Preferences \cup {{InApp}} : enabled \in SUBSET Channels
    BY ChannelsAssumption, PreferencesAssumption
  <2>3. PICK enabled \in Preferences \cup {{InApp}} :
          Or(t, /\ task' = [task EXCEPT ![t] =
                     IF enabled = {} THEN NoTask
                     ELSE [@ EXCEPT !.at = "add", !.left = enabled]]
                /\ UNCHANGED rows)
    BY <1>6 DEF Prefs
  <2>4. CASE Fault /\ Throw(t) /\ UNCHANGED rows
    BY <1>2, <1>6, <2>4, ThrowStep DEF Prefs
  <2>5. CASE enabled = {} /\ Done(t) /\ UNCHANGED <<rows, marks, faults>>
    BY <1>4, <1>6, <2>5 DEF Prefs
  <2>. QED  BY <2>1, <2>2, <2>3, <2>4, <2>5 DEF Or, Done
<1>7. ASSUME NEW label \in {"find", "load"}, t \in Jobs, GoTo(t, label),
             task[t].at = "waiting", task[t].kind = IF label = "find" THEN "fan" ELSE "channel",
             UNCHANGED <<gone, column, rows, sends, late, marks, crashes, faults>>
      PROVE  Inv'
  <2>. DEFINE v == [task[t] EXCEPT !.at = label]
  <2>1. v \in Task /\ v.row = 0 /\ v.at = label /\ v.base = task[t].base /\ v.kind = task[t].kind
        /\ v.left = {}
    BY <1>1, <1>3, <1>7 DEF Task, FanPC, ChannelPC, Good, Owner, WithRow, Placed
  <2>2. task' = [task EXCEPT ![t] = v]
    BY <1>1, <1>7 DEF GoTo
  <2>. QED  BY <1>1, <1>7, <2>1, <2>2, RowlessStep DEF WithRow, FanPC, ChannelPC
<1>8. CASE t \in Jobs /\ BeginFan(t)
  BY <1>7, <1>8 DEF BeginFan
<1>9. CASE t \in Jobs /\ BeginChannel(t)
  BY <1>7, <1>9 DEF BeginChannel
<1>10. CASE t \in Jobs /\ Load(t)
  <2>1. CASE task' = [task EXCEPT ![t].at = "record", ![t].base = column]
             /\ Mark("overlapped", Holders # {}) /\ UNCHANGED faults
    <3>. DEFINE v == [task[t] EXCEPT !.at = "record", !.base = column]
    <3>1. v \in Task /\ v.row = 0 /\ v.at = "record" /\ v.base = column /\ v.kind = "channel"
          /\ v.left = {}
      BY <1>1, <1>3, <1>10 DEF Task, ChannelPC, Load, Good, Owner, WithRow, Placed, Inv, TypeOK
    <3>2. task' = [task EXCEPT ![t] = v]
      BY <1>1, <2>1
    <3>. QED
      BY <1>1, <1>10, <2>1, <3>1, <3>2, MarksType, RowlessStep DEF Load, WithRow, FanPC, ChannelPC
  <2>. QED  BY <1>2, <1>4, <1>10, <2>1, ThrowStep DEF Load
<1>11. CASE t \in Jobs /\ Recover(t)
  <2>1. CASE /\ task' = [task EXCEPT ![t].at = "waiting", ![t].stalls = @ + 1]
             /\ UNCHANGED marks
    <3>. DEFINE v == [task[t] EXCEPT !.at = "waiting", !.stalls = @ + 1]
    <3>1. v \in Task /\ v.row = 0 /\ v.at = "waiting" /\ v.base = task[t].base
          /\ v.left = {}
      <4>1. /\ task[t].at = "stalled" /\ task[t].row = 0 /\ task[t].stalls \in Nat
            /\ task[t].left = {}
        BY <1>1, <1>3, <1>11 DEF Task, Recover, Good, Owner, WithRow, Placed
      <4>2. PICK u \in Task : u = task[t] /\ u.row = 0 /\ u.left = {}
        BY <1>1, <4>1
      <4>3. v = [u EXCEPT !.at = "waiting", !.stalls = u.stalls + 1]
        BY <4>2
      <4>4. u.stalls + 1 \in Nat
        BY <4>1, <4>2
      <4>5. v \in Task
        BY <4>2, <4>3, <4>4 DEF Task
      <4>6. v.row = 0 /\ v.at = "waiting" /\ v.base = u.base /\ v.left = {}
        BY <4>2, <4>3 DEF Task
      <4>. QED  BY <4>2, <4>5, <4>6
    <3>2. task' = [task EXCEPT ![t] = v]
      BY <1>1, <2>1
    <3>. QED
      BY <1>1, <1>11, <2>1, <3>1, <3>2, RowlessStep DEF Recover, WithRow, FanPC, ChannelPC
  <2>2. CASE GiveUp(t)
    <3>1. marks' \subseteq {"overlapped", "gaveUp"}
      BY <2>2, MarksType DEF GiveUp
    <3>. QED
      BY <1>1, <1>11, <2>2, <3>1, Kinds, RowlessStep
         DEF GiveUp, Done, Recover, WithRow, FanPC, ChannelPC
  <2>. QED  BY <1>11, <2>1, <2>2 DEF Recover
<1>. QED  BY <1>5, <1>6, <1>8, <1>9, <1>10, <1>11

LEMMA FreeSlot ==
    ASSUME Inv, NEW j \in Jobs, NextJob(j)
    PROVE  task[j] = NoTask
  BY DEF Inv, Good, Placed, NextJob, Free, Tasks

LEMMA AddStep ==
    ASSUME Inv, NEW t \in Tasks, Add(t)
    PROVE  Inv'
<1>1. task \in [Tasks -> Task] /\ task[t] \in Task /\ Good(t) /\ task[t].at = "add"
  BY DEF Inv, TypeOK, Add
<1>2. PICK c \in task[t].left, j \in Jobs :
        /\ NextJob(j)
        /\ Or(t, /\ task' = [task EXCEPT ![j] = Job("channel", c), ![t] = Rest(t, c)]
                 /\ UNCHANGED rows)
  BY DEF Add
<1>3. CASE task' = [task EXCEPT ![j] = Job("channel", c), ![t] = Rest(t, c)]
           /\ UNCHANGED <<rows, marks, faults>>
  <2>1. c \in Channels /\ j \in Tasks /\ j # t
    BY <1>1, <1>2, FreeSlot, Kinds DEF Task, Tasks
  <2>2. Rest(t, c) \in Task
    BY <1>1, Kinds DEF Rest, Task
  <2>3. /\ Rest(t, c).row = 0 /\ Rest(t, c).at \in {"free", "add"}
        /\ Rest(t, c).at = "free" => Rest(t, c) = NoTask
        /\ Rest(t, c).at = "add" => Rest(t, c).kind = "fan"
        /\ Rest(t, c).base \in {Unread, task[t].base}
        /\ Rest(t, c).at # "add" => Rest(t, c).left = {}
    <3>1. task[t].row = 0 /\ task[t].kind = "fan"
      BY <1>1 DEF Good, Owner, Placed, WithRow, FanPC
    <3>. QED  BY <1>1, <3>1, Kinds DEF Rest, Task
  <2>4. task'[j] = Job("channel", c) /\ task'[t] = Rest(t, c)
    BY <1>1, <1>3, <2>1
  <2>5. Frame({j, t})
    BY <1>1, <1>3, <2>1, <2>2, Kinds DEF Frame, Inv, TypeOK, Add
  <2>6. Others'
    BY <1>3 DEF Inv, TypeOK, Others, Add
  <2>7. Placed(j)' /\ Placed(t)'
    BY <2>1, <2>3, <2>4, Kinds DEF Placed, FanPC, ChannelPC
  <2>8. rows' = rows /\ column' = column
    BY <1>3 DEF Add
  <2>9. \A u \in {j, t} : /\ task'[u].row = 0
                        /\ task'[u].at \notin WithRow
                        /\ task'[u].base \in {Unread, task[u].base, column}
    BY <2>1, <2>3, <2>4, Kinds DEF WithRow
  <2>. QED  BY <2>1, <2>5, <2>6, <2>7, <2>8, <2>9, Simple
<1>4. CASE Fault /\ Throw(t) /\ UNCHANGED rows
  BY <1>4, ThrowStep DEF Add, Fault, Inv, TypeOK
<1>. QED  BY <1>2, <1>3, <1>4 DEF Or

LEMMA ScheduleStep ==
    ASSUME Inv, NEW j \in Jobs, Schedule(j)
    PROVE  Inv'
<1>1. task \in [Tasks -> Task] /\ j \in Tasks /\ Request \in Tasks /\ j # Request
  BY JobsAssumption DEF Inv, TypeOK, Tasks
<1>2. InApp \in Channels
  BY ChannelsAssumption
<1>3. task'[j] = Job("fan", InApp) /\ task'[Request] = NoTask
  BY <1>1 DEF Schedule
<1>4. Frame({j, Request})
  BY <1>1, <1>2, Kinds DEF Frame, Inv, TypeOK, Schedule
<1>5. Others'
  BY DEF Inv, TypeOK, Others, Schedule
<1>6. Placed(j)' /\ Placed(Request)'
  BY <1>2, <1>3, Kinds DEF Placed, FanPC, ChannelPC
<1>. QED  BY <1>1, <1>2, <1>3, <1>4, <1>5, <1>6, Kinds, Simple DEF Schedule, WithRow

LEMMA DeleteStep ==
    ASSUME Inv, Delete
    PROVE  Inv'
<1>1. Frame({}) /\ Others'
  BY DEF Inv, TypeOK, Frame, Others, Delete
<1>. QED  BY <1>1, Simple DEF Delete

\* What becomes of a task in a crash.
Restarted(t) ==
    /\ task'[t] \in Task /\ task'[t].row = 0 /\ task'[t].left = {}
    /\ task'[t].base = Unread \/ task'[t] = task[t]
    /\ task'[t].at \in {"free", "waiting", "stalled"}
    /\ task'[t].at # "free" => t \in Jobs
    /\ task'[t].at = "free" => task'[t] = NoTask

LEMMA CrashTasks ==
    ASSUME Inv, Crash, NEW t \in Tasks
    PROVE  Restarted(t)
<1>1. task[t] \in Task /\ Good(t)
  BY DEF Inv, TypeOK
<1>2. CASE t = Request
  BY <1>2, Kinds DEF Crash, Restarted, Tasks
<1>3. CASE t # Request /\ Running(t)
  <2>1. PICK v \in Task : v = Job(task[t].kind, task[t].ch)
    BY <1>1, Kinds DEF Task
  <2>2. task'[t] = [v EXCEPT !.at = "stalled", !.tries = task[t].tries,
                             !.stalls = task[t].stalls]
    BY <1>3, <2>1 DEF Crash
  <2>3. v.row = 0 /\ v.base = Unread /\ v.left = {}
    BY <1>1, <2>1, Kinds DEF Task
  <2>4. task[t].tries \in Nat /\ task[t].stalls \in Nat
    BY <1>1 DEF Task
  <2>5. task'[t] \in Task
    BY <2>1, <2>2, <2>4 DEF Task
  <2>6. task'[t].row = 0 /\ task'[t].base = Unread /\ task'[t].left = {}
        /\ task'[t].at = "stalled"
    BY <2>1, <2>2, <2>3 DEF Task
  <2>. QED  BY <1>3, <2>5, <2>6 DEF Restarted, Tasks
<1>4. CASE t # Request /\ ~Running(t)
  <2>1. task'[t] = task[t]
    BY <1>4 DEF Crash
  <2>2. task[t].at \in {"free", "waiting", "stalled"} /\ task[t].row = 0
    BY <1>1, <1>4 DEF Running, Task, Good, Owner, WithRow
  <2>3. task[t].left = {}
    BY <1>1, <2>2 DEF Good, Placed
  <2>. QED  BY <1>1, <1>4, <2>1, <2>2, <2>3 DEF Restarted, Tasks, Good, Placed
<1>. QED  BY <1>2, <1>3, <1>4

LEMMA CrashStep ==
    ASSUME Inv, Crash
    PROVE  Inv'
<1>1. Frame(Tasks)
  <2>1. task' = [t \in Tasks |-> task'[t]]
    BY Zenon DEF Crash
  <2>2. \A t \in Tasks : task'[t] \in Task
    BY CrashTasks DEF Restarted
  <2>3. task' \in [Tasks -> Task]
    BY <2>1, <2>2
  <2>4. UNCHANGED <<rows, sends, faults>> /\ crashes' = crashes + 1
    BY DEF Crash
  <2>. QED  BY <2>3, <2>4 DEF Inv, TypeOK, Frame
<1>2. Others'
  BY DEF Inv, TypeOK, Others, Crash
<1>3. ASSUME NEW t \in Tasks
      PROVE  /\ Placed(t)'
             /\ task'[t].row = 0
             /\ task'[t].at \notin WithRow
             /\ task'[t].base \in {Unread, task[t].base, column}
  <2>1. Restarted(t)
    BY CrashTasks
  <2>2. crashes' = crashes + 1 /\ crashes \in Nat
    BY Zenon DEF Inv, TypeOK, Crash
  <2>. QED  BY <2>1, <2>2 DEF Restarted, Placed, FanPC, ChannelPC, WithRow
<1>4. UNCHANGED <<rows, column>>
  BY DEF Crash
<1>. QED  BY <1>1, <1>2, <1>3, <1>4, Simple

-----------------------------------------------------------------------------
(* The actions of a job on its row. *)

\* A row that says what became of its message, after n errors.
Truthful(r, n) ==
    /\ r.status = "sent" => r.taken \/ r.ch = InApp
    /\ r.status = "failed" /\ r.taken => n > 0

\* Job t turns its row into r and goes on as v.
LEMMA RowWork ==
    ASSUME Inv, NEW t \in Jobs, NEW v \in Task, NEW r \in Row,
           task[t].at \in WithRow,
           task' = [task EXCEPT ![t] = v],
           rows' = [rows EXCEPT ![task[t].row] = r], r.ch = rows[task[t].row].ch,
           v.row \in {0, task[t].row},
           Truthful(r, faults'),
           sends' \in [Channels -> Nat], \A c \in Channels : sends[c] <= sends'[c],
           faults' \in {faults, faults + 1}, crashes' = crashes
    PROVE  /\ Frame({t})
           /\ t \in Tasks /\ task'[t] = v
           /\ task[t].row # 0
           /\ task[t].row \in DOMAIN rows'
           /\ rows'[task[t].row] = r
           /\ r.ch = task[t].ch
           /\ Apart'
           /\ RowsTruthful'
<1>1. task \in [Tasks -> Task] /\ t \in Tasks /\ rows \in Seq(Row) /\ faults \in Nat /\ Good(t)
  BY DEF Inv, TypeOK, Tasks
<1>2. task[t].row # 0 /\ task[t].row \in DOMAIN rows /\ rows[task[t].row].ch = task[t].ch
  BY <1>1 DEF Good, Owner
<1>3. /\ rows' \in Seq(Row) /\ Len(rows') = Len(rows) /\ DOMAIN rows' = DOMAIN rows
      /\ rows'[task[t].row] = r
      /\ \A i \in DOMAIN rows : i # task[t].row => rows'[i] = rows[i]
  BY <1>1, <1>2
<1>4. Frame({t}) /\ task'[t] = v
  BY <1>1, <1>3 DEF Frame, Inv, TypeOK
<1>5. Apart'
  BY <1>1, <1>4, ApartStays
<1>6. RowsTruthful'
  <2>1. faults > 0 => faults' > 0
    BY <1>1
  <2>. QED  BY <1>2, <1>3, <2>1 DEF Inv, RowsTruthful, Truthful
<1>. QED  BY <1>1, <1>2, <1>3, <1>4, <1>5, <1>6

\* The row stays, and the job ends, or stamps, settles or catches.
LEMMA RowKept ==
    ASSUME Inv, NEW t \in Jobs, task[t].at \in WithRow
    PROVE  /\ rows[task[t].row] \in Row /\ Truthful(rows[task[t].row], faults)
           /\ rows = [rows EXCEPT ![task[t].row] = rows[task[t].row]]
<1>1. t \in Tasks /\ rows \in Seq(Row) /\ Good(t)
  BY DEF Inv, TypeOK, Tasks
<1>2. task[t].row \in DOMAIN rows
  BY <1>1 DEF Good, Owner
<1>. QED  BY <1>1, <1>2 DEF Inv, RowsTruthful, Truthful

LEMMA Finish ==
    ASSUME Inv, NEW t \in Jobs, Frame({t}), Good(t)', Apart', RowsTruthful', ColumnOK',
           Others'
    PROVE  Inv'
<1>1. TypeOK'
  BY DEF Frame, Others, TypeOK
<1>2. \A u \in Tasks : Good(u)'
  BY OthersGood DEF Tasks
<1>. QED  BY <1>1, <1>2 DEF Inv

\* An error after the row was made.
LEMMA ToCatch ==
    ASSUME Inv, NEW t \in Jobs, task[t].at \in {"send", "stamp", "settle", "column"},
           Fault, GoTo(t, "catch"), UNCHANGED <<gone, column, rows, sends, late, marks, crashes>>
    PROVE  Inv'
<1>. DEFINE v == [task[t] EXCEPT !.at = "catch"]
<1>1. task \in [Tasks -> Task] /\ t \in Tasks /\ Good(t) /\ faults \in Nat
      /\ faults' = faults + 1 /\ sends' \in [Channels -> Nat]
      /\ \A c \in Channels : sends[c] <= sends'[c]
  BY DEF Inv, TypeOK, Tasks, Fault
<1>2. v \in Task /\ v.row = task[t].row /\ v.ch = task[t].ch /\ v.at = "catch"
      /\ v.base = task[t].base /\ v.kind = "channel" /\ v.left = {}
  BY <1>1 DEF Task, ChannelPC, Good, Placed
<1>3. task' = [task EXCEPT ![t] = v]
  BY <1>1 DEF GoTo
<1>4. /\ rows[task[t].row] \in Row /\ Truthful(rows[task[t].row], faults')
      /\ rows' = [rows EXCEPT ![task[t].row] = rows[task[t].row]]
  BY <1>1, RowKept DEF WithRow, Truthful
<1>5. /\ Frame({t}) /\ task'[t] = v /\ task[t].row # 0 /\ task[t].row \in DOMAIN rows'
      /\ rows'[task[t].row].ch = task[t].ch /\ Apart' /\ RowsTruthful'
  BY <1>1, <1>2, <1>3, <1>4, RowWork DEF WithRow
<1>6. Good(t)'
  <2>1. Placed(t)'
    BY <1>2, <1>5 DEF Placed, FanPC
  <2>2. Owner(t)'
    BY <1>2, <1>5 DEF Owner, WithRow, Unsettled
  <2>3. Told(t)'
    BY <1>1, <1>2, <1>5 DEF Told, Good, Delivered
  <2>. QED  BY <2>1, <2>2, <2>3 DEF Good
<1>7. Others' /\ ColumnOK'
  BY <1>5, ColumnStays DEF Inv, TypeOK, Others
<1>. QED  BY <1>5, <1>6, <1>7, Finish

LEMMA RecordStep ==
    ASSUME Inv, NEW t \in Jobs, Record(t)
    PROVE  Inv'
<1>1. /\ task \in [Tasks -> Task] /\ t \in Tasks /\ task[t] \in Task /\ Good(t)
      /\ rows \in Seq(Row) /\ Len(rows) \in Nat /\ DOMAIN rows = 1 .. Len(rows)
      /\ task[t].at = "record" /\ faults \in Nat
  BY DEF Inv, TypeOK, Tasks, Record
<1>2. CASE Fault /\ Throw(t) /\ UNCHANGED rows
  BY <1>1, <1>2, ThrowStep DEF Record, Fault
<1>3. CASE /\ rows' = Append(rows, [ch |-> task[t].ch, status |-> "pending", taken |-> FALSE])
           /\ task' = [task EXCEPT ![t].at = "send", ![t].row = Len(rows) + 1]
           /\ UNCHANGED <<marks, faults>>
  <2>. DEFINE v == [task[t] EXCEPT !.at = "send", !.row = Len(rows) + 1]
              r == [ch |-> task[t].ch, status |-> "pending", taken |-> FALSE]
              n == Len(rows) + 1
  <2>1. v \in Task /\ v.row = n /\ v.ch = task[t].ch /\ v.at = "send"
        /\ v.base = task[t].base /\ v.kind = "channel" /\ v.left = {}
    <3>1. n \in Nat /\ task[t].kind = "channel" /\ task[t].left = {}
      BY <1>1 DEF ChannelPC, Good, Placed
    <3>2. PICK m \in Nat : m = n
      BY <3>1
    <3>3. v = [task[t] EXCEPT !.at = "send", !.row = m]
      BY <3>2
    <3>. QED  BY <1>1, <3>1, <3>2, <3>3 DEF Task, ChannelPC
  <2>2. task' = [task EXCEPT ![t] = v] /\ task'[t] = v
    BY <1>1, <1>3
  <2>3. r \in Row /\ r.ch = task[t].ch
    BY <1>1 DEF Row, Task
  <2>4. /\ rows' \in Seq(Row) /\ Len(rows') = n /\ DOMAIN rows' = 1 .. n
        /\ rows'[n] = r /\ \A i \in DOMAIN rows : rows'[i] = rows[i]
    BY <1>1, <1>3, <2>3
  <2>5. Frame({t})
    BY <1>1, <1>3, <2>1, <2>2, <2>4 DEF Frame, Inv, TypeOK, Record
  <2>6. Good(t)'
    <3>1. Placed(t)'
      BY <2>1, <2>2 DEF Placed, FanPC
    <3>2. Owner(t)'
      BY <1>1, <2>1, <2>2, <2>4 DEF Owner, WithRow, Unsettled
    <3>3. Told(t)'
      BY <1>1, <2>1, <2>2, ColumnStays DEF Told, Good, Delivered, Record
    <3>. QED  BY <3>1, <3>2, <3>3 DEF Good
  <2>7. Apart'
    <3>1. \A u \in Tasks : task[u].row # n
      BY <1>1 DEF Inv, Good, Owner
    <3>. QED  BY <1>1, <2>1, <2>2, <3>1 DEF Inv, Apart
  <2>8. RowsTruthful'
    BY <1>1, <1>3, <2>4 DEF Inv, RowsTruthful
  <2>9. ColumnOK' /\ Others'
    BY <1>3, <2>5, ColumnStays DEF Inv, TypeOK, Others, Record
  <2>. QED  BY <2>5, <2>6, <2>7, <2>8, <2>9, Finish
<1>. QED  BY <1>2, <1>3 DEF Record, Or

\* The message is taken or not, and the answer comes or not.
LEMMA Answered ==
    ASSUME Inv, NEW t \in Jobs, task[t].at = "send",
           NEW label \in {"stamp", "settle", "catch"}, NEW ok \in BOOLEAN,
           NEW took \in BOOLEAN,
           task' = [task EXCEPT ![t] = [task[t] EXCEPT !.at = label, !.ok = ok]],
           rows' = [rows EXCEPT ![task[t].row] = [rows[task[t].row] EXCEPT !.taken = took]],
           sends' \in [Channels -> Nat], \A c \in Channels : sends[c] <= sends'[c],
           took => sends'[task[t].ch] > 0,
           late' \in [Tasks -> Nat],
           faults' \in {faults, faults + 1},
           UNCHANGED <<gone, column, marks, crashes>>,
           label = "stamp" => ok,
           label # "catch" /\ ok => took \/ task[t].ch = InApp,
           label = "settle" => ok \/ ~took \/ faults' > 0,
           label = "catch" => faults' > 0 \/ (~took /\ task[t].ch = Sms)
    PROVE  Inv'
<1>. DEFINE v == [task[t] EXCEPT !.at = label, !.ok = ok]
            s == [rows[task[t].row] EXCEPT !.taken = took]
<1>1. /\ task \in [Tasks -> Task] /\ t \in Tasks /\ Good(t) /\ faults \in Nat
      /\ rows[task[t].row] \in Row /\ rows[task[t].row].status = "pending"
      /\ label \in ChannelPC
  BY RowKept DEF Inv, TypeOK, Tasks, Good, Owner, WithRow, Unsettled, ChannelPC
<1>2. v \in Task /\ v.row = task[t].row /\ v.ch = task[t].ch /\ v.at = label
      /\ v.ok = ok /\ v.base = task[t].base /\ v.kind = "channel" /\ v.left = {}
  <2>1. task[t] \in Task /\ task[t].kind = "channel" /\ task[t].left = {}
    BY <1>1 DEF Good, Placed, ChannelPC
  <2>. QED  BY <1>1, <2>1 DEF Task
<1>3. PICK r \in Row : r = s
  BY <1>1 DEF Row
<1>4. r.ch = rows[task[t].row].ch /\ r.status = "pending" /\ r.taken = took
  BY <1>1, <1>3 DEF Row
<1>5. /\ Frame({t}) /\ task'[t] = v /\ task[t].row # 0 /\ task[t].row \in DOMAIN rows'
      /\ rows'[task[t].row] = r /\ r.ch = task[t].ch /\ Apart' /\ RowsTruthful'
  BY <1>1, <1>2, <1>3, <1>4, RowWork DEF WithRow, Truthful
<1>6. Good(t)'
  <2>1. Placed(t)'
    BY <1>1, <1>2, <1>5 DEF Placed, FanPC
  <2>2. Owner(t)'
    BY <1>2, <1>4, <1>5, ZenonT(60) DEF Owner, WithRow, Unsettled
  <2>3. \A c \in Channels : task'[t].base[c] = "sent" => Delivered(c)'
    BY <1>1, <1>2, <1>5 DEF Good, Told, Delivered, Inv, TypeOK
  <2>4. Told(t)'
    BY <1>2, <1>4, <1>5, <2>3 DEF Told, Delivered
  <2>. QED  BY <2>1, <2>2, <2>4 DEF Good
<1>7. Others' /\ ColumnOK'
  BY <1>5, ColumnStays DEF Inv, TypeOK, Others
<1>. QED  BY <1>5, <1>6, <1>7, Finish

LEMMA SendStep ==
    ASSUME Inv, NEW t \in Jobs, Send(t)
    PROVE  Inv'
<1>1. /\ task \in [Tasks -> Task] /\ t \in Tasks /\ task[t] \in Task /\ Good(t)
      /\ task[t].at = "send" /\ task[t].ok \in BOOLEAN /\ task[t].ch \in Channels
      /\ rows \in Seq(Row) /\ task[t].row \in DOMAIN rows /\ ~rows[task[t].row].taken
      /\ rows[task[t].row] \in Row
      /\ faults \in Nat /\ sends \in [Channels -> Nat] /\ late \in [Tasks -> Nat]
  BY RowKept DEF Inv, TypeOK, Tasks, Task, Send, Good, Owner, WithRow
<1>2. rows = [rows EXCEPT ![task[t].row] = [rows[task[t].row] EXCEPT !.taken = FALSE]]
  <2>1. rows[task[t].row] = [rows[task[t].row] EXCEPT !.taken = FALSE]
    BY <1>1 DEF Row
  <2>. QED  BY <1>1, <2>1
<1>3. \A label \in {"settle", "catch"} :
        GoTo(t, label) =>
          task' = [task EXCEPT ![t] = [task[t] EXCEPT !.at = label, !.ok = task[t].ok]]
  <2>1. ASSUME NEW label
        PROVE  [task[t] EXCEPT !.at = label] = [task[t] EXCEPT !.at = label, !.ok = task[t].ok]
    BY <1>1 DEF Task
  <2>. QED  BY <2>1 DEF GoTo
<1>4. \A label : \A ok \in BOOLEAN :
        task' = [task EXCEPT ![t].at = label, ![t].ok = ok]
          => task' = [task EXCEPT ![t] = [task[t] EXCEPT !.at = label, !.ok = ok]]
  BY <1>1
<1>5. CASE /\ task[t].ch = InApp
           /\ task' = [task EXCEPT ![t].at = "stamp", ![t].ok = TRUE]
           /\ UNCHANGED <<rows, sends, late, faults>>
  <2>1. task' = [task EXCEPT ![t] = [task[t] EXCEPT !.at = "stamp", !.ok = TRUE]]
    BY <1>4, <1>5
  <2>2. rows' = [rows EXCEPT ![task[t].row] = [rows[task[t].row] EXCEPT !.taken = FALSE]]
    BY <1>2, <1>5
  <2>3. /\ sends' \in [Channels -> Nat] /\ \A c \in Channels : sends[c] <= sends'[c]
        /\ late' \in [Tasks -> Nat] /\ faults' = faults
        /\ UNCHANGED <<gone, column, marks, crashes>>
    BY <1>1, <1>5 DEF Send
  <2>. QED  BY <1>1, <1>5, <2>1, <2>2, <2>3, Answered
<1>6. CASE task[t].ch = Sms /\ GoTo(t, "catch") /\ UNCHANGED <<rows, sends, late, faults>>
  <2>1. task' = [task EXCEPT ![t] = [task[t] EXCEPT !.at = "catch", !.ok = task[t].ok]]
    BY <1>3, <1>6
  <2>2. rows' = [rows EXCEPT ![task[t].row] = [rows[task[t].row] EXCEPT !.taken = FALSE]]
    BY <1>2, <1>6
  <2>3. /\ sends' \in [Channels -> Nat] /\ \A c \in Channels : sends[c] <= sends'[c]
        /\ late' \in [Tasks -> Nat] /\ faults' = faults
        /\ UNCHANGED <<gone, column, marks, crashes>>
    BY <1>1, <1>6 DEF Send
  <2>. QED  BY <1>1, <1>6, <2>1, <2>2, <2>3, Answered
<1>7. ASSUME NEW took \in BOOLEAN, Take(t, took),
             \/ /\ task' = [task EXCEPT ![t].at = IF took THEN "stamp" ELSE "settle",
                                        ![t].ok = took]
                /\ UNCHANGED faults
             \/ took /\ Fault /\ GoTo(t, "settle")
             \/ Fault /\ GoTo(t, "catch")
      PROVE  Inv'
  <2>1. rows' = [rows EXCEPT ![task[t].row] = [rows[task[t].row] EXCEPT !.taken = took]]
    BY <1>1, <1>7 DEF Take
  <2>2. /\ sends' \in [Channels -> Nat] /\ \A c \in Channels : sends[c] <= sends'[c]
        /\ took => sends'[task[t].ch] > 0
        /\ late' \in [Tasks -> Nat]
    BY <1>1, <1>7 DEF Take
  <2>3. UNCHANGED <<gone, column, marks, crashes>>
    BY DEF Send
  <2>4. CASE took /\ UNCHANGED faults
             /\ task' = [task EXCEPT ![t].at = "stamp", ![t].ok = took]
    BY <1>1, <1>4, <2>1, <2>2, <2>3, <2>4, Answered
  <2>5. CASE ~took /\ UNCHANGED faults
             /\ task' = [task EXCEPT ![t].at = "settle", ![t].ok = took]
    BY <1>1, <1>4, <2>1, <2>2, <2>3, <2>5, Answered
  <2>6. CASE took /\ Fault /\ GoTo(t, "settle")
    <3>1. task' = [task EXCEPT ![t] = [task[t] EXCEPT !.at = "settle", !.ok = task[t].ok]]
      BY <1>3, <2>6
    <3>2. faults' = faults + 1 /\ faults' > 0
      BY <1>1, <2>6 DEF Fault
    <3>. QED  BY <1>1, <2>1, <2>2, <2>3, <2>6, <3>1, <3>2, Answered
  <2>7. CASE Fault /\ GoTo(t, "catch")
    <3>1. task' = [task EXCEPT ![t] = [task[t] EXCEPT !.at = "catch", !.ok = task[t].ok]]
      BY <1>3, <2>7
    <3>2. faults' = faults + 1 /\ faults' > 0
      BY <1>1, <2>7 DEF Fault
    <3>. QED  BY <1>1, <2>1, <2>2, <2>3, <2>7, <3>1, <3>2, Answered
  <2>. QED  BY <1>7, <2>4, <2>5, <2>6, <2>7
<1>. QED  BY <1>5, <1>6, <1>7 DEF Send

\* A job goes on, or ends, and gives its row another status or none.
LEMMA Settled ==
    ASSUME Inv, NEW t \in Jobs, task[t].at \in {"stamp", "settle", "column", "catch"},
           NEW label \in {"settle", "column", "free"}, NEW r \in Row,
           NEW v, task' = [task EXCEPT ![t] = v],
           label = "free" => v = NoTask,
           label # "free" => v = [task[t] EXCEPT !.at = label],
           rows' = [rows EXCEPT ![task[t].row] = r],
           r.ch = rows[task[t].row].ch, r.taken = rows[task[t].row].taken,
           Truthful(r, faults),
           label = "settle" => task[t].at = "stamp" /\ r.status = "pending",
           label = "column" => task[t].at = "settle" /\ r.status # "pending",
           \/ column' = column
           \/ /\ task[t].at = "column"
              /\ column' = [task[t].base EXCEPT ![task[t].ch] = Verdict(t)],
           UNCHANGED <<gone, sends, late, marks, crashes, faults>>
    PROVE  Inv'
<1>1. /\ task \in [Tasks -> Task] /\ t \in Tasks /\ task[t] \in Task /\ Good(t)
      /\ faults \in Nat /\ rows[task[t].row] \in Row /\ task[t].at \in WithRow
      /\ sends \in [Channels -> Nat]
  BY RowKept DEF Inv, TypeOK, Tasks, WithRow
<1>2. /\ v \in Task /\ v.row \in {0, task[t].row} /\ v.left = {} /\ v.at = label
      /\ label = "free" => v = NoTask
      /\ label # "free" => /\ v.row = task[t].row /\ v.ch = task[t].ch /\ v.ok = task[t].ok
                           /\ v.base = task[t].base /\ v.kind = "channel"
  <2>1. task[t].kind = "channel" /\ task[t].left = {}
    BY <1>1 DEF Good, Placed, ChannelPC, WithRow
  <2>. QED  BY <1>1, <2>1, Kinds DEF Task, ChannelPC
<1>3. sends' \in [Channels -> Nat] /\ \A c \in Channels : sends[c] <= sends'[c]
  BY <1>1
<1>4. /\ Frame({t}) /\ task'[t] = v /\ task[t].row # 0 /\ task[t].row \in DOMAIN rows'
      /\ rows'[task[t].row] = r /\ r.ch = task[t].ch /\ Apart' /\ RowsTruthful'
  BY <1>1, <1>2, <1>3, RowWork
<1>5. Good(t)'
  <2>1. Placed(t)'
    BY <1>1, <1>2, <1>4, Kinds DEF Placed, FanPC, ChannelPC
  <2>2. Owner(t)'
    BY <1>2, <1>4, Kinds DEF Owner, WithRow, Unsettled
  <2>3. \A c \in Channels : task'[t].base[c] = "sent" => Delivered(c)'
    BY <1>1, <1>2, <1>4, Kinds DEF Good, Told, Delivered, Unread
  <2>4. Told(t)'
    BY <1>1, <1>2, <1>4, <2>3 DEF Told, Good, Delivered
  <2>. QED  BY <2>1, <2>2, <2>4 DEF Good
<1>6. column' \in [Channels -> Outcome] /\ ColumnOK'
  <2>1. CASE column' = column
    BY <1>4, <2>1, ColumnStays DEF Inv, TypeOK
  <2>2. CASE column' = [task[t].base EXCEPT ![task[t].ch] = Verdict(t)] /\ task[t].at = "column"
    <3>1. /\ task[t].base \in [Channels -> Outcome] /\ task[t].ch \in Channels
          /\ Verdict(t) \in Outcome
      BY <1>1 DEF Task, Verdict, Outcome
    <3>2. Verdict(t) = "sent" => Delivered(task[t].ch)
      BY <1>1, <2>2 DEF Verdict, Good, Told
    <3>3. \A c \in Channels : column'[c] = "sent" => Delivered(c)
      BY <1>1, <2>2, <3>1, <3>2 DEF Good, Told
    <3>. QED  BY <2>2, <3>1, <3>3 DEF ColumnOK, Delivered
  <2>. QED  BY <2>1, <2>2
<1>7. Others'
  BY <1>6 DEF Inv, TypeOK, Others
<1>. QED  BY <1>4, <1>5, <1>6, <1>7, Finish

LEMMA RowActions ==
    ASSUME Inv, NEW t \in Jobs, Stamp(t) \/ Settle(t) \/ Column(t) \/ Catch(t)
    PROVE  Inv'
<1>1. /\ task \in [Tasks -> Task] /\ t \in Tasks /\ task[t] \in Task /\ Good(t)
      /\ faults \in Nat /\ rows \in Seq(Row) /\ task[t].row \in DOMAIN rows
      /\ task[t].at \in WithRow
  BY RowKept DEF Inv, TypeOK, Tasks, WithRow, Good, Owner, Stamp, Settle, Column, Catch
<1>2. PICK s \in Row : s = rows[task[t].row]
  BY <1>1
<1>3. rows = [rows EXCEPT ![task[t].row] = s] /\ Truthful(s, faults) /\ s.ch = task[t].ch
  BY <1>1, <1>2, RowKept DEF Good, Owner, WithRow
<1>4. ASSUME NEW st \in {"sent", "failed"}
      PROVE  \E r \in Row :
               /\ r.status = st /\ r.ch = s.ch /\ r.taken = s.taken
               /\ [rows EXCEPT ![task[t].row].status = st] = [rows EXCEPT ![task[t].row] = r]
  <2>1. PICK r \in Row : r = [s EXCEPT !.status = st]
    BY DEF Row
  <2>2. r.status = st /\ r.ch = s.ch /\ r.taken = s.taken
    BY <2>1 DEF Row
  <2>. QED  BY <1>2, <2>1, <2>2
<1>5. ASSUME Fault, GoTo(t, "catch"), UNCHANGED <<rows, column>>, ~Catch(t)
      PROVE  Inv'
  BY <1>5, ToCatch DEF Stamp, Settle, Column
<1>6. CASE Stamp(t)
  <2>1. task[t].at = "stamp" /\ s.status = "pending" /\ ~Catch(t)
    BY <1>1, <1>2, <1>6 DEF Stamp, Good, Owner, Unsettled, Catch
  <2>2. CASE GoTo(t, "settle") /\ UNCHANGED <<rows, column, faults>>
    <3>1. PICK v : v = [task[t] EXCEPT !.at = "settle"]
      OBVIOUS
    <3>2. task' = [task EXCEPT ![t] = v]
      BY <2>2, <3>1 DEF GoTo
    <3>3. rows' = [rows EXCEPT ![task[t].row] = s]
      BY <1>3, <2>2
    <3>4. UNCHANGED <<gone, column, sends, late, marks, crashes, faults>>
      BY <1>6, <2>2 DEF Stamp
    <3>. QED  BY <1>2, <1>3, <2>1, <3>1, <3>2, <3>3, <3>4, Settled
  <2>. QED  BY <1>5, <1>6, <2>1, <2>2 DEF Stamp, OrCatch
<1>7. CASE Settle(t)
  <2>1. task[t].at = "settle" /\ Verdict(t) \in {"sent", "failed"} /\ ~Catch(t)
    BY <1>7 DEF Settle, Verdict, Catch
  <2>2. CASE /\ rows' = [rows EXCEPT ![task[t].row].status = Verdict(t)]
             /\ GoTo(t, "column") /\ UNCHANGED <<column, faults>>
    <3>1. PICK v : v = [task[t] EXCEPT !.at = "column"]
      OBVIOUS
    <3>2. task' = [task EXCEPT ![t] = v]
      BY <2>2, <3>1 DEF GoTo
    <3>3. PICK st \in {"sent", "failed"} : st = Verdict(t)
      BY <2>1
    <3>4. PICK r \in Row : /\ r.status = st /\ r.ch = s.ch /\ r.taken = s.taken
                           /\ rows' = [rows EXCEPT ![task[t].row] = r]
      BY <1>4, <2>2, <3>3
    <3>5. Truthful(r, faults)
      BY <1>1, <1>2, <1>3, <2>1, <3>3, <3>4 DEF Truthful, Verdict, Good, Told
    <3>6. UNCHANGED <<gone, column, sends, late, marks, crashes, faults>>
      BY <1>7, <2>2 DEF Settle
    <3>. QED  BY <1>2, <2>1, <3>1, <3>2, <3>4, <3>5, <3>6, Settled
  <2>. QED  BY <1>5, <1>7, <2>1, <2>2 DEF Settle, OrCatch
<1>8. CASE Column(t)
  <2>1. task[t].at = "column" /\ ~Catch(t)
    BY <1>8 DEF Column, Catch
  <2>2. CASE /\ column' = [task[t].base EXCEPT ![task[t].ch] = Verdict(t)]
             /\ Done(t) /\ UNCHANGED <<rows, faults>>
    <3>1. task' = [task EXCEPT ![t] = NoTask]
      BY <2>2 DEF Done
    <3>2. rows' = [rows EXCEPT ![task[t].row] = s]
      BY <1>3, <2>2
    <3>3. UNCHANGED <<gone, sends, late, marks, crashes, faults>>
      BY <1>8, <2>2 DEF Column
    <3>. QED  BY <1>2, <1>3, <2>1, <2>2, <3>1, <3>2, <3>3, Settled
  <2>. QED  BY <1>5, <1>8, <2>1, <2>2 DEF Column, OrCatch
<1>9. CASE Catch(t)
  <2>1. task[t].at = "catch"
    BY <1>9 DEF Catch
  <2>2. CASE /\ rows' = [rows EXCEPT ![task[t].row].status = "failed"]
             /\ Done(t) /\ UNCHANGED <<marks, faults>>
    <3>1. PICK r \in Row : /\ r.status = "failed" /\ r.ch = s.ch /\ r.taken = s.taken
                           /\ rows' = [rows EXCEPT ![task[t].row] = r]
      BY <1>4, <2>2
    <3>2. Truthful(r, faults)
      BY <1>1, <1>2, <2>1, <3>1 DEF Truthful, Good, Told
    <3>3. task' = [task EXCEPT ![t] = NoTask]
      BY <2>2 DEF Done
    <3>4. UNCHANGED <<gone, column, sends, late, marks, crashes, faults>>
      BY <1>9, <2>2 DEF Catch
    <3>. QED  BY <1>2, <2>1, <3>1, <3>2, <3>3, <3>4, Settled
  <2>3. CASE Fault /\ Throw(t) /\ UNCHANGED rows
    BY <1>1, <1>9, <2>3, ThrowStep DEF Catch, Fault
  <2>. QED  BY <1>9, <2>2, <2>3 DEF Catch, Or
<1>. QED  BY <1>6, <1>7, <1>8, <1>9

LEMMA Start ==
    ASSUME Init
    PROVE  Inv
<1>1. task \in [Tasks -> Task]
  BY Kinds DEF Init, Task, FanPC
<1>2. TypeOK
  <2>1. rows \in Seq(Row)
    BY DEF Init
  <2>2. column \in [Channels -> Outcome] /\ gone \in BOOLEAN /\ marks = {}
    BY DEF Init, Unread, Outcome
  <2>3. sends \in [Channels -> Nat] /\ late \in [Tasks -> Nat]
        /\ crashes \in Nat /\ faults \in Nat
    BY DEF Init
  <2>. QED  BY <1>1, <2>1, <2>2, <2>3 DEF TypeOK
<1>3. \A t \in Tasks :
        /\ task[t].row = 0 /\ task[t].base = Unread /\ task[t].left = {}
        /\ \/ task[t].at = "find" /\ task[t].kind = "fan"
           \/ task[t] = NoTask
  BY Kinds DEF Init, NoTask
<1>4. \A t \in Tasks : Good(t)
  BY <1>3, Kinds
     DEF Good, Placed, Owner, Told, WithRow, Unsettled, Unread, FanPC, ChannelPC
<1>5. Apart
  BY <1>3 DEF Apart
<1>6. RowsTruthful /\ ColumnOK
  <2>1. rows = <<>> /\ DOMAIN rows = {} /\ column = Unread
    BY DEF Init
  <2>. QED  BY <2>1 DEF RowsTruthful, ColumnOK, Unread
<1>. QED  BY <1>2, <1>4, <1>5, <1>6 DEF Inv

LEMMA InvStep ==
    ASSUME Inv, [Next]_vars
    PROVE  Inv'
<1>1. CASE UNCHANGED vars
  <2>1. Frame({}) /\ Others'
    BY <1>1 DEF vars, Inv, TypeOK, Frame, Others
  <2>. QED  BY <1>1, <2>1, Simple DEF vars
<1>2. CASE Next
  <2>1. ASSUME NEW t \in Tasks, Work(t)
        PROVE  Inv'
    <3>1. CASE FindFan(t) \/ Prefs(t)
      BY <3>1, RowlessActions
    <3>2. CASE Add(t)
      BY <3>2, AddStep
    <3>3. CASE t \in Jobs /\ (BeginFan(t) \/ BeginChannel(t) \/ Load(t) \/ Recover(t))
      BY <3>3, RowlessActions
    <3>4. CASE t \in Jobs /\ (Record(t) \/ Send(t))
      BY <3>4, RecordStep, SendStep
    <3>5. CASE t \in Jobs /\ (Stamp(t) \/ Settle(t) \/ Column(t) \/ Catch(t))
      BY <3>5, RowActions
    <3>. QED  BY <2>1, <3>1, <3>2, <3>3, <3>4, <3>5 DEF Work
  <2>. QED  BY <1>2, <2>1, ScheduleStep, DeleteStep, CrashStep DEF Next
<1>. QED  BY <1>1, <1>2

LEMMA Always == Spec => []Inv
  BY Start, InvStep, PTL DEF Spec

\* Every variable keeps its type: whatever an error or a crash leaves behind, a
\* job is one that the code can have made.
THEOREM DeliveryTypes == Spec => []TypeOK
<1>. Inv => TypeOK
  BY DEF Inv
<1>. QED  BY Always, PTL

\* What a row says of its message is true, however often its job was cut off
\* and run again: the row of an earlier run is never settled by a later one.
THEOREM RowsSayTheTruth == Spec => []RowsTruthful
<1>. Inv => RowsTruthful
  BY DEF Inv
<1>. QED  BY Always, PTL

-----------------------------------------------------------------------------
(* After the deletion. *)

\* The points of a job that has a message to send.
Loaded == {"record", "send"}

\* How a step changes a task of which the notification was deleted.
LateStepOf(u) ==
    /\ task'[u].at \in Loaded => ~gone \/ (task[u].at \in Loaded /\ late'[u] = late[u])
    /\ \/ late'[u] = late[u]
       \/ task[u].at = "send" /\ gone /\ late'[u] <= late[u] + 1

LEMMA ThrowUnloads ==
    ASSUME Inv, NEW t \in Tasks, Throw(t), NEW u \in Tasks, late' = late
    PROVE  LateStepOf(u)
<1>1. u = t => task'[u] = Retried(t)
  BY DEF Throw, Inv, TypeOK
<1>2. u # t => task'[u] = task[u]
  BY DEF Throw, Inv, TypeOK
<1>. QED  BY <1>1, <1>2, RetriedGood DEF LateStepOf, Loaded

LEMMA LateChange ==
    ASSUME Inv, [Next]_vars, NEW u \in Tasks
    PROVE  LateStepOf(u) /\ (gone => gone')
<1>1. task \in [Tasks -> Task] /\ late \in [Tasks -> Nat] /\ task[u] \in Task
  BY DEF Inv, TypeOK
<1>2. ASSUME NEW t \in Tasks, NEW label, GoTo(t, label), label \notin Loaded, late' = late
      PROVE  LateStepOf(u)
  BY <1>1, <1>2 DEF GoTo, LateStepOf
<1>3. ASSUME NEW t \in Tasks, Done(t), late' = late
      PROVE  LateStepOf(u)
  BY <1>1, <1>3, Kinds DEF Done, LateStepOf, Loaded
<1>4. CASE UNCHANGED vars
  BY <1>4 DEF vars, LateStepOf
<1>5. ASSUME NEW t \in Tasks, Work(t)
      PROVE  LateStepOf(u) /\ (gone => gone')
  <2>0. gone' = gone
    BY <1>5 DEF Work, FindFan, Prefs, Add, BeginFan, BeginChannel, Load, Record, Send,
                Stamp, Settle, Column, Catch, Recover
  <2>1. CASE FindFan(t) \/ Prefs(t)
    <3>1. ASSUME NEW enabled, task' = [task EXCEPT ![t] =
                     IF enabled = {} THEN NoTask ELSE [@ EXCEPT !.at = "add", !.left = enabled]],
                 late' = late
          PROVE  LateStepOf(u)
      BY <1>1, <3>1, Kinds DEF LateStepOf, Loaded
    <3>. QED
      BY <1>2, <1>3, <2>0, <2>1, <3>1, ThrowUnloads DEF FindFan, Prefs, Or, Loaded
  <2>2. CASE Add(t)
    <3>1. ASSUME NEW c \in task[t].left, NEW j \in Jobs, NextJob(j),
                 task' = [task EXCEPT ![j] = Job("channel", c), ![t] = Rest(t, c)],
                 late' = late
          PROVE  LateStepOf(u)
      <4>1. c \in Channels /\ task[t].at = "add" /\ task[t] \in Task /\ j \in Tasks
        BY <1>1, <2>2 DEF Add, Task, Tasks
      <4>2. Rest(t, c).at \in {"free", "add"}
        BY <4>1, Kinds DEF Rest, Task
      <4>3. task'[u] = task[u] \/ task'[u] = Job("channel", c) \/ task'[u] = Rest(t, c)
        BY <1>1, <3>1
      <4>. QED  BY <3>1, <4>1, <4>2, <4>3, Kinds DEF LateStepOf, Loaded
    <3>. QED  BY <2>0, <2>2, <3>1, ThrowUnloads DEF Add, Or
  <2>3. CASE t \in Jobs /\ (BeginFan(t) \/ BeginChannel(t))
    BY <1>2, <2>0, <2>3 DEF BeginFan, BeginChannel, Loaded
  <2>4. CASE t \in Jobs /\ Load(t)
    <3>1. CASE ~gone
      BY <2>0, <2>4, <3>1 DEF Load, LateStepOf
    <3>. QED  BY <1>3, <2>0, <2>4, <3>1, ThrowUnloads DEF Load
  <2>5. CASE t \in Jobs /\ Record(t)
    <3>1. CASE Fault /\ Throw(t)
      BY <2>0, <2>5, <3>1, ThrowUnloads DEF Record
    <3>2. CASE task' = [task EXCEPT ![t].at = "send", ![t].row = Len(rows) + 1]
      BY <1>1, <2>0, <2>5, <3>2 DEF Record, LateStepOf, Loaded
    <3>. QED  BY <2>5, <3>1, <3>2 DEF Record, Or
  <2>6. CASE t \in Jobs /\ Send(t)
    <3>1. task[t].at = "send" /\ task'[t].at \notin Loaded
      <4>1. \E label \in {"stamp", "settle", "catch"} :
              \/ GoTo(t, label)
              \/ \E ok : task' = [task EXCEPT ![t].at = label, ![t].ok = ok]
        BY <2>6 DEF Send
      <4>2. task'[t].at \in {"stamp", "settle", "catch"}
        <5>1. ASSUME NEW label, GoTo(t, label)
              PROVE  task'[t].at = label
          BY <1>1, <5>1 DEF GoTo, Task
        <5>2. ASSUME NEW label, NEW ok, task' = [task EXCEPT ![t].at = label, ![t].ok = ok]
              PROVE  task'[t].at = label
          BY <1>1, <5>2 DEF Task
        <5>. QED  BY <4>1, <5>1, <5>2
      <4>. QED  BY <2>6, <4>2 DEF Send, Loaded
    <3>2. u # t => task'[u] = task[u]
      BY <1>1, <2>6 DEF Send, GoTo
    <3>3. \/ late' = late
          \/ late' = [late EXCEPT ![t] = @ + IF gone THEN 0 ELSE 0]
          \/ late' = [late EXCEPT ![t] = @ + IF gone THEN 1 ELSE 0]
      BY <2>6 DEF Send, Take
    <3>. QED  BY <1>1, <2>0, <3>1, <3>2, <3>3 DEF LateStepOf
  <2>7. CASE t \in Jobs /\ (Stamp(t) \/ Settle(t) \/ Column(t))
    BY <1>2, <1>3, <2>0, <2>7 DEF Stamp, Settle, Column, OrCatch, Loaded
  <2>8. CASE t \in Jobs /\ Catch(t)
    BY <1>3, <2>0, <2>8, ThrowUnloads DEF Catch, Or
  <2>9. CASE t \in Jobs /\ Recover(t)
    <3>1. ASSUME task' = [task EXCEPT ![t].at = "waiting", ![t].stalls = @ + 1], late' = late
          PROVE  LateStepOf(u)
      BY <1>1, <3>1 DEF LateStepOf, Loaded
    <3>2. ASSUME GiveUp(t), late' = late
          PROVE  LateStepOf(u)
      BY <1>3, <3>2 DEF GiveUp
    <3>. QED  BY <2>0, <2>9, <3>1, <3>2 DEF Recover
  <2>. QED
    BY <1>5, <2>1, <2>2, <2>3, <2>4, <2>5, <2>6, <2>7, <2>8, <2>9 DEF Work
<1>6. ASSUME NEW j \in Jobs, Schedule(j)
      PROVE  LateStepOf(u) /\ (gone => gone')
  <2>1. task'[u] \in {task[u], Job("fan", InApp), NoTask} /\ late' = late /\ gone' = gone
    BY <1>1, <1>6 DEF Schedule
  <2>. QED  BY <2>1, Kinds, ChannelsAssumption DEF LateStepOf, Loaded
<1>7. CASE Delete
  BY <1>7 DEF Delete, LateStepOf
<1>8. CASE Crash
  <2>1. task'[u].at \notin Loaded
    BY <1>8, CrashTasks DEF Restarted, Loaded
  <2>2. late' = late /\ gone' = gone
    BY <1>8 DEF Crash
  <2>. QED  BY <2>1, <2>2 DEF LateStepOf
<1>. QED  BY <1>4, <1>5, <1>6, <1>7, <1>8 DEF Next

LEMMA LateStep ==
    ASSUME Inv, LateOnce, [Next]_vars
    PROVE  LateOnce'
<1>1. TypeOK /\ TypeOK'
  BY InvStep DEF Inv
<1>2. ASSUME NEW u \in Tasks
      PROVE  late'[u] <= 1 /\ (late'[u] = 1 => gone' /\ task'[u].at \notin Loaded)
  <2>1. LateStepOf(u) /\ (gone => gone')
    BY LateChange
  <2>2. /\ late[u] \in Nat /\ late'[u] \in Nat /\ late[u] <= 1
        /\ late[u] = 1 => gone /\ task[u].at \notin Loaded
    BY <1>1 DEF TypeOK, LateOnce, Loaded
  <2>. QED  BY <2>1, <2>2 DEF LateStepOf, Loaded
<1>. QED  BY <1>2 DEF LateOnce, Loaded

\* Deleting a notification stops it: whatever jobs are queued, running, retried
\* or stalled then, each sends at most the message it has in hand.
THEOREM DeletedIsStopped == Spec => []NoneAfterDelete
<1>1. Init => LateOnce
  BY DEF Init, LateOnce
<1>2. Inv /\ LateOnce /\ [Next]_vars => LateOnce'
  BY LateStep
<1>3. LateOnce => NoneAfterDelete
  BY DEF LateOnce, NoneAfterDelete
<1>. QED  BY <1>1, <1>2, <1>3, Always, PTL DEF Spec

-----------------------------------------------------------------------------
(* The column, when nothing goes wrong and no two jobs hold it at a time. *)

HolderPC == {"record", "send", "stamp", "settle", "column"}

LEMMA HoldersAre == Inv => Holders = {j \in Tasks : task[j].at \in HolderPC}
<1>. SUFFICES ASSUME Inv PROVE Holders = {j \in Tasks : task[j].at \in HolderPC}
  OBVIOUS
<1>1. \A j \in Tasks : task[j].at \in HolderPC => j \in Jobs
  BY DEF Inv, Good, Placed, HolderPC, FanPC
<1>. QED  BY <1>1 DEF Holders, HolderPC, ChannelPC, Tasks

\* Task u is for the same as before.
Same(u) ==
    /\ task'[u].kind = task[u].kind /\ task'[u].ch = task[u].ch
    /\ task'[u].left = task[u].left /\ task'[u].row = task[u].row
    /\ task'[u].at = "add" <=> task[u].at = "add"

SameRows == Len(rows') = Len(rows) /\ \A i \in DOMAIN rows : rows'[i].ch = rows[i].ch

LEMMA Domains ==
    ASSUME Inv, Inv'
    PROVE  /\ DOMAIN rows = 1 .. Len(rows) /\ Len(rows) \in Nat
           /\ DOMAIN rows' = 1 .. Len(rows') /\ Len(rows') \in Nat
  BY DEF Inv, TypeOK

LEMMA OnceKept ==
    ASSUME Inv, Inv', Once, SameRows,
           \A u \in Tasks : Same(u) \/ task'[u] = NoTask
    PROVE  Once'
<1>1. DOMAIN rows' = DOMAIN rows /\ \A i \in DOMAIN rows : rows'[i].ch = rows[i].ch
  BY Domains DEF SameRows
<1>2. \A u \in Tasks :
        task'[u].kind \in {"fan", "channel"} => Same(u)
  BY Kinds
<1>3. /\ \A t, u \in Tasks : task'[t].kind = "fan" /\ task'[u].kind = "fan" => t = u
      /\ \A t \in Tasks : task'[t].kind = "fan" /\ task'[t].at # "add" =>
           Len(rows') = 0 /\ \A j \in Tasks : task'[j].kind # "channel"
  BY <1>2 DEF Once, OneFan, FanFirst, Same, SameRows
<1>4. \A t \in Tasks : task'[t].kind = "fan" => \A c \in task'[t].left :
         /\ \A j \in Tasks : task'[j].kind = "channel" => task'[j].ch # c
         /\ \A i \in DOMAIN rows' : rows'[i].ch # c
  BY <1>1, <1>2 DEF Once, Fresh, Same
<1>5. /\ \A i, j \in Tasks :
           task'[i].kind = "channel" /\ task'[j].kind = "channel" /\ task'[i].ch = task'[j].ch
             => i = j
      /\ \A j \in Tasks, i \in DOMAIN rows' :
           task'[j].kind = "channel" /\ rows'[i].ch = task'[j].ch => i = task'[j].row
      /\ \A i, k \in DOMAIN rows' : rows'[i].ch = rows'[k].ch => i = k
  BY <1>1, <1>2 DEF Once, OneJob, OwnRow, OneRow, Same
<1>. QED
  BY <1>3, <1>4, <1>5 DEF Once, OneFan, FanFirst, Fresh, OneJob, OwnRow, OneRow

LEMMA HoldersWillBe == Inv' => Holders' = {j \in Tasks : task'[j].at \in HolderPC}
<1>. SUFFICES ASSUME Inv' PROVE Holders' = {j \in Tasks : task'[j].at \in HolderPC}
  OBVIOUS
<1>1. \A j \in Tasks : task'[j].at \in HolderPC => j \in Jobs
  BY DEF Inv, Good, Placed, HolderPC, FanPC
<1>. QED  BY <1>1 DEF Holders, HolderPC, ChannelPC, Tasks

LEMMA CurrentKept ==
    ASSUME Inv, Inv', Current, column' = column,
           \A u \in Tasks : task'[u].at \in HolderPC =>
               task[u].at \in HolderPC /\ task'[u].base = task[u].base,
           \A u \in Tasks : task'[u].at = "column" =>
               rows'[task'[u].row].status = Verdict(u)'
    PROVE  Current'
  BY HoldersAre, HoldersWillBe DEF Current

LEMMA ShownKept ==
    ASSUME Inv, Inv', Shown, column' = column, SameRows,
           \A i \in DOMAIN rows : rows[i].ch # Sms =>
             \/ \E j \in Jobs : task'[j].row = i
             \/ rows'[i].status = rows[i].status /\ \A j \in Jobs : task[j].row # i
    PROVE  Shown'
  BY Domains DEF Shown, SameRows

LEMMA ShownSame ==
    ASSUME Shown, rows' = rows, column' = column,
           \A j \in Jobs : task'[j].row = task[j].row
    PROVE  Shown'
<1>. SUFFICES ASSUME NEW i \in DOMAIN rows, rows[i].ch # Sms,
                     column[rows[i].ch] # rows[i].status
              PROVE  \E j \in Jobs : task'[j].row = i
  BY DEF Shown
<1>1. PICK j \in Jobs : task[j].row = i
  BY DEF Shown
<1>. QED  BY <1>1

\* A task goes on, with the copy and the row it has.
LEMMA QuietMove ==
    ASSUME Inv, Inv', Once, Current, Shown, NEW t \in Tasks, NEW v,
           task' = [task EXCEPT ![t] = v], Same(t),
           v.at \in HolderPC => task[t].at \in HolderPC /\ v.base = task[t].base,
           column' = column, SameRows,
           \A i \in DOMAIN rows : i # task[t].row => rows'[i] = rows[i],
           v.at = "column" => rows'[v.row].status = Verdict(t)'
    PROVE  (Once /\ Current /\ Shown)'
<1>1. task \in [Tasks -> Task] /\ task'[t] = v /\ \A u \in Tasks : u # t => task'[u] = task[u]
  BY DEF Inv, TypeOK
<1>2. \A u \in Tasks : Same(u)
  BY <1>1 DEF Same
<1>3. Once'
  BY <1>2, OnceKept
<1>4. Current'
  <2>1. \A u \in Tasks : task'[u].at \in HolderPC =>
               task[u].at \in HolderPC /\ task'[u].base = task[u].base
    BY <1>1
  <2>2. ASSUME NEW u \in Tasks, task'[u].at = "column"
        PROVE  rows'[task'[u].row].status = Verdict(u)'
    <3>1. CASE u = t
      BY <1>1, <2>2, <3>1
    <3>2. CASE u # t
      <4>1. task'[u] = task[u] /\ task[u].row # 0 /\ task[u].row \in DOMAIN rows
        BY <1>1, <2>2, <3>2 DEF Inv, Good, Owner, WithRow
      <4>2. task[u].row # task[t].row
        BY <3>2, <4>1 DEF Inv, Apart
      <4>3. rows'[task[u].row] = rows[task[u].row]
        BY <4>1, <4>2
      <4>. QED  BY <2>2, <4>1, <4>3 DEF Current, Verdict
    <3>. QED  BY <3>1, <3>2
  <2>. QED  BY <2>1, <2>2, CurrentKept
<1>5. Shown'
  <2>1. ASSUME NEW i \in DOMAIN rows
        PROVE  \/ \E j \in Jobs : task'[j].row = i
               \/ rows'[i].status = rows[i].status /\ \A j \in Jobs : task[j].row # i
    <3>1. CASE \E j \in Jobs : task[j].row = i
      BY <1>2, <3>1 DEF Same, Tasks
    <3>2. CASE \A j \in Jobs : task[j].row # i
      <4>1. task[t].row # i
        <5>1. i # 0
          BY Domains
        <5>2. task[t].row # 0 => t \in Jobs
          BY DEF Inv, Good, Owner, Placed, WithRow, FanPC
        <5>. QED  BY <3>2, <5>1, <5>2
      <4>. QED  BY <3>2, <4>1
    <3>. QED  BY <3>1, <3>2
  <2>. QED  BY <2>1, ShownKept
<1>. QED  BY <1>3, <1>4, <1>5

\* A task ends; if it has a row, it is for the channel that is never shown.
LEMMA QuietEnd ==
    ASSUME Inv, Inv', Once, Current, Shown, NEW t \in Tasks,
           task' = [task EXCEPT ![t] = NoTask], column' = column, SameRows,
           task[t].row = 0 \/ rows[task[t].row].ch = Sms,
           \A i \in DOMAIN rows : i # task[t].row => rows'[i] = rows[i]
    PROVE  (Once /\ Current /\ Shown)'
<1>1. task \in [Tasks -> Task] /\ task'[t] = NoTask
      /\ \A u \in Tasks : u # t => task'[u] = task[u]
  BY DEF Inv, TypeOK
<1>2. \A u \in Tasks : Same(u) \/ task'[u] = NoTask
  BY <1>1 DEF Same
<1>3. Once'
  BY <1>2, OnceKept
<1>4. Current'
  <2>1. \A u \in Tasks : task'[u].at \in HolderPC =>
               u # t /\ task[u].at \in HolderPC /\ task'[u].base = task[u].base
    BY <1>1, Kinds DEF HolderPC
  <2>2. ASSUME NEW u \in Tasks, task'[u].at = "column"
        PROVE  rows'[task'[u].row].status = Verdict(u)'
    <3>1. u # t /\ task'[u] = task[u]
      BY <1>1, <2>1, <2>2 DEF HolderPC
    <3>2. task[u].row # 0 /\ task[u].row \in DOMAIN rows
      BY <2>2, <3>1 DEF Inv, Good, Owner, WithRow
    <3>3. rows'[task[u].row] = rows[task[u].row]
      BY <3>1, <3>2 DEF Inv, Apart
    <3>. QED  BY <2>2, <3>1, <3>3 DEF Current, Verdict
  <2>. QED  BY <2>1, <2>2, CurrentKept
<1>5. Shown'
  <2>1. ASSUME NEW i \in DOMAIN rows, rows[i].ch # Sms
        PROVE  \/ \E j \in Jobs : task'[j].row = i
               \/ rows'[i].status = rows[i].status /\ \A j \in Jobs : task[j].row # i
    <3>1. i # 0 /\ task[t].row # i
      BY <2>1, Domains
    <3>. QED  BY <1>1, <3>1 DEF Tasks
  <2>. QED  BY <2>1, ShownKept
<1>. QED  BY <1>3, <1>4, <1>5

\* The job that holds the column writes it, and ends.
LEMMA QuietColumn ==
    ASSUME Inv, Inv', Once, Current, Shown, NEW t \in Jobs, task[t].at = "column",
           task' = [task EXCEPT ![t] = NoTask], rows' = rows,
           column' = [task[t].base EXCEPT ![task[t].ch] = Verdict(t)]
    PROVE  (Once /\ Current /\ Shown)'
<1>1. /\ task \in [Tasks -> Task] /\ task'[t] = NoTask /\ t \in Tasks /\ task[t] \in Task
      /\ \A u \in Tasks : u # t => task'[u] = task[u]
      /\ column \in [Channels -> Outcome]
  BY DEF Inv, TypeOK, Tasks
<1>2. /\ task[t].row \in DOMAIN rows /\ rows[task[t].row].ch = task[t].ch
      /\ task[t].ch \in Channels
  BY <1>1 DEF Inv, Good, Owner, WithRow, Task
<1>3. task[t].base = column /\ \A u \in Tasks : task[u].at \in HolderPC => u = t
  BY <1>1, HoldersAre DEF Current, HolderPC
<1>4. column' = [column EXCEPT ![task[t].ch] = rows[task[t].row].status]
  BY <1>1, <1>3 DEF Current
<1>5. SameRows /\ \A u \in Tasks : Same(u) \/ task'[u] = NoTask
  BY <1>1 DEF Same, SameRows
<1>6. Once'
  BY <1>5, OnceKept
<1>7. Current'
  <2>1. \A u \in Tasks : task'[u].at \notin HolderPC
    BY <1>1, <1>3, Kinds DEF HolderPC
  <2>. QED  BY <2>1, HoldersWillBe DEF Current, HolderPC
<1>8. Shown'
  <2>1. ASSUME NEW i \in DOMAIN rows, rows[i].ch # Sms
        PROVE  column'[rows[i].ch] = rows[i].status \/ \E j \in Jobs : task'[j].row = i
    <3>1. CASE i = task[t].row
      BY <1>1, <1>2, <1>4, <3>1
    <3>2. CASE i # task[t].row
      <4>1. rows[i].ch # task[t].ch
        BY <1>2, <3>2 DEF Once, OneRow
      <4>2. rows[i].ch \in Channels
        <5>1. rows \in Seq(Row)
          BY DEF Inv, TypeOK
        <5>2. rows[i] \in Row
          BY <5>1
        <5>. QED  BY <5>2 DEF Row
      <4>3. column'[rows[i].ch] = column[rows[i].ch]
        BY <1>1, <1>4, <4>1, <4>2
      <4>4. (\E j \in Jobs : task[j].row = i) => \E j \in Jobs : task'[j].row = i
        BY <1>1, <3>2 DEF Tasks
      <4>. QED  BY <2>1, <4>3, <4>4 DEF Shown
    <3>. QED  BY <3>1, <3>2
  <2>. QED  BY <2>1 DEF Shown
<1>. QED  BY <1>6, <1>7, <1>8

\* No job holds the column, and one takes a copy.
LEMMA QuietLoad ==
    ASSUME Inv, Inv', Once, Current, Shown, NEW t \in Jobs, task[t].at = "load",
           task' = [task EXCEPT ![t].at = "record", ![t].base = column],
           Holders = {}, rows' = rows, column' = column
    PROVE  (Once /\ Current /\ Shown)'
<1>1. /\ task \in [Tasks -> Task] /\ t \in Tasks /\ task[t] \in Task
      /\ \A u \in Tasks : u # t => task'[u] = task[u]
  BY DEF Inv, TypeOK, Tasks
<1>2. /\ Same(t) /\ task'[t].at = "record" /\ task'[t].base = column
  BY <1>1 DEF Same, Task
<1>3. SameRows /\ \A u \in Tasks : Same(u)
  BY <1>1, <1>2 DEF Same, SameRows
<1>4. Once'
  BY <1>3, OnceKept
<1>5. Current'
  <2>1. \A u \in Tasks : task'[u].at \in HolderPC => u = t
    BY <1>1, HoldersAre
  <2>. QED  BY <1>2, <2>1, HoldersWillBe DEF Current, HolderPC
<1>6. Shown'
  BY <1>3, ShownSame DEF Same, Tasks
<1>. QED  BY <1>4, <1>5, <1>6

\* The job of a channel makes the one row of that channel.
LEMMA QuietRecord ==
    ASSUME Inv, Inv', Once, Current, Shown, NEW t \in Jobs, task[t].at = "record",
           NEW v, task' = [task EXCEPT ![t] = v],
           v.at = "send", v.row = Len(rows) + 1, v.base = task[t].base,
           v.kind = "channel", v.ch = task[t].ch, v.left = task[t].left,
           rows' = Append(rows, [ch |-> task[t].ch, status |-> "pending", taken |-> FALSE]),
           column' = column
    PROVE  (Once /\ Current /\ Shown)'
<1>. DEFINE n == Len(rows) + 1
<1>1. /\ task \in [Tasks -> Task] /\ t \in Tasks /\ task[t] \in Task
      /\ \A u \in Tasks : u # t => task'[u] = task[u]
      /\ rows \in Seq(Row) /\ Len(rows) \in Nat /\ DOMAIN rows = 1 .. Len(rows)
      /\ task[t].kind = "channel" /\ task[t].row = 0
  <2>1. t \in Tasks /\ TypeOK /\ Good(t)
    BY DEF Inv, Tasks
  <2>2. task \in [Tasks -> Task] /\ rows \in Seq(Row)
    BY <2>1 DEF TypeOK
  <2>3. task[t].kind = "channel" /\ task[t].row = 0
    BY <2>1 DEF Good, Placed, Owner, WithRow, ChannelPC
  <2>. QED  BY <2>1, <2>2, <2>3
<1>2. /\ task'[t].at = "send" /\ task'[t].row = n /\ task'[t].base = task[t].base
      /\ task'[t].kind = "channel" /\ task'[t].ch = task[t].ch /\ task'[t].left = task[t].left
  BY <1>1
<1>3. /\ DOMAIN rows' = 1 .. n /\ Len(rows') = n
      /\ rows'[n].ch = task[t].ch /\ \A i \in DOMAIN rows : rows'[i] = rows[i]
  BY <1>1
<1>4. \A i \in DOMAIN rows : rows[i].ch # task[t].ch
  BY <1>1 DEF Once, OwnRow
<1>5. \A u \in Tasks : /\ task'[u].kind = task[u].kind /\ task'[u].ch = task[u].ch
                      /\ task'[u].left = task[u].left
                      /\ u # t => task'[u].row = task[u].row
  BY <1>1, <1>2
<1>6. Once'
  <2>1. /\ \A u, w \in Tasks : task'[u].kind = "fan" /\ task'[w].kind = "fan" => u = w
        /\ \A u \in Tasks : task'[u].kind = "fan" => task'[u].at = "add"
    BY <1>1, <1>5 DEF Once, OneFan, FanFirst
  <2>2. \A u \in Tasks : task'[u].kind = "fan" => \A c \in task'[u].left :
         /\ \A j \in Tasks : task'[j].kind = "channel" => task'[j].ch # c
         /\ \A i \in DOMAIN rows' : rows'[i].ch # c
    BY <1>1, <1>3, <1>5 DEF Once, Fresh
  <2>3. \A i, j \in Tasks :
          task'[i].kind = "channel" /\ task'[j].kind = "channel" /\ task'[i].ch = task'[j].ch
             => i = j
    <3>. SUFFICES ASSUME NEW i \in Tasks, NEW j \in Tasks,
                         task'[i].kind = "channel", task'[j].kind = "channel",
                         task'[i].ch = task'[j].ch
                  PROVE  i = j
      OBVIOUS
    <3>1. /\ task[i].kind = "channel" /\ task[j].kind = "channel"
          /\ task[i].ch = task[j].ch
      <4>1. task'[i].kind = task[i].kind /\ task'[i].ch = task[i].ch
        BY <1>1, <1>2
      <4>2. task'[j].kind = task[j].kind /\ task'[j].ch = task[j].ch
        BY <1>1, <1>2
      <4>. QED  BY <4>1, <4>2
    <3>. QED  BY <3>1 DEF Once, OneJob
  <2>4. ASSUME NEW j \in Tasks, NEW i \in DOMAIN rows', task'[j].kind = "channel",
               rows'[i].ch = task'[j].ch
        PROVE  i = task'[j].row
    <3>1. CASE i = n
      BY <1>1, <1>2, <1>3, <1>5, <2>4, <3>1 DEF Once, OneJob
    <3>2. CASE i \in DOMAIN rows
      BY <1>1, <1>3, <1>4, <1>5, <2>4, <3>2 DEF Once, OwnRow
    <3>. QED  BY <1>1, <1>3, <3>1, <3>2
  <2>5. \A i, k \in DOMAIN rows' : rows'[i].ch = rows'[k].ch => i = k
    BY <1>1, <1>3, <1>4 DEF Once, OneRow
  <2>. QED
    BY <2>1, <2>2, <2>3, <2>4, <2>5
       DEF Once, OneFan, FanFirst, Fresh, OneJob, OwnRow, OneRow
<1>7. Current'
  <2>1. \A u \in Tasks : task'[u].at \in HolderPC =>
               task[u].at \in HolderPC /\ task'[u].base = task[u].base
    BY <1>1, <1>2 DEF HolderPC
  <2>2. ASSUME NEW u \in Tasks, task'[u].at = "column"
        PROVE  rows'[task'[u].row].status = Verdict(u)'
    <3>1. u # t /\ task'[u] = task[u]
      BY <1>1, <1>2, <2>2
    <3>2. task[u].row \in DOMAIN rows
      BY <2>2, <3>1 DEF Inv, Good, Owner, WithRow
    <3>. QED  BY <1>3, <2>2, <3>1, <3>2 DEF Current, Verdict
  <2>. QED  BY <2>1, <2>2, CurrentKept
<1>8. Shown'
  <2>1. ASSUME NEW i \in DOMAIN rows', rows'[i].ch # Sms
        PROVE  column'[rows'[i].ch] = rows'[i].status \/ \E j \in Jobs : task'[j].row = i
    <3>1. CASE i = n
      BY <1>2, <3>1
    <3>2. CASE i \in DOMAIN rows
      <4>1. rows'[i] = rows[i]
        BY <1>3, <3>2
      <4>2. CASE \E j \in Jobs : task[j].row = i
        <5>1. PICK j \in Jobs : task[j].row = i
          BY <4>2
        <5>2. j # t /\ j \in Tasks
          BY <1>1, <3>2, <5>1 DEF Tasks
        <5>. QED  BY <1>1, <5>1, <5>2
      <4>3. CASE ~(\E j \in Jobs : task[j].row = i)
        <5>1. rows[i].ch # Sms
          BY <2>1, <4>1
        <5>2. column[rows[i].ch] = rows[i].status
          BY <5>1, <3>2, <4>3 DEF Shown
        <5>3. column'[rows'[i].ch] = rows'[i].status
          BY <4>1, <5>2
        <5>. QED  BY <5>3
      <4>. QED  BY <4>2, <4>3
    <3>. QED  BY <1>1, <1>3, <3>1, <3>2
  <2>. QED  BY <2>1 DEF Shown
<1>. QED  BY <1>6, <1>7, <1>8

\* Every channel that is left gets its job.
LEMMA QuietAdd ==
    ASSUME Inv, Inv', Once, Current, Shown, NEW t \in Tasks, task[t].at = "add",
           NEW c \in task[t].left, NEW j \in Jobs, NextJob(j),
           task' = [task EXCEPT ![j] = Job("channel", c), ![t] = Rest(t, c)],
           rows' = rows, column' = column
    PROVE  (Once /\ Current /\ Shown)'
<1>1. /\ task \in [Tasks -> Task] /\ task[t] \in Task /\ j \in Tasks /\ task[j] = NoTask
      /\ c \in Channels /\ j # t
  <2>1. task \in [Tasks -> Task] /\ j \in Tasks /\ task[j] = NoTask
    BY FreeSlot DEF Inv, TypeOK, Tasks
  <2>2. c \in Channels
    BY <2>1 DEF Task
  <2>. QED  BY <2>1, <2>2, Kinds
<1>2. /\ task'[j] = Job("channel", c) /\ task'[t] = Rest(t, c)
      /\ \A u \in Tasks : u \notin {j, t} => task'[u] = task[u]
  BY <1>1
<1>3. /\ task'[j].kind = "channel" /\ task'[j].ch = c /\ task'[j].row = 0
      /\ task'[j].left = {} /\ task'[j].at = "waiting"
  BY <1>1, <1>2, Kinds
<1>4. task[t].kind = "fan" /\ task[t].row = 0
  BY DEF Inv, Good, Placed, Owner, WithRow, FanPC
<1>5. /\ task'[t].row = 0 /\ task'[t].at \in {"free", "add"}
      /\ task'[t].kind \in {"none", "fan"} /\ task'[t].left = task[t].left \ {c}
      /\ task'[t].kind = "fan" => task'[t].at = "add"
  BY <1>1, <1>2, <1>4, Kinds DEF Rest, Task
<1>6. Once'
  <2>1. /\ \A u, w \in Tasks : task'[u].kind = "fan" /\ task'[w].kind = "fan" => u = w
        /\ \A u \in Tasks : task'[u].kind = "fan" => u = t /\ task'[u].at = "add"
    <3>1. \A u \in Tasks : task'[u].kind = "fan" => u = t
      BY <1>2, <1>3, <1>4 DEF Once, OneFan
    <3>. QED  BY <1>5, <3>1
  <2>2. \A u \in Tasks : task'[u].kind = "channel" =>
          u = j \/ (u # t /\ task[u].kind = "channel" /\ task'[u] = task[u] /\ task[u].ch # c)
    BY <1>2, <1>4, <1>5 DEF Once, Fresh
  <2>3. \A i \in DOMAIN rows : rows[i].ch # c
    BY <1>4 DEF Once, Fresh
  <2>4. \A d \in task'[t].left :
         /\ \A k \in Tasks : task'[k].kind = "channel" => task'[k].ch # d
         /\ \A i \in DOMAIN rows : rows[i].ch # d
    <3>. SUFFICES ASSUME NEW d \in task[t].left, d # c
                  PROVE  /\ \A k \in Tasks : task'[k].kind = "channel" => task'[k].ch # d
                         /\ \A i \in DOMAIN rows : rows[i].ch # d
      BY <1>5
    <3>1. /\ \A k \in Tasks : task[k].kind = "channel" => task[k].ch # d
          /\ \A i \in DOMAIN rows : rows[i].ch # d
      BY <1>4 DEF Once, Fresh
    <3>2. \A k \in Tasks : task'[k].kind = "channel" => task'[k].ch # d
      BY <1>3, <2>2, <3>1
    <3>. QED  BY <3>1, <3>2
  <2>5. ASSUME NEW i \in Tasks, NEW k \in Tasks,
               task'[i].kind = "channel", task'[k].kind = "channel",
               task'[i].ch = task'[k].ch
        PROVE  i = k
    <3>1. CASE i = j \/ k = j
      BY <1>3, <2>2, <2>5, <3>1
    <3>2. CASE i # j /\ k # j
      <4>1. /\ task[i].kind = "channel" /\ task[k].kind = "channel"
            /\ task[i].ch = task[k].ch
        BY <2>2, <2>5, <3>2
      <4>. QED  BY <4>1 DEF Once, OneJob
    <3>. QED  BY <3>1, <3>2
  <2>6. ASSUME NEW k \in Tasks, NEW i \in DOMAIN rows,
               task'[k].kind = "channel", rows[i].ch = task'[k].ch
        PROVE  i = task'[k].row
    <3>1. k # j
      BY <1>3, <2>3, <2>6
    <3>2. task'[k] = task[k]
      BY <2>2, <2>6, <3>1
    <3>. QED  BY <2>6, <3>2 DEF Once, OwnRow
  <2>7. \A i, k \in DOMAIN rows : rows[i].ch = rows[k].ch => i = k
    BY DEF Once, OneRow
  <2>. QED
    BY <2>1, <2>4, <2>5, <2>6, <2>7 DEF Once, OneFan, FanFirst, Fresh, OneJob, OwnRow, OneRow
<1>7. Current'
  <2>1. \A u \in Tasks : task'[u].at \in HolderPC => task'[u] = task[u]
    BY <1>2, <1>3, <1>5 DEF HolderPC
  <2>2. \A u \in Tasks : task'[u].at = "column" => rows'[task'[u].row].status = Verdict(u)'
    BY <2>1 DEF HolderPC, Current, Verdict
  <2>. QED  BY <2>1, <2>2, CurrentKept
<1>8. Shown'
  <2>1. \A u \in Tasks : task'[u].row = task[u].row
    BY <1>1, <1>2, <1>3, <1>4, <1>5, Kinds
  <2>. QED  BY <2>1, ShownSame DEF Tasks
<1>. QED  BY <1>6, <1>7, <1>8
\* The fan-out learns what the user has enabled, before there is any job or row.
LEMMA QuietPrefs ==
    ASSUME Inv, Inv', Once, Current, Shown, NEW t \in Tasks, task[t].at = "prefs",
           NEW v, task' = [task EXCEPT ![t] = v], v.at = "add", v.kind = "fan",
           v.row = task[t].row, v.ch = task[t].ch, rows' = rows, column' = column
    PROVE  (Once /\ Current /\ Shown)'
<1>1. /\ task \in [Tasks -> Task] /\ task'[t] = v /\ task[t].kind = "fan"
      /\ \A u \in Tasks : u # t => task'[u] = task[u]
  BY DEF Inv, TypeOK, Good, Placed, FanPC
<1>2. Len(rows) = 0 /\ DOMAIN rows = {} /\ \A u \in Tasks : task[u].kind # "channel"
  BY <1>1, Domains DEF Once, FanFirst
<1>3. Once'
  <2>1. \A u \in Tasks : task'[u].kind = "fan" => u = t
    BY <1>1 DEF Once, OneFan
  <2>2. \A u \in Tasks : task'[u].kind # "channel"
    BY <1>1, <1>2
  <2>3. DOMAIN rows' = {}
    BY <1>2
  <2>4. OneFan' /\ FanFirst' /\ Fresh'
    BY <1>1, <2>1, <2>2, <2>3 DEF OneFan, FanFirst, Fresh
  <2>5. OneJob' /\ OwnRow' /\ OneRow'
    BY <2>2, <2>3 DEF OneJob, OwnRow, OneRow
  <2>. QED  BY <2>4, <2>5 DEF Once
<1>4. Current'
  <2>1. \A u \in Tasks : task'[u].at \in HolderPC => u # t /\ task'[u] = task[u]
    BY <1>1 DEF HolderPC
  <2>2. \A u \in Tasks : task'[u].at = "column" => rows'[task'[u].row].status = Verdict(u)'
    BY <2>1 DEF HolderPC, Current, Verdict
  <2>. QED  BY <2>1, <2>2, CurrentKept
<1>5. Shown'
  BY <1>1, ShownSame DEF Tasks
<1>. QED  BY <1>3, <1>4, <1>5

\* The request leaves the fan-out to a job.
LEMMA QuietSchedule ==
    ASSUME Inv, Inv', Once, Current, Shown, NEW j \in Jobs, Schedule(j)
    PROVE  (Once /\ Current /\ Shown)'
<1>1. /\ task \in [Tasks -> Task] /\ j \in Tasks /\ Request \in Tasks /\ j # Request
      /\ task[j] = NoTask /\ task[Request].at = "find"
      /\ task' = [task EXCEPT ![j] = Job("fan", InApp), ![Request] = NoTask]
  BY JobsAssumption, FreeSlot DEF Inv, TypeOK, Tasks, Schedule
<1>2. task[Request].kind = "fan" /\ task[Request].row = 0
  BY <1>1 DEF Inv, Good, Placed, Owner, WithRow, FanPC
<1>3. Len(rows) = 0 /\ DOMAIN rows = {} /\ \A u \in Tasks : task[u].kind # "channel"
  BY <1>1, <1>2, Domains DEF Once, FanFirst
<1>4. /\ task'[j].kind = "fan" /\ task'[j].at = "waiting" /\ task'[j].left = {}
      /\ task'[j].row = 0
      /\ task'[Request] = NoTask
      /\ \A u \in Tasks : u \notin {j, Request} => task'[u] = task[u]
  <2>1. task'[j] = Job("fan", InApp)
    BY <1>1
  <2>. QED  BY <1>1, <2>1, Kinds, ChannelsAssumption
<1>5. rows' = rows /\ column' = column
  BY DEF Schedule
<1>6. Once'
  <2>1. \A u \in Tasks : task'[u].kind = "fan" => u = j
    BY <1>1, <1>2, <1>4, Kinds DEF Once, OneFan
  <2>2. \A u \in Tasks : task'[u].kind # "channel"
    BY <1>3, <1>4, Kinds
  <2>3. DOMAIN rows' = {} /\ Len(rows') = 0
    BY <1>3, <1>5
  <2>4. OneFan' /\ FanFirst' /\ Fresh'
    BY <1>4, <2>1, <2>2, <2>3 DEF OneFan, FanFirst, Fresh
  <2>5. OneJob' /\ OwnRow' /\ OneRow'
    BY <2>2, <2>3 DEF OneJob, OwnRow, OneRow
  <2>. QED  BY <2>4, <2>5 DEF Once
<1>7. Current'
  <2>1. \A u \in Tasks : task'[u].at \in HolderPC => task'[u] = task[u]
    BY <1>4, Kinds DEF HolderPC
  <2>2. \A u \in Tasks : task'[u].at = "column" => rows'[task'[u].row].status = Verdict(u)'
    BY <1>5, <2>1 DEF HolderPC, Current, Verdict
  <2>. QED  BY <1>5, <2>1, <2>2, CurrentKept
<1>8. Shown'
  <2>1. \A u \in Tasks : task'[u].row = task[u].row
    BY <1>1, <1>2, <1>4, Kinds
  <2>. QED  BY <1>5, <2>1, ShownSame DEF Tasks
<1>. QED  BY <1>6, <1>7, <1>8

\* The steps of the fan-out.
LEMMA QuietFan ==
    ASSUME Inv, Inv', Once, Current, Shown, NEW t \in Tasks,
           FindFan(t) \/ Prefs(t) \/ Add(t) \/ (t \in Jobs /\ BeginFan(t)), ~Fault
    PROVE  (Once /\ Current /\ Shown)'
<1>1. /\ task \in [Tasks -> Task] /\ task[t] \in Task /\ Good(t) /\ column' = column
  BY DEF Inv, TypeOK, FindFan, Prefs, Add, BeginFan
<1>2. rows' = rows /\ SameRows
  BY DEF FindFan, Prefs, Add, BeginFan, Or, SameRows
<1>3. CASE task[t].row = 0 /\ Done(t)
  BY <1>1, <1>2, <1>3, QuietEnd DEF Done
<1>4. ASSUME NEW label \in {"find", "prefs"}, GoTo(t, label), task[t].at # "add"
      PROVE  (Once /\ Current /\ Shown)'
  <2>1. PICK v : v = [task[t] EXCEPT !.at = label]
    OBVIOUS
  <2>2. /\ v.at = label /\ v.row = task[t].row /\ v.kind = task[t].kind
        /\ v.ch = task[t].ch /\ v.left = task[t].left
    BY <1>1, <2>1 DEF Task
  <2>3. task' = [task EXCEPT ![t] = v]
    BY <1>4, <2>1 DEF GoTo
  <2>4. Same(t) /\ v.at \notin HolderPC
    BY <1>1, <1>4, <2>2, <2>3 DEF Same, HolderPC
  <2>. QED  BY <1>1, <1>2, <2>3, <2>4, QuietMove DEF HolderPC
<1>5. CASE FindFan(t)
  <2>1. task[t].at = "find" /\ task[t].row = 0
    BY <1>1, <1>5 DEF FindFan, Good, Owner, WithRow
  <2>2. Done(t) \/ GoTo(t, "prefs")
    BY <1>5 DEF FindFan, Or
  <2>. QED  BY <1>3, <1>4, <2>1, <2>2
<1>6. CASE Prefs(t)
  <2>1. task[t].at = "prefs" /\ task[t].row = 0 /\ task[t].kind = "fan"
    BY <1>1, <1>6 DEF Prefs, Good, Owner, Placed, WithRow, FanPC
  <2>2. PICK enabled \in Preferences \cup {{InApp}} :
          task' = [task EXCEPT ![t] =
                     IF enabled = {} THEN NoTask
                     ELSE [@ EXCEPT !.at = "add", !.left = enabled]]
    BY <1>6 DEF Prefs, Or
  <2>3. CASE enabled = {}
    BY <1>3, <2>1, <2>2, <2>3 DEF Done
  <2>4. CASE enabled # {}
    <3>1. PICK v : v = [task[t] EXCEPT !.at = "add", !.left = enabled]
      OBVIOUS
    <3>2. v.at = "add" /\ v.kind = "fan" /\ v.row = task[t].row /\ v.ch = task[t].ch
      BY <1>1, <2>1, <3>1 DEF Task
    <3>3. task' = [task EXCEPT ![t] = v]
      BY <1>1, <2>2, <2>4, <3>1
    <3>. QED  BY <1>1, <1>2, <2>1, <3>2, <3>3, QuietPrefs
  <2>. QED  BY <2>3, <2>4
<1>7. CASE Add(t)
  <2>1. PICK c \in task[t].left, j \in Jobs :
          /\ NextJob(j)
          /\ task' = [task EXCEPT ![j] = Job("channel", c), ![t] = Rest(t, c)]
    BY <1>7 DEF Add, Or
  <2>. QED  BY <1>1, <1>2, <1>7, <2>1, QuietAdd DEF Add
<1>8. CASE t \in Jobs /\ BeginFan(t)
  BY <1>4, <1>8 DEF BeginFan
<1>. QED  BY <1>5, <1>6, <1>7, <1>8
\* The steps of a channel's job.
LEMMA QuietChannel ==
    ASSUME Inv, Inv', Once, Current, Shown, NEW t \in Jobs, ~Fault, faults = 0, crashes = 0,
           "overlapped" \notin marks',
           \/ BeginChannel(t) \/ Load(t) \/ Record(t) \/ Send(t) \/ Stamp(t)
           \/ Settle(t) \/ Column(t) \/ Catch(t) \/ Recover(t)
    PROVE  (Once /\ Current /\ Shown)'
<1>1. /\ task \in [Tasks -> Task] /\ task[t] \in Task /\ Good(t) /\ t \in Tasks
      /\ rows \in Seq(Row) /\ Len(rows) \in Nat /\ DOMAIN rows = 1 .. Len(rows)
  BY DEF Inv, TypeOK, Tasks
\* On to the next point, with the answer and the row that are given.
<1>2. ASSUME NEW label, NEW ok,
             task' = [task EXCEPT ![t].at = label, ![t].ok = ok],
             label \notin {"add", "column"}, task[t].at # "add", column' = column,
             label \in HolderPC => task[t].at \in HolderPC, SameRows,
             \A i \in DOMAIN rows : i # task[t].row => rows'[i] = rows[i]
      PROVE  (Once /\ Current /\ Shown)'
  <2>1. PICK v : v = [task[t] EXCEPT !.at = label, !.ok = ok]
    OBVIOUS
  <2>2. /\ v.at = label /\ v.row = task[t].row /\ v.kind = task[t].kind
        /\ v.ch = task[t].ch /\ v.left = task[t].left /\ v.base = task[t].base
    BY <1>1, <2>1 DEF Task
  <2>3. task' = [task EXCEPT ![t] = v]
    BY <1>1, <1>2, <2>1
  <2>4. Same(t)
    BY <1>1, <1>2, <2>2, <2>3 DEF Same
  <2>. QED  BY <1>1, <1>2, <2>2, <2>3, <2>4, QuietMove
<1>3. ASSUME NEW label, GoTo(t, label),
             label \notin {"add", "column"}, task[t].at # "add",
             label \in HolderPC => task[t].at \in HolderPC,
             rows' = rows, column' = column
      PROVE  (Once /\ Current /\ Shown)'
  <2>1. SameRows
    BY <1>3 DEF SameRows
  <2>2. task' = [task EXCEPT ![t].at = label, ![t].ok = task[t].ok]
    <3>1. [task[t] EXCEPT !.at = label] = [task[t] EXCEPT !.at = label, !.ok = task[t].ok]
      BY <1>1 DEF Task
    <3>. QED  BY <1>1, <1>3, <3>1 DEF GoTo
  <2>. QED  BY <1>2, <1>3, <2>1, <2>2
<1>4. CASE BeginChannel(t)
  BY <1>3, <1>4 DEF BeginChannel, HolderPC
<1>5. CASE Load(t)
  <2>1. CASE Done(t)
    <3>1. task[t].row = 0 /\ rows' = rows /\ column' = column /\ SameRows
      BY <1>1, <1>5 DEF Load, Good, Owner, WithRow, SameRows
    <3>. QED  BY <1>1, <2>1, <3>1, QuietEnd DEF Done
  <2>2. CASE /\ task' = [task EXCEPT ![t].at = "record", ![t].base = column]
             /\ Mark("overlapped", Holders # {})
    <3>1. Holders = {}
      BY <2>2 DEF Mark
    <3>. QED  BY <1>5, <2>2, <3>1, QuietLoad DEF Load
  <2>. QED  BY <1>5, <2>1, <2>2 DEF Load
<1>6. CASE Record(t)
  <2>1. /\ task[t].at = "record" /\ task[t].kind = "channel" /\ column' = column
        /\ rows' = Append(rows, [ch |-> task[t].ch, status |-> "pending", taken |-> FALSE])
        /\ task' = [task EXCEPT ![t].at = "send", ![t].row = Len(rows) + 1]
    BY <1>1, <1>6 DEF Record, Or, Good, Placed, ChannelPC
  <2>2. PICK n : n = Len(rows) + 1
    OBVIOUS
  <2>3. PICK v : v = [task[t] EXCEPT !.at = "send", !.row = n]
    OBVIOUS
  <2>4. /\ v.at = "send" /\ v.row = n /\ v.kind = task[t].kind
        /\ v.ch = task[t].ch /\ v.left = task[t].left /\ v.base = task[t].base
    BY <1>1, <2>3 DEF Task
  <2>5. task' = [task EXCEPT ![t] = v]
    BY <1>1, <2>1, <2>2, <2>3
  <2>. QED  BY <2>1, <2>2, <2>4, <2>5, QuietRecord, ZenonT(60)
<1>7. CASE Send(t)
  <2>1. task[t].at = "send" /\ column' = column /\ task[t].row \in DOMAIN rows
    BY <1>1, <1>7 DEF Send, Good, Owner, WithRow
  <2>2. CASE rows' = rows /\ task' = [task EXCEPT ![t].at = "stamp", ![t].ok = TRUE]
    <3>1. PICK label \in {"stamp"}, ok \in {TRUE} : TRUE
      OBVIOUS
    <3>2. task' = [task EXCEPT ![t].at = label, ![t].ok = ok]
      BY <2>2, <3>1
    <3>3. SameRows /\ \A i \in DOMAIN rows : i # task[t].row => rows'[i] = rows[i]
      BY <2>2 DEF SameRows
    <3>4. /\ label \notin {"add", "column"} /\ task[t].at # "add"
          /\ label \in HolderPC => task[t].at \in HolderPC
      BY <2>1, <3>1 DEF HolderPC
    <3>. QED  BY <1>2, <2>1, <3>2, <3>3, <3>4
  <2>3. CASE rows' = rows /\ GoTo(t, "catch")
    BY <1>3, <2>1, <2>3 DEF HolderPC
  <2>4. ASSUME NEW took \in BOOLEAN, Take(t, took),
               task' = [task EXCEPT ![t].at = IF took THEN "stamp" ELSE "settle",
                                    ![t].ok = took]
        PROVE  (Once /\ Current /\ Shown)'
    <3>1. rows' = [rows EXCEPT ![task[t].row].taken = took]
      BY <2>4 DEF Take
    <3>2. PICK s \in Row : s = rows[task[t].row]
      BY <1>1, <2>1
    <3>3. PICK r \in Row : r = [s EXCEPT !.taken = took]
      BY DEF Row
    <3>4. r.ch = s.ch
      BY <3>3 DEF Row
    <3>5. rows' = [rows EXCEPT ![task[t].row] = r]
      BY <1>1, <3>1, <3>2, <3>3
    <3>6. SameRows /\ \A i \in DOMAIN rows : i # task[t].row => rows'[i] = rows[i]
      BY <1>1, <2>1, <3>2, <3>4, <3>5 DEF SameRows
    <3>7. PICK label \in {"stamp", "settle"} : label = IF took THEN "stamp" ELSE "settle"
      OBVIOUS
    <3>8. task' = [task EXCEPT ![t].at = label, ![t].ok = took]
      BY <2>4, <3>7
    <3>. QED  BY <1>2, <2>1, <3>6, <3>8 DEF HolderPC
  <2>. QED  BY <1>7, <2>2, <2>3, <2>4 DEF Send
<1>8. CASE Stamp(t)
  BY <1>3, <1>8 DEF Stamp, OrCatch, HolderPC
<1>9. CASE Settle(t)
  <2>1. /\ task[t].at = "settle" /\ column' = column /\ task[t].row \in DOMAIN rows
        /\ rows' = [rows EXCEPT ![task[t].row].status = Verdict(t)]
        /\ GoTo(t, "column")
    BY <1>1, <1>9 DEF Settle, OrCatch, Good, Owner, WithRow
  <2>2. PICK st \in {"sent", "failed"} : st = Verdict(t)
    BY DEF Verdict
  <2>3. PICK s \in Row : s = rows[task[t].row]
    BY <1>1, <2>1
  <2>4. PICK r \in Row : r = [s EXCEPT !.status = st]
    BY DEF Row
  <2>5. r.ch = s.ch /\ r.status = st
    BY <2>4 DEF Row
  <2>6. rows' = [rows EXCEPT ![task[t].row] = r]
    BY <1>1, <2>1, <2>2, <2>3, <2>4
  <2>7. /\ SameRows /\ \A i \in DOMAIN rows : i # task[t].row => rows'[i] = rows[i]
        /\ rows'[task[t].row] = r
    BY <1>1, <2>1, <2>3, <2>5, <2>6 DEF SameRows
  <2>8. PICK v : v = [task[t] EXCEPT !.at = "column"]
    OBVIOUS
  <2>9. /\ v.at = "column" /\ v.row = task[t].row /\ v.kind = task[t].kind /\ v.ok = task[t].ok
        /\ v.ch = task[t].ch /\ v.left = task[t].left /\ v.base = task[t].base
    BY <1>1, <2>8 DEF Task
  <2>10. task' = [task EXCEPT ![t] = v]
    BY <2>1, <2>8 DEF GoTo
  <2>11. Same(t) /\ Verdict(t)' = st
    <3>1. task'[t] = v
      BY <1>1, <2>10
    <3>. QED  BY <2>1, <2>2, <2>9, <3>1 DEF Same, Verdict
  <2>. QED
    BY <1>1, <2>1, <2>5, <2>7, <2>9, <2>10, <2>11, QuietMove DEF HolderPC
<1>10. CASE Column(t)
  BY <1>10, QuietColumn DEF Column, OrCatch, Done
<1>11. CASE Catch(t)
  <2>1. /\ task[t].at = "catch" /\ column' = column /\ task[t].row \in DOMAIN rows
        /\ rows[task[t].row].ch = Sms
        /\ rows' = [rows EXCEPT ![task[t].row].status = "failed"]
        /\ Done(t)
    BY <1>1, <1>11 DEF Catch, Or, Good, Owner, Told, WithRow
  <2>2. PICK s \in Row : s = rows[task[t].row]
    BY <1>1, <2>1
  <2>3. PICK r \in Row : r = [s EXCEPT !.status = "failed"]
    BY DEF Row
  <2>4. r.ch = s.ch
    BY <2>3 DEF Row
  <2>5. rows' = [rows EXCEPT ![task[t].row] = r]
    BY <1>1, <2>1, <2>2, <2>3
  <2>6. SameRows /\ \A i \in DOMAIN rows : i # task[t].row => rows'[i] = rows[i]
    BY <1>1, <2>1, <2>2, <2>4, <2>5 DEF SameRows
  <2>. QED  BY <1>1, <2>1, <2>6, QuietEnd DEF Done
<1>12. CASE Recover(t)
  BY <1>1, <1>12 DEF Recover, Good, Placed
<1>. QED
  BY <1>4, <1>5, <1>6, <1>7, <1>8, <1>9, <1>10, <1>11, <1>12

\* What counts as gone wrong is never forgotten.
LEMMA Monotone ==
    ASSUME Inv, [Next]_vars
    PROVE  marks \subseteq marks' /\ faults <= faults' /\ crashes <= crashes'
<1>1. faults \in Nat /\ crashes \in Nat
  BY DEF Inv, TypeOK
<1>2. faults' \in {faults, faults + 1} /\ crashes' \in {crashes, crashes + 1}
  BY ZenonT(60) DEF Next, Work, FindFan, Prefs, Add, BeginFan, BeginChannel, Load, Record, Send,
         Stamp, Settle, Column, Catch, Recover, Schedule, Delete, Crash, vars, Or, OrCatch, Fault
<1>3. marks \subseteq marks'
  BY ZenonT(60) DEF Next, Work, FindFan, Prefs, Add, BeginFan, BeginChannel, Load, Record, Send,
         Stamp, Settle, Column, Catch, Recover, Schedule, Delete, Crash, vars, Or, OrCatch,
         Throw, GiveUp, Mark
<1>. QED  BY <1>1, <1>2, <1>3

LEMMA QuietStep ==
    ASSUME Inv, Inv', QuietInv, [Next]_vars
    PROVE  QuietInv'
<1>. SUFFICES ASSUME Quiet'
              PROVE  (Once /\ Current /\ Shown)'
  BY DEF QuietInv
<1>1. /\ faults = 0 /\ crashes = 0 /\ faults' = 0 /\ crashes' = 0
      /\ "overlapped" \notin marks /\ "overlapped" \notin marks'
  BY Monotone DEF Quiet, Inv, TypeOK
<1>2. Once /\ Current /\ Shown
  BY <1>1 DEF QuietInv, Quiet
<1>3. ~Fault
  BY <1>1 DEF Fault
<1>4. ASSUME NEW t \in Tasks, Work(t)
      PROVE  (Once /\ Current /\ Shown)'
  <2>1. CASE FindFan(t) \/ Prefs(t) \/ Add(t) \/ (t \in Jobs /\ BeginFan(t))
    BY <1>2, <1>3, <2>1, QuietFan
  <2>2. CASE /\ t \in Jobs
             /\ \/ BeginChannel(t) \/ Load(t) \/ Record(t) \/ Send(t) \/ Stamp(t)
                \/ Settle(t) \/ Column(t) \/ Catch(t) \/ Recover(t)
    BY <1>1, <1>2, <1>3, <2>2, QuietChannel
  <2>. QED  BY <1>4, <2>1, <2>2 DEF Work
<1>5. ASSUME NEW j \in Jobs, Schedule(j)
      PROVE  (Once /\ Current /\ Shown)'
  BY <1>2, <1>5, QuietSchedule
<1>6. CASE UNCHANGED <<task, rows, column>>
  <2>1. OneFan' /\ FanFirst' /\ Fresh' /\ OneJob' /\ OwnRow' /\ OneRow'
    BY <1>2, <1>6 DEF Once, OneFan, FanFirst, Fresh, OneJob, OwnRow, OneRow
  <2>2. Current'
    BY <1>2, <1>6 DEF Current, Holders, Verdict
  <2>3. Shown'
    BY <1>2, <1>6 DEF Shown
  <2>. QED  BY <2>1, <2>2, <2>3 DEF Once
<1>7. CASE Delete \/ UNCHANGED vars
  BY <1>6, <1>7 DEF Delete, vars
<1>8. ~Crash
  BY <1>1 DEF Crash
<1>. QED  BY <1>4, <1>5, <1>7, <1>8 DEF Next

\* The column shows what became of every message, as long as the jobs come one
\* after another and nothing goes wrong: each begins with what the last has left.
THEOREM ColumnTellsTheTruth == Spec => []ColumnTruthful
<1>1. Init => QuietInv
  <2>. SUFFICES ASSUME Init
                PROVE  Once /\ Current /\ Shown
    BY DEF QuietInv
  <2>1. /\ rows = <<>> /\ Len(rows) = 0 /\ DOMAIN rows = {}
        /\ \A t \in Tasks : task[t].kind # "channel" /\ task[t].left = {}
        /\ \A t \in Tasks : task[t].kind = "fan" => t = Request
        /\ \A t \in Tasks : task[t].at \in {"free", "find"}
    BY Kinds DEF Init, NoTask
  <2>2. Once
    BY <2>1 DEF Once, OneFan, FanFirst, Fresh, OneJob, OwnRow, OneRow
  <2>3. Current /\ Shown
    BY <2>1 DEF Current, Shown, Holders, ChannelPC, Tasks
  <2>. QED  BY <2>2, <2>3
<1>2. Inv /\ QuietInv /\ [Next]_vars => QuietInv'
  BY InvStep, QuietStep
<1>3. Inv /\ QuietInv => ColumnTruthful
  BY DEF Inv, ColumnOK, Delivered, QuietInv, Quiet, Shown, ColumnTruthful
<1>. QED  BY <1>1, <1>2, <1>3, Always, PTL DEF Spec

-----------------------------------------------------------------------------
(* Rows that stay pending. *)

\* What a step of task t does to the rows that somebody has.
RowsOfStep(t) ==
    /\ crashes' = crashes /\ faults' \in {faults, faults + 1}
    /\ \A u \in Tasks \ {t} : task[u].row # 0 => task'[u].row = task[u].row
    /\ \A i \in DOMAIN rows' : rows'[i].status = "pending" =>
         \/ i \in DOMAIN rows /\ rows[i].status = "pending"
         \/ t \in Jobs /\ task'[t].row = i
    /\ \/ task[t].row = 0
       \/ task'[t].row = task[t].row
       \/ faults' = faults + 1
       \/ rows'[task[t].row].status # "pending"

\* What it does to the slots.
SlotsOfStep(t) ==
    \/ Busy' \subseteq Busy
    \/ Slot /\ Busy' \subseteq Busy \cup {t}

LEMMA ThrowRows ==
    ASSUME Inv, NEW t \in Tasks, Throw(t), Fault, UNCHANGED <<rows, crashes>>
    PROVE  RowsOfStep(t) /\ SlotsOfStep(t)
<1>1. task'[t] = Retried(t) /\ \A u \in Tasks \ {t} : task'[u] = task[u]
  BY DEF Throw, Inv, TypeOK
<1>2. RowsOfStep(t)
  BY <1>1 DEF RowsOfStep, Fault
<1>3. Retried(t).at \notin FanPC \cup ChannelPC
  BY RetriedGood DEF FanPC, ChannelPC
<1>. QED  BY <1>1, <1>2, <1>3 DEF SlotsOfStep, Busy, Running, Tasks

\* A step of a task that keeps its row and the status of the rows.
LEMMA KeepsRows ==
    ASSUME Inv, NEW t \in Tasks, NEW v \in Task, task' = [task EXCEPT ![t] = v],
           v.row = task[t].row, Running(t), UNCHANGED crashes,
           faults' = faults \/ Fault, DOMAIN rows' = DOMAIN rows,
           \A i \in DOMAIN rows : rows'[i].status = "pending" => rows[i].status = "pending"
    PROVE  RowsOfStep(t) /\ SlotsOfStep(t)
<1>1. task'[t] = v /\ \A u \in Tasks \ {t} : task'[u] = task[u]
  BY DEF Inv, TypeOK
<1>2. RowsOfStep(t)
  BY <1>1 DEF RowsOfStep, Fault
<1>. QED  BY <1>1, <1>2 DEF SlotsOfStep, Busy, Running, Tasks

\* A task is done, its row settled or never made.
LEMMA EndsRows ==
    ASSUME Inv, NEW t \in Tasks, Done(t), UNCHANGED <<crashes, faults>>,
           DOMAIN rows' = DOMAIN rows,
           \A i \in DOMAIN rows : rows'[i].status = "pending" => rows[i].status = "pending",
           task[t].row = 0 \/ rows'[task[t].row].status # "pending"
    PROVE  RowsOfStep(t) /\ SlotsOfStep(t)
<1>1. task'[t] = NoTask /\ \A u \in Tasks \ {t} : task'[u] = task[u]
  BY DEF Done, Inv, TypeOK
<1>2. RowsOfStep(t)
  BY <1>1 DEF RowsOfStep
<1>. QED  BY <1>1, <1>2, Kinds DEF SlotsOfStep, Busy, Running, Tasks, FanPC, ChannelPC

\* A job that is not running begins.
LEMMA BeginsRows ==
    ASSUME Inv, NEW t \in Jobs, NEW label, GoTo(t, label), Slot,
           UNCHANGED <<rows, crashes, faults>>
    PROVE  RowsOfStep(t) /\ SlotsOfStep(t)
<1>1. task'[t].row = task[t].row /\ \A u \in Tasks \ {t} : task'[u] = task[u]
  BY DEF GoTo, Inv, TypeOK, Tasks, Task
<1>2. RowsOfStep(t)
  BY <1>1 DEF RowsOfStep
<1>. QED  BY <1>1, <1>2 DEF SlotsOfStep, Busy, Running, Tasks

LEMMA FanRows ==
    ASSUME Inv, NEW t \in Tasks,
           FindFan(t) \/ Prefs(t) \/ Add(t) \/ (t \in Jobs /\ BeginFan(t))
    PROVE  RowsOfStep(t) /\ SlotsOfStep(t)
<1>1. task \in [Tasks -> Task] /\ task[t] \in Task /\ rows \in Seq(Row)
  BY DEF Inv, TypeOK
<1>2. (task[t].row = 0 /\ Running(t)) \/ (t \in Jobs /\ BeginFan(t))
  BY DEF FindFan, Prefs, Add, BeginFan, Inv, Good, Owner, WithRow, Running, FanPC
<1>3. CASE FindFan(t)
  <2>1. CASE Done(t) /\ UNCHANGED <<rows, marks, faults>>
    BY <1>1, <1>2, <1>3, <2>1, EndsRows DEF FindFan, BeginFan
  <2>2. CASE GoTo(t, "prefs") /\ UNCHANGED <<rows, marks, faults>>
    <3>1. task' = [task EXCEPT ![t] = [task[t] EXCEPT !.at = "prefs"]]
      BY <1>1, <2>2 DEF GoTo
    <3>2. [task[t] EXCEPT !.at = "prefs"] \in Task /\ [task[t] EXCEPT !.at = "prefs"].row = task[t].row
      BY <1>1 DEF Task, FanPC
    <3>. QED  BY <1>2, <1>3, <2>2, <3>1, <3>2, KeepsRows DEF FindFan, BeginFan
  <2>. QED  BY <1>3, <2>1, <2>2, ThrowRows DEF FindFan, Or
<1>4. CASE Prefs(t)
  <2>1. ASSUME NEW enabled \in Preferences \cup {{InApp}}, enabled = {},
               task' = [task EXCEPT ![t] = NoTask], UNCHANGED <<rows, marks, faults>>
        PROVE  RowsOfStep(t) /\ SlotsOfStep(t)
    BY <1>1, <1>2, <1>4, <2>1, EndsRows DEF Prefs, BeginFan, Done
  <2>2. ASSUME NEW enabled \in Preferences \cup {{InApp}},
               task' = [task EXCEPT ![t] = [task[t] EXCEPT !.at = "add", !.left = enabled]],
               UNCHANGED <<rows, marks, faults>>
        PROVE  RowsOfStep(t) /\ SlotsOfStep(t)
    <3>1. enabled \subseteq Channels
      BY PreferencesAssumption, ChannelsAssumption
    <3>2. [task[t] EXCEPT !.at = "add", !.left = enabled] \in Task
          /\ [task[t] EXCEPT !.at = "add", !.left = enabled].row = task[t].row
      BY <1>1, <3>1 DEF Task, FanPC
    <3>. QED  BY <1>2, <1>4, <2>2, <3>2, KeepsRows DEF Prefs, BeginFan
  <2>3. \A enabled \in Preferences \cup {{InApp}} :
          task' = [task EXCEPT ![t] = IF enabled = {} THEN NoTask
                                      ELSE [@ EXCEPT !.at = "add", !.left = enabled]]
          => \/ enabled = {} /\ task' = [task EXCEPT ![t] = NoTask]
             \/ task' = [task EXCEPT ![t] = [task[t] EXCEPT !.at = "add", !.left = enabled]]
    BY <1>1
  <2>. QED  BY <1>4, <2>1, <2>2, <2>3, ThrowRows DEF Prefs, Or
<1>5. CASE Add(t)
  <2>1. ASSUME NEW c \in task[t].left, NEW j \in Jobs, NextJob(j),
               task' = [task EXCEPT ![j] = Job("channel", c), ![t] = Rest(t, c)],
               UNCHANGED <<rows, marks, faults>>
        PROVE  RowsOfStep(t) /\ SlotsOfStep(t)
    <3>1. c \in Channels /\ task[t].at = "add" /\ j \in Tasks /\ task[j].at = "free"
      BY <1>1, <1>5, <2>1 DEF Add, Task, Tasks, NextJob, Free
    <3>2. Rest(t, c).row = 0
      BY <1>1, <1>2, <3>1, Kinds DEF Rest, Task, Running, BeginFan
    <3>3. /\ task'[t] = Rest(t, c) /\ task'[j] = Job("channel", c)
          /\ \A u \in Tasks \ {t, j} : task'[u] = task[u]
          /\ task[j].row = 0
      BY <1>1, <2>1, <3>1 DEF Inv, Good, Owner, WithRow
    <3>4. RowsOfStep(t)
      BY <1>2, <1>5, <2>1, <3>1, <3>2, <3>3 DEF RowsOfStep, Add, BeginFan
    <3>5. Busy' \subseteq Busy
      BY <1>2, <3>1, <3>3, Kinds DEF Busy, Running, Tasks, FanPC, ChannelPC, BeginFan
    <3>. QED  BY <3>4, <3>5 DEF SlotsOfStep
  <2>. QED  BY <1>5, <2>1, ThrowRows DEF Add, Or
<1>6. CASE t \in Jobs /\ BeginFan(t)
  BY <1>6, BeginsRows DEF BeginFan
<1>. QED  BY <1>3, <1>4, <1>5, <1>6

LEMMA MovesRows ==
    ASSUME Inv, NEW t \in Jobs, NEW label \in ChannelPC, GoTo(t, label), Running(t),
           UNCHANGED crashes, faults' = faults \/ Fault, DOMAIN rows' = DOMAIN rows,
           \A i \in DOMAIN rows : rows'[i].status = "pending" => rows[i].status = "pending"
    PROVE  RowsOfStep(t) /\ SlotsOfStep(t)
<1>1. task \in [Tasks -> Task] /\ task[t] \in Task /\ t \in Tasks
  BY DEF Inv, TypeOK, Tasks
<1>2. task' = [task EXCEPT ![t] = [task[t] EXCEPT !.at = label]]
  BY <1>1 DEF GoTo
<1>3. [task[t] EXCEPT !.at = label] \in Task /\ [task[t] EXCEPT !.at = label].row = task[t].row
  BY <1>1 DEF Task
<1>. QED  BY <1>1, <1>2, <1>3, KeepsRows

LEMMA ChannelRows ==
    ASSUME Inv, NEW t \in Jobs,
           \/ BeginChannel(t) \/ Load(t) \/ Record(t) \/ Send(t) \/ Stamp(t)
           \/ Settle(t) \/ Column(t) \/ Catch(t) \/ Recover(t)
    PROVE  RowsOfStep(t) /\ SlotsOfStep(t)
<1>1. /\ task \in [Tasks -> Task] /\ task[t] \in Task /\ t \in Tasks /\ rows \in Seq(Row)
      /\ column \in [Channels -> Outcome] /\ Owner(t)
      /\ DOMAIN rows = 1 .. Len(rows) /\ Len(rows) \in Nat
  BY DEF Inv, TypeOK, Tasks, Good
<1>2. task[t].at \in ChannelPC => Running(t)
  BY DEF Running
<1>3. CASE BeginChannel(t)
  BY <1>3, BeginsRows DEF BeginChannel
<1>4. CASE Load(t)
  <2>1. task[t].row = 0 /\ Running(t)
    BY <1>1, <1>2, <1>4 DEF Load, Owner, WithRow, ChannelPC
  <2>2. CASE Done(t) /\ UNCHANGED faults
    BY <1>1, <1>4, <2>1, <2>2, EndsRows DEF Load
  <2>3. CASE task' = [task EXCEPT ![t].at = "record", ![t].base = column] /\ UNCHANGED faults
    <3>1. task' = [task EXCEPT ![t] = [task[t] EXCEPT !.at = "record", !.base = column]]
      BY <1>1, <2>3
    <3>2. [task[t] EXCEPT !.at = "record", !.base = column] \in Task
          /\ [task[t] EXCEPT !.at = "record", !.base = column].row = task[t].row
      BY <1>1 DEF Task, ChannelPC
    <3>. QED  BY <1>1, <1>4, <2>1, <2>3, <3>1, <3>2, KeepsRows DEF Load
  <2>. QED  BY <1>1, <1>4, <2>2, <2>3, ThrowRows DEF Load
<1>5. CASE Record(t)
  <2>1. task[t].row = 0 /\ Running(t)
    BY <1>1, <1>2, <1>5 DEF Record, Owner, WithRow, ChannelPC
  <2>2. ASSUME rows' = Append(rows, [ch |-> task[t].ch, status |-> "pending", taken |-> FALSE]),
               task' = [task EXCEPT ![t].at = "send", ![t].row = Len(rows) + 1],
               UNCHANGED faults
        PROVE  RowsOfStep(t) /\ SlotsOfStep(t)
    <3>1. /\ task'[t].row = Len(rows) + 1
          /\ \A u \in Tasks \ {t} : task'[u] = task[u]
      BY <1>1, <2>2 DEF Task
    <3>2. /\ DOMAIN rows' = 1 .. Len(rows) + 1
          /\ \A i \in DOMAIN rows : rows'[i] = rows[i]
      BY <1>1, <2>2
    <3>3. RowsOfStep(t)
      BY <1>1, <1>5, <2>1, <2>2, <3>1, <3>2 DEF RowsOfStep, Record
    <3>. QED  BY <1>1, <2>1, <3>1, <3>3 DEF SlotsOfStep, Busy, Running, Tasks
  <2>. QED  BY <1>1, <1>5, <2>2, ThrowRows DEF Record, Or
<1>6. CASE Send(t)
  <2>1. Running(t) /\ crashes' = crashes
    BY <1>2, <1>6 DEF Send, ChannelPC
  <2>2. /\ faults' = faults \/ Fault
        /\ \/ rows' = rows
           \/ \E took \in BOOLEAN : rows' = [rows EXCEPT ![task[t].row].taken = took]
    BY <1>6 DEF Send, Take
  <2>3. /\ DOMAIN rows' = DOMAIN rows
        /\ \A i \in DOMAIN rows : rows'[i].status = rows[i].status
    <3>1. task[t].row \in DOMAIN rows
      BY <1>1, <1>6 DEF Send, Owner, WithRow
    <3>2. \A i \in DOMAIN rows : rows[i] \in Row
      BY <1>1
    <3>3. ASSUME NEW took \in BOOLEAN, rows' = [rows EXCEPT ![task[t].row].taken = took]
          PROVE  /\ DOMAIN rows' = DOMAIN rows
                 /\ \A i \in DOMAIN rows : rows'[i].status = rows[i].status
      BY <3>1, <3>2, <3>3 DEF Row
    <3>. QED  BY <2>2, <3>3
  <2>4. ASSUME NEW label \in ChannelPC, GoTo(t, label)
        PROVE  RowsOfStep(t) /\ SlotsOfStep(t)
    BY <2>1, <2>2, <2>3, <2>4, MovesRows
  <2>5. ASSUME NEW label \in ChannelPC, NEW ok \in BOOLEAN,
               task' = [task EXCEPT ![t].at = label, ![t].ok = ok]
        PROVE  RowsOfStep(t) /\ SlotsOfStep(t)
    <3>1. task' = [task EXCEPT ![t] = [task[t] EXCEPT !.at = label, !.ok = ok]]
      BY <1>1, <2>5
    <3>2. [task[t] EXCEPT !.at = label, !.ok = ok] \in Task
          /\ [task[t] EXCEPT !.at = label, !.ok = ok].row = task[t].row
      BY <1>1 DEF Task
    <3>. QED  BY <1>1, <2>1, <2>2, <2>3, <3>1, <3>2, KeepsRows
  <2>6. \/ \E label \in ChannelPC : GoTo(t, label)
        \/ \E label \in ChannelPC, ok \in BOOLEAN :
             task' = [task EXCEPT ![t].at = label, ![t].ok = ok]
    <3>1. {"stamp", "settle", "catch"} \subseteq ChannelPC
      BY DEF ChannelPC
    <3>. QED  BY <1>6, <3>1 DEF Send
  <2>. QED  BY <2>4, <2>5, <2>6
<1>7. CASE Stamp(t)
  <2>. QED  BY <1>2, <1>7, MovesRows DEF Stamp, OrCatch, ChannelPC
<1>8. CASE Settle(t)
  <2>1. task[t].row \in DOMAIN rows
    BY <1>1, <1>8 DEF Settle, Owner, WithRow
  <2>2. ASSUME rows' = [rows EXCEPT ![task[t].row].status = Verdict(t)]
        PROVE  /\ DOMAIN rows' = DOMAIN rows
               /\ \A i \in DOMAIN rows : rows'[i].status = "pending" => rows[i].status = "pending"
    BY <1>1, <2>1, <2>2 DEF Verdict, Row
  <2>. QED  BY <1>2, <1>8, <2>2, MovesRows DEF Settle, OrCatch, ChannelPC
<1>9. CASE Column(t)
  <2>1. rows[task[t].row].status # "pending"
    BY <1>1, <1>9 DEF Column, Owner
  <2>. QED  BY <1>1, <1>2, <1>9, <2>1, EndsRows, MovesRows DEF Column, OrCatch, ChannelPC
<1>10. CASE Catch(t)
  <2>1. task[t].row \in DOMAIN rows
    BY <1>1, <1>10 DEF Catch, Owner, WithRow
  <2>2. ASSUME rows' = [rows EXCEPT ![task[t].row].status = "failed"]
        PROVE  /\ DOMAIN rows' = DOMAIN rows
               /\ \A i \in DOMAIN rows : rows'[i].status = "pending" => rows[i].status = "pending"
               /\ rows'[task[t].row].status # "pending"
    BY <1>1, <2>1, <2>2 DEF Row
  <2>. QED  BY <1>1, <1>10, <2>2, EndsRows, ThrowRows DEF Catch, Or
<1>11. CASE Recover(t)
  <2>1. task[t].row = 0 /\ UNCHANGED <<rows, crashes, faults>>
    BY <1>1, <1>11 DEF Recover, Owner, WithRow
  <2>2. /\ task'[t].at \in {"free", "waiting"}
        /\ \A u \in Tasks \ {t} : task'[u] = task[u]
    <3>1. CASE task' = [task EXCEPT ![t].at = "waiting", ![t].stalls = @ + 1]
      BY <1>1, <3>1 DEF Task
    <3>2. CASE GiveUp(t)
      BY <1>1, <3>2, Kinds DEF GiveUp, Done
    <3>. QED  BY <1>11, <3>1, <3>2 DEF Recover
  <2>3. RowsOfStep(t)
    BY <2>1, <2>2 DEF RowsOfStep
  <2>. QED  BY <2>2, <2>3 DEF SlotsOfStep, Busy, Running, Tasks, FanPC, ChannelPC
<1>. QED  BY <1>3, <1>4, <1>5, <1>6, <1>7, <1>8, <1>9, <1>10, <1>11

LEMMA OrphanTypes ==
    ASSUME Inv
    PROVE  /\ IsFiniteSet(Orphans) /\ Cardinality(Orphans) \in Nat
           /\ IsFiniteSet(Busy) /\ Cardinality(Busy) \in Nat
           /\ Orphans \subseteq DOMAIN rows
<1>1. IsFiniteSet(DOMAIN rows)
  BY FS_Interval DEF Inv, TypeOK
<1>2. Orphans \subseteq DOMAIN rows /\ Busy \subseteq Jobs
  BY DEF Orphans, Busy
<1>. QED  BY <1>1, <1>2, JobsAssumption, FS_Subset, FS_CardinalityType

\* One more slot is taken only when one is free.
LEMMA SlotsKept ==
    ASSUME Inv, Inv', NEW t \in Tasks, SlotsOfStep(t), Cardinality(Busy) <= Slots
    PROVE  Cardinality(Busy') <= Slots
<1>1. Slots \in Nat
  BY LimitsAssumption
<1>2. IsFiniteSet(Busy) /\ Cardinality(Busy) \in Nat /\ Cardinality(Busy') \in Nat
  <2>1. Busy' \subseteq Jobs
    BY DEF Busy
  <2>. QED  BY <2>1, OrphanTypes, JobsAssumption, FS_Subset, FS_CardinalityType
<1>3. CASE Busy' \subseteq Busy
  BY <1>1, <1>2, <1>3, FS_Subset
<1>4. CASE Slot /\ Busy' \subseteq Busy \cup {t}
  <2>1. Cardinality(Busy) < Slots
    BY <1>4 DEF Slot, Busy
  <2>2. /\ IsFiniteSet(Busy \cup {t})
        /\ Cardinality(Busy \cup {t}) <= Cardinality(Busy) + 1
    BY <1>2, FS_AddElement
  <2>3. Cardinality(Busy') <= Cardinality(Busy \cup {t})
    BY <1>4, <2>2, FS_Subset
  <2>. QED  BY <1>1, <1>2, <2>1, <2>2, <2>3, FS_CardinalityType
<1>. QED  BY <1>3, <1>4 DEF SlotsOfStep

\* An error leaves at most the row of the task that it ends.
LEMMA OrphansKept ==
    ASSUME Inv, Inv', NEW t \in Tasks, RowsOfStep(t),
           Cardinality(Orphans) <= faults + crashes * Slots
    PROVE  Cardinality(Orphans') <= faults' + crashes' * Slots
<1>1. /\ faults \in Nat /\ crashes \in Nat /\ Slots \in Nat
      /\ crashes' = crashes /\ faults' \in {faults, faults + 1}
  BY LimitsAssumption DEF Inv, TypeOK, RowsOfStep
<1>2. crashes * Slots \in Nat
  BY <1>1
<1>3. /\ IsFiniteSet(Orphans) /\ Cardinality(Orphans) \in Nat
  BY OrphanTypes
<1>4. ASSUME NEW i \in Orphans', i \notin Orphans
      PROVE  faults' = faults + 1 /\ i = task[t].row
  <2>1. /\ i \in DOMAIN rows' /\ rows'[i].status = "pending"
        /\ \A j \in Jobs : task'[j].row # i
    BY <1>4 DEF Orphans
  <2>2. i \in DOMAIN rows /\ rows[i].status = "pending"
    BY <2>1 DEF RowsOfStep
  <2>3. PICK j \in Jobs : task[j].row = i
    BY <1>4, <2>2 DEF Orphans
  <2>4. i # 0
    BY <2>2 DEF Inv, TypeOK
  <2>5. j = t
    BY <2>1, <2>3, <2>4 DEF RowsOfStep, Tasks
  <2>. QED  BY <2>1, <2>3, <2>4, <2>5 DEF RowsOfStep
<1>5. CASE faults' = faults
  <2>1. Orphans' \subseteq Orphans
    BY <1>1, <1>4, <1>5
  <2>2. Cardinality(Orphans') <= Cardinality(Orphans) /\ Cardinality(Orphans') \in Nat
    BY <1>3, <2>1, FS_Subset, FS_CardinalityType
  <2>3. faults' + crashes' * Slots = faults + crashes * Slots
        /\ faults + crashes * Slots \in Nat
    BY <1>1, <1>2, <1>5
  <2>. QED  BY <1>3, <2>2, <2>3
<1>6. CASE faults' = faults + 1
  <2>1. Orphans' \subseteq Orphans \cup {task[t].row}
    BY <1>4
  <2>2. /\ IsFiniteSet(Orphans \cup {task[t].row})
        /\ Cardinality(Orphans \cup {task[t].row}) <= Cardinality(Orphans) + 1
    BY <1>3, FS_AddElement
  <2>3. Cardinality(Orphans') <= Cardinality(Orphans \cup {task[t].row})
    BY <2>1, <2>2, FS_Subset
  <2>4. Cardinality(Orphans') \in Nat /\ Cardinality(Orphans \cup {task[t].row}) \in Nat
    BY <2>1, <2>2, FS_Subset, FS_CardinalityType
  <2>. QED  BY <1>1, <1>2, <1>3, <1>6, <2>2, <2>3, <2>4
<1>. QED  BY <1>1, <1>5, <1>6

\* A crash leaves the row of each job that runs, and as many run as there are slots.
LEMMA CrashOrphans ==
    ASSUME Inv, Inv', OrphanInv, Crash
    PROVE  OrphanInv'
<1>1. /\ faults \in Nat /\ crashes \in Nat /\ Slots \in Nat
      /\ crashes' = crashes + 1 /\ faults' = faults /\ rows' = rows
  BY LimitsAssumption DEF Inv, TypeOK, Crash
<1>2. /\ IsFiniteSet(Orphans) /\ Cardinality(Orphans) \in Nat
      /\ IsFiniteSet(Busy) /\ Cardinality(Busy) \in Nat
  BY OrphanTypes
<1>. DEFINE held == [j \in Busy |-> task[j].row]
            R == {held[j] : j \in Busy}
<1>3. IsFiniteSet(R) /\ Cardinality(R) <= Cardinality(Busy)
  <2>1. held \in Surjection(Busy, R)
    BY DEF Surjection
  <2>. HIDE DEF held, R
  <2>. QED  BY <1>2, <2>1, FS_Surjection
<1>4. Orphans' \subseteq Orphans \cup R
  <2>1. ASSUME NEW i \in Orphans', i \notin Orphans
        PROVE  i \in R
    <3>1. i \in DOMAIN rows /\ rows[i].status = "pending"
      BY <1>1, <2>1 DEF Orphans
    <3>2. PICK j \in Jobs : task[j].row = i
      BY <2>1, <3>1 DEF Orphans
    <3>3. i # 0 /\ j \in Tasks
      BY <3>1 DEF Inv, TypeOK, Tasks
    <3>4. task[j].at \in ChannelPC
      BY <3>2, <3>3 DEF Inv, Good, Owner, WithRow, ChannelPC
    <3>5. j \in Busy
      BY <3>4 DEF Busy, Running
    <3>. QED  BY <3>2, <3>5
  <2>. QED  BY <2>1
<1>5. Cardinality(Orphans') <= Cardinality(Orphans) + Cardinality(Busy)
      /\ Cardinality(Orphans') \in Nat
  <2>1. IsFiniteSet(R) /\ Cardinality(R) \in Nat /\ Cardinality(R) <= Cardinality(Busy)
    BY <1>3, FS_CardinalityType
  <2>. HIDE DEF R
  <2>2. /\ IsFiniteSet(Orphans \cup R)
        /\ Cardinality(Orphans \cup R)
             = Cardinality(Orphans) + Cardinality(R) - Cardinality(Orphans \cap R)
    BY <1>2, <2>1, FS_Union
  <2>3. Cardinality(Orphans \cap R) \in Nat
    BY <2>1, FS_Subset, FS_CardinalityType
  <2>4. IsFiniteSet(Orphans') /\ Cardinality(Orphans') <= Cardinality(Orphans \cup R)
    BY <1>4, <2>2, FS_Subset
  <2>5. Cardinality(Orphans') \in Nat /\ Cardinality(Orphans \cup R) \in Nat
    BY <2>2, <2>4, FS_CardinalityType
  <2>. QED  BY <1>2, <2>1, <2>2, <2>3, <2>4, <2>5
<1>6. crashes' * Slots = crashes * Slots + Slots /\ crashes * Slots \in Nat
  BY <1>1
<1>7. Busy' = {}
  <2>1. ASSUME NEW j \in Jobs
        PROVE  task'[j].at \notin FanPC \cup ChannelPC
    BY <2>1, CrashTasks DEF Restarted, Tasks, FanPC, ChannelPC
  <2>. QED  BY <2>1 DEF Busy, Running
<1>8. Cardinality(Busy') = 0
  BY <1>7, FS_EmptySet
<1>. QED  BY <1>1, <1>2, <1>5, <1>6, <1>8 DEF OrphanInv

LEMMA OrphanStep ==
    ASSUME Inv, Inv', OrphanInv, [Next]_vars
    PROVE  OrphanInv'
<1>1. ASSUME NEW t \in Tasks, RowsOfStep(t), SlotsOfStep(t)
      PROVE  OrphanInv'
    BY <1>1, SlotsKept, OrphansKept DEF OrphanInv
<1>2. ASSUME NEW t \in Tasks, Work(t)
      PROVE  OrphanInv'
  BY <1>1, <1>2, FanRows, ChannelRows DEF Work
<1>3. ASSUME NEW j \in Jobs, Schedule(j)
      PROVE  OrphanInv'
  <2>1. /\ task'[j] = Job("fan", InApp) /\ task[j].row = 0 /\ j # Request
        /\ \A u \in Jobs \ {j} : task'[u] = task[u]
    BY <1>3, JobsAssumption
       DEF Schedule, NextJob, Free, Inv, TypeOK, Good, Owner, WithRow, Tasks
  <2>2. Busy' \subseteq Busy
    BY <2>1, Kinds, ChannelsAssumption DEF Busy, Running, FanPC, ChannelPC
  <2>3. task'[j].row = 0
    BY <2>1, Kinds, ChannelsAssumption
  <2>4. \A u \in Jobs : task'[u].row = task[u].row
    BY <2>1, <2>3
  <2>5. rows' = rows /\ crashes' = crashes /\ faults' = faults
    BY <1>3 DEF Schedule
  <2>6. Orphans' = Orphans
    BY <2>4, <2>5 DEF Orphans
  <2>7. Cardinality(Busy') <= Cardinality(Busy) /\ Cardinality(Busy') \in Nat
        /\ Cardinality(Busy) \in Nat
    BY <2>2, OrphanTypes, FS_Subset, FS_CardinalityType
  <2>8. Cardinality(Busy') <= Slots
    BY <2>7, LimitsAssumption DEF OrphanInv
  <2>. QED  BY <2>5, <2>6, <2>8 DEF OrphanInv
<1>4. CASE UNCHANGED <<task, rows, faults, crashes>>
  BY <1>4 DEF OrphanInv, Orphans, Busy, Running
<1>5. CASE Delete \/ UNCHANGED vars
  BY <1>4, <1>5 DEF Delete, vars
<1>. QED  BY <1>2, <1>3, <1>5, CrashOrphans DEF Next

\* A row that nobody works on any more has its outcome, but for one per error
\* and one per slot and crash: however often its jobs are queued, tried and run
\* again.
THEOREM FewRowsStay == Spec => []RowsSettle
<1>1. Init => OrphanInv
  <2>. SUFFICES ASSUME Init PROVE OrphanInv
    OBVIOUS
  <2>1. Orphans = {} /\ faults = 0 /\ crashes = 0
    BY DEF Init, Orphans
  <2>2. Busy = {}
    BY Kinds, JobsAssumption DEF Init, Busy, Running, Tasks, FanPC, ChannelPC
  <2>. QED  BY <2>1, <2>2, LimitsAssumption, FS_EmptySet DEF OrphanInv
<1>2. Inv /\ OrphanInv /\ [Next]_vars => OrphanInv'
  BY InvStep, OrphanStep
<1>3. OrphanInv => RowsSettle
  BY DEF OrphanInv, Orphans, RowsSettle
<1>. QED  BY <1>1, <1>2, <1>3, Always, PTL DEF Spec
-----------------------------------------------------------------------------
(* Messages.  Of the tasks that are meant to bring a channel its message some  *)
(* may still send it: an error makes one of them more, a crash all of them.    *)
(* There is one task that adds jobs, so that a crash adds no more than a job.  *)

Adds(v, c) == v.kind = "fan" /\ (v.at = "add" => c \in v.left)
Meant(v, c) == Adds(v, c) \/ (v.kind = "channel" /\ v.ch = c)
MaySend(v, c) ==
    \/ Adds(v, c)
    \/ /\ v.kind = "channel" /\ v.ch = c
       /\ v.at \in {"waiting", "stalled", "load", "record", "send"}

Meaning(c) == {t \in Tasks : Meant(task[t], c)}
Able(c) == {t \in Tasks : MaySend(task[t], c)}

\* What f errors and k crashes account for, and how it grows.
Bound(f, k) == (1 + f + k) * (1 + k)

SendsInv ==
    /\ OneFan
    /\ \A c \in Channels :
         /\ Cardinality(Meaning(c)) <= 1 + faults + crashes
         /\ sends[c] + Cardinality(Able(c)) <= Bound(faults, crashes)

LEMMA TaskCounts ==
    ASSUME NEW A \in SUBSET Tasks
    PROVE  /\ IsFiniteSet(A) /\ Cardinality(A) \in Nat
           /\ \A B \in SUBSET Tasks, t \in Tasks, u \in Tasks :
                /\ A \subseteq B => Cardinality(A) <= Cardinality(B)
                /\ A \subseteq B \cup {t} => Cardinality(A) <= Cardinality(B) + 1
                /\ A \subseteq B \ {t} /\ t \in B => Cardinality(A) + 1 <= Cardinality(B)
                /\ A \subseteq (B \ {t}) \cup {u} /\ t \in B =>
                     Cardinality(A) <= Cardinality(B)
<1>1. IsFiniteSet(Tasks)
  BY JobsAssumption, FS_AddElement DEF Tasks
<1>2. \A B \in SUBSET Tasks : IsFiniteSet(B) /\ Cardinality(B) \in Nat
  BY <1>1, FS_Subset, FS_CardinalityType
<1>3. ASSUME NEW B \in SUBSET Tasks, A \subseteq B
      PROVE  Cardinality(A) <= Cardinality(B)
  BY <1>2, <1>3, FS_Subset
<1>4. ASSUME NEW B \in SUBSET Tasks, NEW t \in Tasks
      PROVE  /\ Cardinality(B \cup {t}) <= Cardinality(B) + 1
             /\ t \in B => Cardinality(B \ {t}) + 1 = Cardinality(B)
  <2>1. /\ Cardinality(B \cup {t}) = IF t \in B THEN Cardinality(B) ELSE Cardinality(B) + 1
        /\ Cardinality(B \ {t}) = IF t \in B THEN Cardinality(B) - 1 ELSE Cardinality(B)
    BY <1>2, FS_AddElement, FS_RemoveElement
  <2>. QED  BY <1>2, <2>1
<1>5. ASSUME NEW B \in SUBSET Tasks, NEW t \in Tasks, NEW u \in Tasks
      PROVE  /\ A \subseteq B => Cardinality(A) <= Cardinality(B)
             /\ A \subseteq B \cup {t} => Cardinality(A) <= Cardinality(B) + 1
             /\ A \subseteq B \ {t} /\ t \in B => Cardinality(A) + 1 <= Cardinality(B)
             /\ A \subseteq (B \ {t}) \cup {u} /\ t \in B => Cardinality(A) <= Cardinality(B)
  <2>1. /\ B \cup {t} \in SUBSET Tasks /\ B \ {t} \in SUBSET Tasks
        /\ (B \ {t}) \cup {u} \in SUBSET Tasks
    OBVIOUS
  <2>2. /\ A \subseteq B \cup {t} => Cardinality(A) <= Cardinality(B \cup {t})
        /\ A \subseteq B \ {t} => Cardinality(A) <= Cardinality(B \ {t})
        /\ A \subseteq (B \ {t}) \cup {u} => Cardinality(A) <= Cardinality((B \ {t}) \cup {u})
        /\ A \subseteq B => Cardinality(A) <= Cardinality(B)
    BY <1>3, <2>1
  <2>3. /\ Cardinality(A) \in Nat /\ Cardinality(B) \in Nat
        /\ Cardinality(B \cup {t}) \in Nat /\ Cardinality(B \ {t}) \in Nat
        /\ Cardinality((B \ {t}) \cup {u}) \in Nat
    BY <1>2, <2>1
  <2>4. Cardinality((B \ {t}) \cup {u}) <= Cardinality(B \ {t}) + 1
    BY <1>4, <2>1
  <2>. QED  BY <1>4, <2>2, <2>3, <2>4
<1>. QED  BY <1>2, <1>5

LEMMA TaskSets ==
    \A c : /\ Meaning(c) \in SUBSET Tasks /\ Meaning(c)' \in SUBSET Tasks
           /\ Able(c) \in SUBSET Tasks /\ Able(c)' \in SUBSET Tasks
  BY DEF Meaning, Able

LEMMA Bounds ==
    ASSUME NEW f \in Nat, NEW k \in Nat
    PROVE  /\ Bound(f, k) \in Nat /\ Bound(f + 1, k) \in Nat /\ Bound(f, k + 1) \in Nat
           /\ Bound(f + 1, k) >= Bound(f, k) + 1
           /\ Bound(f, k + 1) >= Bound(f, k) + 1 + f + (k + 1)
<1>. DEFINE n == 1 + f + k
<1>1. n \in Nat /\ n + 1 = 1 + (f + 1) + k /\ n + 1 = 1 + f + (k + 1)
  OBVIOUS
<1>2. n * (1 + k) \in Nat
  BY <1>1
<1>. HIDE DEF n
<1>. (n + 1) * (1 + k) \in Nat /\ (n + 1) * (1 + (k + 1)) \in Nat
  BY <1>1
<1>3. (n + 1) * (1 + k) = n * (1 + k) + 1 + k
  BY <1>1
<1>4. (n + 1) * (1 + (k + 1)) = n * (1 + k) + 1 + k + n + 1
  BY <1>1
<1>5. /\ Bound(f, k) = n * (1 + k)
      /\ Bound(f + 1, k) = (n + 1) * (1 + k)
      /\ Bound(f, k + 1) = (n + 1) * (1 + (k + 1))
  BY <1>1 DEF Bound, n
<1>. QED  BY <1>1, <1>2, <1>3, <1>4, <1>5

Counted(c) ==
    /\ Cardinality(Meaning(c)) \in Nat /\ Cardinality(Meaning(c)') \in Nat
    /\ Cardinality(Able(c)) \in Nat /\ Cardinality(Able(c)') \in Nat
    /\ sends[c] \in Nat /\ sends'[c] \in Nat
    /\ faults \in Nat /\ crashes \in Nat
    /\ Bound(faults, crashes) \in Nat
    /\ Bound(faults + 1, crashes) \in Nat /\ Bound(faults, crashes + 1) \in Nat
    /\ Bound(faults + 1, crashes) >= Bound(faults, crashes) + 1
    /\ Bound(faults, crashes + 1) >= Bound(faults, crashes) + 1 + faults + (crashes + 1)

LEMMA SendCounts == ASSUME Inv, Inv', NEW c \in Channels PROVE Counted(c)
<1>1. \A A \in SUBSET Tasks : Cardinality(A) \in Nat
  BY TaskCounts
<1>2. /\ sends[c] \in Nat /\ sends'[c] \in Nat
      /\ faults \in Nat /\ crashes \in Nat
  BY DEF Inv, TypeOK
<1>. QED  BY <1>1, <1>2, Bounds, TaskSets DEF Counted

\* A step that an error may have ended, and after which as many are still to be
\* sent, or one more for the error.
LEMMA NoMore ==
    ASSUME Inv, Inv', SendsInv, NEW c \in Channels, crashes' = crashes,
           \/ /\ faults' \in {faults, faults + 1}
              /\ Cardinality(Meaning(c)') <= Cardinality(Meaning(c))
              /\ sends'[c] + Cardinality(Able(c)') <= sends[c] + Cardinality(Able(c))
           \/ /\ faults' = faults + 1
              /\ Cardinality(Meaning(c)') <= Cardinality(Meaning(c)) + 1
              /\ sends'[c] + Cardinality(Able(c)') <= sends[c] + Cardinality(Able(c)) + 1
    PROVE  /\ Cardinality(Meaning(c)') <= 1 + faults' + crashes'
           /\ sends'[c] + Cardinality(Able(c)') <= Bound(faults', crashes')
<1>1. Counted(c)
  BY SendCounts
<1>2. /\ Cardinality(Meaning(c)) <= 1 + faults + crashes
      /\ sends[c] + Cardinality(Able(c)) <= Bound(faults, crashes)
  BY DEF SendsInv
<1>3. CASE faults' = faults
  <2>1. faults' # faults + 1
    BY <1>1, <1>3 DEF Counted
  <2>2. Bound(faults', crashes') = Bound(faults, crashes)
    BY <1>3
  <2>. QED  BY <1>1, <1>2, <1>3, <2>1, <2>2 DEF Counted
<1>4. CASE faults' = faults + 1
  <2>1. Bound(faults', crashes') = Bound(faults + 1, crashes)
    BY <1>4
  <2>2. sends'[c] + Cardinality(Able(c)') <= Bound(faults + 1, crashes)
    BY <1>1, <1>2 DEF Counted
  <2>3. Cardinality(Meaning(c)') <= 1 + faults' + crashes'
    BY <1>1, <1>2, <1>4 DEF Counted
  <2>. QED  BY <2>1, <2>2, <2>3
<1>. QED  BY <1>3, <1>4

\* A step of one task that sends nothing.  Only an error gives it more to do.
SendsNothing(t) ==
    /\ \A u \in Tasks \ {t} : task'[u] = task[u]
    /\ UNCHANGED <<sends, crashes>>
    /\ task'[t].kind \in {"none", task[t].kind}
    /\ \/ faults' = faults + 1
       \/ /\ faults' = faults
          /\ \A c \in Channels : /\ Meant(task'[t], c) => Meant(task[t], c)
                                 /\ MaySend(task'[t], c) => MaySend(task[t], c)

LEMMA NothingSent ==
    ASSUME Inv, Inv', SendsInv, NEW t \in Tasks, SendsNothing(t)
    PROVE  SendsInv'
<1>1. OneFan'
  BY DEF SendsNothing, SendsInv, OneFan
<1>2. ASSUME NEW c \in Channels
      PROVE  /\ Cardinality(Meaning(c)') <= 1 + faults' + crashes'
             /\ sends'[c] + Cardinality(Able(c)') <= Bound(faults', crashes')
  <2>1. Counted(c) /\ sends'[c] = sends[c] /\ crashes' = crashes
    BY SendCounts DEF SendsNothing
  <2>2. CASE faults' = faults + 1
    <3>1. Meaning(c)' \subseteq Meaning(c) \cup {t} /\ Able(c)' \subseteq Able(c) \cup {t}
      BY DEF SendsNothing, Meaning, Able
    <3>2. /\ Cardinality(Meaning(c)') <= Cardinality(Meaning(c)) + 1
          /\ Cardinality(Able(c)') <= Cardinality(Able(c)) + 1
      BY <3>1, TaskSets, TaskCounts
    <3>3. sends'[c] + Cardinality(Able(c)') <= sends[c] + Cardinality(Able(c)) + 1
      BY <2>1, <3>2 DEF Counted
    <3>. QED  BY <2>1, <2>2, <3>2, <3>3, NoMore
  <2>3. CASE faults' = faults
    <3>1. faults' # faults + 1
      BY <2>1, <2>3 DEF Counted
    <3>2. Meaning(c)' \subseteq Meaning(c) /\ Able(c)' \subseteq Able(c)
      BY <3>1 DEF SendsNothing, Meaning, Able
    <3>3. /\ Cardinality(Meaning(c)') <= Cardinality(Meaning(c))
          /\ Cardinality(Able(c)') <= Cardinality(Able(c))
      BY <3>2, TaskSets, TaskCounts
    <3>4. sends'[c] + Cardinality(Able(c)') <= sends[c] + Cardinality(Able(c))
      BY <2>1, <3>3 DEF Counted
    <3>. QED  BY <2>1, <2>3, <3>3, <3>4, NoMore
  <2>. QED  BY <2>2, <2>3 DEF SendsNothing
<1>. QED  BY <1>1, <1>2 DEF SendsInv

\* A task that ends, or goes on with its channel, sends nothing.
ToSend == {"waiting", "stalled", "load", "record", "send"}

LEMMA GoesOn ==
    ASSUME Inv, NEW t \in Tasks, NEW v \in Task, task' = [task EXCEPT ![t] = v],
           UNCHANGED <<sends, crashes>>, faults' \in {faults, faults + 1},
           \/ v.kind = "none"
           \/ v.kind = task[t].kind /\ faults' = faults + 1
           \/ /\ v.kind = task[t].kind /\ v.ch = task[t].ch /\ task[t].at # "add"
              /\ v.at \in ToSend => task[t].at \in ToSend
    PROVE  SendsNothing(t)
<1>1. task'[t] = v /\ \A u \in Tasks \ {t} : task'[u] = task[u]
  BY DEF Inv, TypeOK
<1>. QED  BY <1>1 DEF SendsNothing, Meant, MaySend, Adds, ToSend

LEMMA RetriedChannel ==
    ASSUME Inv, NEW t \in Tasks
    PROVE  \/ Retried(t).kind = "none"
           \/ Retried(t).kind = task[t].kind /\ Retried(t).ch = task[t].ch
<1>1. task[t] \in Task
  BY DEF Inv, TypeOK
<1>2. CASE LastTry(t)
  BY <1>2, Kinds DEF Retried
<1>3. CASE ~LastTry(t)
  <2>1. PICK v \in Task : v = Job(task[t].kind, task[t].ch)
    BY <1>1, Kinds DEF Task
  <2>2. Retried(t) = [v EXCEPT !.tries = task[t].tries + 1, !.stalls = task[t].stalls]
    BY <1>3, <2>1 DEF Retried
  <2>3. v.kind = task[t].kind /\ v.ch = task[t].ch
    BY <1>1, <2>1, Kinds DEF Task
  <2>. QED  BY <2>1, <2>2, <2>3 DEF Task
<1>. QED  BY <1>2, <1>3

LEMMA ThrowsSend ==
    ASSUME Inv, NEW t \in Tasks, Throw(t), Fault, UNCHANGED <<sends, crashes>>
    PROVE  SendsNothing(t)
<1>1. task' = [task EXCEPT ![t] = Retried(t)] /\ Retried(t) \in Task
  BY RetriedGood DEF Throw
<1>. QED  BY <1>1, RetriedChannel, GoesOn DEF Fault, ToSend

LEMMA DoneSends ==
    ASSUME Inv, NEW t \in Tasks, Done(t), UNCHANGED <<sends, crashes, faults>>
    PROVE  SendsNothing(t)
  BY Kinds, GoesOn DEF Done

LEMMA MovesSend ==
    ASSUME Inv, NEW t \in Tasks, NEW label \in FanPC \cup ChannelPC, GoTo(t, label),
           UNCHANGED <<sends, crashes>>, faults' = faults \/ Fault,
           task[t].at # "add", label \in ToSend => task[t].at \in ToSend
    PROVE  SendsNothing(t)
<1>1. task \in [Tasks -> Task] /\ task[t] \in Task
  BY DEF Inv, TypeOK
<1>2. PICK v : v = [task[t] EXCEPT !.at = label]
  OBVIOUS
<1>3. task' = [task EXCEPT ![t] = v]
  BY <1>1, <1>2 DEF GoTo
<1>4. v \in Task /\ v.kind = task[t].kind /\ v.ch = task[t].ch /\ v.at = label
  BY <1>1, <1>2 DEF Task
<1>. QED  BY <1>3, <1>4, GoesOn DEF Fault

LEMMA FanSends ==
    ASSUME Inv, NEW t \in Tasks,
           FindFan(t) \/ Prefs(t) \/ (t \in Jobs /\ (BeginFan(t) \/ BeginChannel(t)))
    PROVE  SendsNothing(t)
<1>1. task \in [Tasks -> Task] /\ task[t] \in Task
  BY DEF Inv, TypeOK
<1>2. CASE FindFan(t)
  <2>1. CASE GoTo(t, "prefs") /\ UNCHANGED <<marks, faults>>
    BY <1>2, <2>1, MovesSend DEF FindFan, FanPC, ToSend
  <2>2. CASE Done(t) /\ UNCHANGED <<marks, faults>>
    BY <1>2, <2>2, DoneSends DEF FindFan
  <2>. QED  BY <1>2, <2>1, <2>2, ThrowsSend DEF FindFan, Or
<1>3. CASE Prefs(t)
  <2>1. PICK enabled \in Preferences \cup {{InApp}} :
          Or(t, /\ task' = [task EXCEPT ![t] =
                     IF enabled = {} THEN NoTask
                     ELSE [@ EXCEPT !.at = "add", !.left = enabled]]
                /\ UNCHANGED rows)
    BY <1>3, Zenon DEF Prefs
  <2>. task[t].at = "prefs" /\ UNCHANGED <<sends, crashes>>
    BY <1>3, Zenon DEF Prefs
  <2>2. CASE Fault /\ Throw(t)
    BY <2>2, ThrowsSend
  <2>3. CASE enabled = {} /\ Done(t) /\ UNCHANGED faults
    BY <2>3, DoneSends
  <2>4. ASSUME task' = [task EXCEPT ![t] = [@ EXCEPT !.at = "add", !.left = enabled]],
               UNCHANGED faults
        PROVE  SendsNothing(t)
    <3>1. PICK v : v = [task[t] EXCEPT !.at = "add", !.left = enabled]
      OBVIOUS
    <3>2. task' = [task EXCEPT ![t] = v]
      BY <1>1, <2>4, <3>1
    <3>3. enabled \in SUBSET Channels
      BY ChannelsAssumption, PreferencesAssumption
    <3>4. v \in Task /\ v.kind = task[t].kind /\ v.ch = task[t].ch /\ v.at = "add"
      BY <1>1, <3>1, <3>3 DEF Task, FanPC
    <3>. QED  BY <2>4, <3>2, <3>4, GoesOn DEF ToSend
  <2>. QED  BY <2>1, <2>2, <2>3, <2>4 DEF Or, Done
<1>4. CASE t \in Jobs /\ BeginFan(t)
  BY <1>4, MovesSend DEF BeginFan, FanPC, ToSend
<1>5. CASE t \in Jobs /\ BeginChannel(t)
  BY <1>5, MovesSend DEF BeginChannel, ChannelPC, ToSend
<1>. QED  BY <1>2, <1>3, <1>4, <1>5

LEMMA ChannelSends ==
    ASSUME Inv, NEW t \in Jobs,
           Load(t) \/ Record(t) \/ Stamp(t) \/ Settle(t) \/ Column(t) \/ Catch(t) \/ Recover(t)
    PROVE  SendsNothing(t)
<1>1. task \in [Tasks -> Task] /\ task[t] \in Task /\ t \in Tasks /\ Len(rows) \in Nat
      /\ column \in [Channels -> Outcome]
  BY DEF Inv, TypeOK, Tasks
<1>2. CASE Load(t)
  <2>1. ASSUME task' = [task EXCEPT ![t].at = "record", ![t].base = column], UNCHANGED faults
        PROVE  SendsNothing(t)
    <3>1. PICK v : v = [task[t] EXCEPT !.at = "record", !.base = column]
      OBVIOUS
    <3>2. task' = [task EXCEPT ![t] = v]
      BY <1>1, <2>1, <3>1
    <3>3. v \in Task /\ v.kind = task[t].kind /\ v.ch = task[t].ch /\ v.at = "record"
      BY <1>1, <3>1 DEF Task, ChannelPC
    <3>. QED  BY <1>1, <1>2, <2>1, <3>2, <3>3, GoesOn DEF Load, ToSend
  <2>. QED  BY <1>1, <1>2, <2>1, DoneSends, ThrowsSend DEF Load
<1>3. CASE Record(t)
  <2>1. ASSUME task' = [task EXCEPT ![t].at = "send", ![t].row = Len(rows) + 1], UNCHANGED faults
        PROVE  SendsNothing(t)
    <3>1. PICK v : v = [task[t] EXCEPT !.at = "send", !.row = Len(rows) + 1]
      OBVIOUS
    <3>2. task' = [task EXCEPT ![t] = v]
      BY <1>1, <2>1, <3>1
    <3>. Len(rows) + 1 \in Nat
      BY <1>1
    <3>3. v \in Task /\ v.kind = task[t].kind /\ v.ch = task[t].ch /\ v.at = "send"
      BY <1>1, <3>1 DEF Task, ChannelPC
    <3>. QED  BY <1>1, <1>3, <2>1, <3>2, <3>3, GoesOn DEF Record, ToSend
  <2>. QED  BY <1>1, <1>3, <2>1, ThrowsSend DEF Record, Or
<1>4. CASE Stamp(t)
  BY <1>1, <1>4, MovesSend DEF Stamp, OrCatch, ChannelPC, ToSend
<1>5. CASE Settle(t)
  BY <1>1, <1>5, MovesSend DEF Settle, OrCatch, ChannelPC, ToSend
<1>6. CASE Column(t)
  BY <1>1, <1>6, DoneSends, MovesSend DEF Column, OrCatch, ChannelPC, ToSend
<1>7. CASE Catch(t)
  BY <1>1, <1>7, DoneSends, ThrowsSend DEF Catch, Or
<1>8. CASE Recover(t)
  <2>1. ASSUME task' = [task EXCEPT ![t].at = "waiting", ![t].stalls = @ + 1]
        PROVE  SendsNothing(t)
    <3>1. PICK v : v = [task[t] EXCEPT !.at = "waiting", !.stalls = task[t].stalls + 1]
      OBVIOUS
    <3>2. task' = [task EXCEPT ![t] = v]
      BY <1>1, <2>1, <3>1
    <3>3. v \in Task /\ v.kind = task[t].kind /\ v.ch = task[t].ch /\ v.at = "waiting"
      <4>1. task[t].stalls + 1 \in Nat
        BY <1>1 DEF Task
      <4>. QED  BY <1>1, <3>1, <4>1 DEF Task
    <3>. QED  BY <1>1, <1>8, <3>2, <3>3, GoesOn DEF Recover, ToSend
  <2>. QED  BY <1>1, <1>8, <2>1, DoneSends DEF Recover, GiveUp
<1>. QED  BY <1>2, <1>3, <1>4, <1>5, <1>6, <1>7, <1>8

\* A job sends its message once: it is not able to send it again.
LEMMA SendOnce ==
    ASSUME Inv, Inv', SendsInv, NEW t \in Jobs, Send(t)
    PROVE  SendsInv'
<1>1. task \in [Tasks -> Task] /\ task[t] \in Task /\ t \in Tasks /\ task[t].kind = "channel"
      /\ sends \in [Channels -> Nat] /\ task[t].ch \in Channels
  BY DEF Inv, TypeOK, Tasks, Good, Placed, Send, ChannelPC, Task
<1>2. faults' \in {faults, faults + 1} /\ crashes' = crashes
  BY DEF Send, Fault
<1>3. \A c \in Channels :
        sends'[c] \in Nat /\ (IF c = task[t].ch THEN sends'[c] <= sends[c] + 1
                              ELSE sends'[c] = sends[c])
  <2>1. CASE sends' = sends
    BY <1>1, <2>1
  <2>2. ASSUME NEW took \in BOOLEAN,
               sends' = [sends EXCEPT ![task[t].ch] = @ + IF took THEN 1 ELSE 0]
        PROVE  \A c \in Channels :
                 sends'[c] \in Nat /\ (IF c = task[t].ch THEN sends'[c] <= sends[c] + 1
                                       ELSE sends'[c] = sends[c])
    BY <1>1, <2>2
  <2>. QED  BY <2>1, <2>2 DEF Send, Take
<1>4. /\ \A u \in Tasks \ {t} : task'[u] = task[u]
      /\ task'[t].kind = task[t].kind /\ task'[t].ch = task[t].ch
      /\ task'[t].at \in {"stamp", "settle", "catch"}
  <2>1. ASSUME NEW label \in {"stamp", "settle", "catch"}, GoTo(t, label)
        PROVE  <1>4
    BY <1>1, <2>1 DEF GoTo, Task
  <2>2. ASSUME NEW label \in {"stamp", "settle", "catch"}, NEW ok \in BOOLEAN,
               task' = [task EXCEPT ![t].at = label, ![t].ok = ok]
        PROVE  <1>4
    BY <1>1, <2>2 DEF Task
  <2>. QED  BY <2>1, <2>2 DEF Send
<1>5. OneFan'
  BY <1>4 DEF SendsInv, OneFan
<1>6. ASSUME NEW c \in Channels
      PROVE  /\ Cardinality(Meaning(c)') <= 1 + faults' + crashes'
             /\ sends'[c] + Cardinality(Able(c)') <= Bound(faults', crashes')
  <2>1. Counted(c)
    BY SendCounts
  <2>2. Meaning(c)' \subseteq Meaning(c) /\ Able(c)' \subseteq Able(c) \ {t}
    BY <1>1, <1>4 DEF Meaning, Able, Meant, MaySend, Adds
  <2>3. task[t].ch = c => t \in Able(c)
    BY <1>1 DEF Able, MaySend, Send
  <2>4. /\ Cardinality(Meaning(c)') <= Cardinality(Meaning(c))
        /\ Cardinality(Able(c)') <= Cardinality(Able(c))
        /\ task[t].ch = c => Cardinality(Able(c)') + 1 <= Cardinality(Able(c))
    <3>1. Able(c)' \subseteq Able(c)
      BY <2>2
    <3>. QED  BY <1>1, <2>2, <2>3, <3>1, TaskSets, TaskCounts
  <2>5. sends'[c] + Cardinality(Able(c)') <= sends[c] + Cardinality(Able(c))
    BY <1>3, <2>1, <2>4 DEF Counted
  <2>. QED  BY <1>2, <2>4, <2>5, NoMore
<1>. QED  BY <1>5, <1>6 DEF SendsInv

\* A task hands over to the job that it adds.
LEMMA HandsOver ==
    ASSUME Inv, Inv', SendsInv, OneFan', UNCHANGED <<sends, faults, crashes>>,
           \A c \in Channels :
             \/ Meaning(c)' \subseteq Meaning(c) /\ Able(c)' \subseteq Able(c)
             \/ \E t, j \in Tasks :
                  /\ t \in Meaning(c) \cap Able(c)
                  /\ Meaning(c)' \subseteq (Meaning(c) \ {t}) \cup {j}
                  /\ Able(c)' \subseteq (Able(c) \ {t}) \cup {j}
    PROVE  SendsInv'
<1>1. ASSUME NEW c \in Channels
      PROVE  /\ Cardinality(Meaning(c)') <= 1 + faults' + crashes'
             /\ sends'[c] + Cardinality(Able(c)') <= Bound(faults', crashes')
  <2>1. Counted(c)
    BY SendCounts
  <2>2. /\ Cardinality(Meaning(c)') <= Cardinality(Meaning(c))
        /\ Cardinality(Able(c)') <= Cardinality(Able(c))
    <3>1. CASE Meaning(c)' \subseteq Meaning(c) /\ Able(c)' \subseteq Able(c)
      BY <3>1, TaskSets, TaskCounts
    <3>2. ASSUME NEW t \in Tasks, NEW j \in Tasks, t \in Meaning(c) \cap Able(c),
                 Meaning(c)' \subseteq (Meaning(c) \ {t}) \cup {j},
                 Able(c)' \subseteq (Able(c) \ {t}) \cup {j}
          PROVE  <2>2
      BY <3>2, TaskSets, TaskCounts
    <3>. QED  BY <3>1, <3>2
  <2>3. sends'[c] + Cardinality(Able(c)') <= sends[c] + Cardinality(Able(c))
    BY <2>1, <2>2 DEF Counted
  <2>. QED  BY <2>2, <2>3, NoMore
<1>. QED  BY <1>1 DEF SendsInv

LEMMA AddSends ==
    ASSUME Inv, Inv', SendsInv, NEW t \in Tasks, Add(t)
    PROVE  SendsInv'
<1>1. task \in [Tasks -> Task] /\ task[t] \in Task /\ task[t].at = "add"
      /\ task[t].kind = "fan" /\ UNCHANGED <<sends, crashes>>
  BY DEF Inv, TypeOK, Good, Placed, FanPC, Add
<1>2. PICK c \in task[t].left, j \in Jobs :
        /\ NextJob(j)
        /\ Or(t, /\ task' = [task EXCEPT ![j] = Job("channel", c), ![t] = Rest(t, c)]
                 /\ UNCHANGED rows)
  BY DEF Add
<1>3. CASE task' = [task EXCEPT ![j] = Job("channel", c), ![t] = Rest(t, c)] /\ UNCHANGED faults
  <2>1. c \in Channels /\ j \in Tasks /\ j # t /\ task[j].kind = "none"
    BY <1>1, <1>2, FreeSlot, Kinds DEF Task, Tasks
  <2>2. /\ task'[j] = Job("channel", c) /\ task'[t] = Rest(t, c)
        /\ \A u \in Tasks \ {j, t} : task'[u] = task[u]
    BY <1>1, <1>3, <2>1
  <2>3. /\ task'[j].kind = "channel" /\ task'[j].ch = c
        /\ \/ task'[t].kind = "none"
           \/ /\ task'[t].kind = "fan" /\ task'[t].at = "add"
              /\ task'[t].left = task[t].left \ {c}
    BY <1>1, <2>1, <2>2, Kinds DEF Rest, Task
  <2>4. OneFan'
    BY <1>1, <2>2, <2>3 DEF SendsInv, OneFan
  <2>5. ASSUME NEW d \in Channels
        PROVE  \/ Meaning(d)' \subseteq Meaning(d) /\ Able(d)' \subseteq Able(d)
               \/ /\ t \in Meaning(d) \cap Able(d)
                  /\ Meaning(d)' \subseteq (Meaning(d) \ {t}) \cup {j}
                  /\ Able(d)' \subseteq (Able(d) \ {t}) \cup {j}
    <3>1. CASE d = c
      <4>1. t \in Meaning(d) \cap Able(d)
        BY <1>1, <1>2, <3>1 DEF Meaning, Able, Meant, MaySend, Adds
      <4>2. ~Meant(task'[t], d) /\ ~MaySend(task'[t], d)
        BY <2>3, <3>1 DEF Meant, MaySend, Adds
      <4>. QED  BY <2>2, <4>1, <4>2 DEF Meaning, Able
    <3>2. CASE d # c
      <4>1. ~Meant(task'[j], d) /\ ~MaySend(task'[j], d)
        BY <2>3, <3>2 DEF Meant, MaySend, Adds
      <4>2. /\ Meant(task'[t], d) => Meant(task[t], d)
            /\ MaySend(task'[t], d) => MaySend(task[t], d)
        BY <1>1, <2>3 DEF Meant, MaySend, Adds
      <4>. QED  BY <2>2, <4>1, <4>2 DEF Meaning, Able
    <3>. QED  BY <3>1, <3>2
  <2>. QED  BY <1>1, <1>3, <2>1, <2>4, <2>5, HandsOver
<1>4. CASE Fault /\ Throw(t)
  BY <1>1, <1>4, ThrowsSend, NothingSent
<1>. QED  BY <1>2, <1>3, <1>4 DEF Or

LEMMA ScheduleSends ==
    ASSUME Inv, Inv', SendsInv, NEW j \in Jobs, Schedule(j)
    PROVE  SendsInv'
<1>1. task \in [Tasks -> Task] /\ Request \in Tasks /\ j \in Tasks /\ j # Request
      /\ task[Request].at = "find" /\ task[Request].kind = "fan" /\ task[j].kind = "none"
  <2>1. /\ task \in [Tasks -> Task] /\ Request \in Tasks /\ j \in Tasks /\ j # Request
        /\ task[Request].at = "find" /\ NextJob(j)
    BY JobsAssumption DEF Inv, TypeOK, Tasks, Schedule
  <2>2. Good(Request) /\ task[j] = NoTask
    BY <2>1, FreeSlot DEF Inv
  <2>. QED  BY <2>1, <2>2, Kinds DEF Good, Placed, FanPC
<1>2. /\ task'[j] = Job("fan", InApp) /\ task'[Request] = NoTask
      /\ \A u \in Tasks \ {j, Request} : task'[u] = task[u]
  BY <1>1 DEF Schedule
<1>3. task'[j].kind = "fan" /\ task'[Request].kind = "none"
  BY <1>2, Kinds, ChannelsAssumption
<1>4. OneFan'
  BY <1>1, <1>2, <1>3 DEF SendsInv, OneFan
<1>5. ASSUME NEW c \in Channels
      PROVE  /\ Request \in Meaning(c) \cap Able(c)
             /\ Meaning(c)' \subseteq (Meaning(c) \ {Request}) \cup {j}
             /\ Able(c)' \subseteq (Able(c) \ {Request}) \cup {j}
  <2>1. ~Meant(task'[Request], c) /\ ~MaySend(task'[Request], c)
    BY <1>3 DEF Meant, MaySend, Adds
  <2>. QED  BY <1>1, <1>2, <2>1 DEF Meaning, Able, Meant, MaySend, Adds
<1>. QED  BY <1>1, <1>4, <1>5, HandsOver DEF Schedule

\* A crash leaves each task its kind and its channel.
LEMMA CrashKinds ==
    ASSUME Inv, Crash, NEW t \in Tasks
    PROVE  \/ task'[t].kind = "none"
           \/ task'[t].kind = task[t].kind /\ task'[t].ch = task[t].ch
<1>1. task[t] \in Task
  BY DEF Inv, TypeOK
<1>2. CASE t = Request
  BY <1>2, Kinds DEF Crash, Tasks
<1>3. CASE t # Request /\ Running(t)
  <2>1. PICK v \in Task : v = Job(task[t].kind, task[t].ch)
    BY <1>1, Kinds DEF Task
  <2>2. task'[t] = [v EXCEPT !.at = "stalled", !.tries = task[t].tries,
                             !.stalls = task[t].stalls]
    BY <1>3, <2>1 DEF Crash
  <2>3. v.kind = task[t].kind /\ v.ch = task[t].ch
    BY <1>1, <2>1, Kinds DEF Task
  <2>. QED  BY <2>1, <2>2, <2>3 DEF Task
<1>4. CASE t # Request /\ ~Running(t)
  BY <1>4 DEF Crash
<1>. QED  BY <1>2, <1>3, <1>4

LEMMA CrashSends ==
    ASSUME Inv, Inv', SendsInv, Crash
    PROVE  SendsInv'
<1>1. sends' = sends /\ faults' = faults /\ crashes' = crashes + 1
  BY Zenon DEF Crash
<1>2. OneFan'
  BY CrashKinds DEF SendsInv, OneFan
<1>3. ASSUME NEW c \in Channels
      PROVE  /\ Cardinality(Meaning(c)') <= 1 + faults' + crashes'
             /\ sends'[c] + Cardinality(Able(c)') <= Bound(faults', crashes')
  <2>1. Counted(c)
    BY SendCounts
  <2>2. \A u \in Tasks : Meant(task'[u], c) => Meant(task[u], c) \/ task[u].kind = "fan"
    BY CrashKinds DEF Meant, Adds
  <2>3. Cardinality(Meaning(c)') <= Cardinality(Meaning(c)) + 1
    <3>1. PICK f \in Tasks : \A u \in Tasks : task[u].kind = "fan" => u = f
      BY DEF SendsInv, OneFan, Tasks
    <3>2. Meaning(c)' \subseteq Meaning(c) \cup {f}
      BY <2>2, <3>1 DEF Meaning
    <3>. QED  BY <3>2, TaskSets, TaskCounts
  <2>4. Cardinality(Able(c)') <= Cardinality(Meaning(c)')
    <3>1. Able(c)' \subseteq Meaning(c)'
      BY DEF Able, Meaning, Meant, MaySend
    <3>. QED  BY <3>1, TaskSets, TaskCounts
  <2>5. /\ Cardinality(Meaning(c)) <= 1 + faults + crashes
        /\ sends[c] + Cardinality(Able(c)) <= Bound(faults, crashes)
    BY DEF SendsInv
  <2>6. Bound(faults', crashes') = Bound(faults, crashes + 1)
    BY <1>1
  <2>7. Cardinality(Meaning(c)') <= 1 + faults + (crashes + 1)
    BY <2>1, <2>3, <2>5 DEF Counted
  <2>8. sends[c] + Cardinality(Able(c)') <= Bound(faults, crashes + 1)
    BY <2>1, <2>4, <2>5, <2>7 DEF Counted
  <2>. QED  BY <1>1, <2>6, <2>7, <2>8
<1>. QED  BY <1>2, <1>3 DEF SendsInv

LEMMA SendsStep ==
    ASSUME Inv, Inv', SendsInv, [Next]_vars
    PROVE  SendsInv'
<1>1. ASSUME NEW t \in Tasks, Work(t)
      PROVE  SendsInv'
  <2>1. CASE FindFan(t) \/ Prefs(t) \/ (t \in Jobs /\ (BeginFan(t) \/ BeginChannel(t)))
    BY <2>1, FanSends, NothingSent
  <2>2. CASE Add(t)
    BY <2>2, AddSends
  <2>3. CASE t \in Jobs /\ (\/ Load(t) \/ Record(t) \/ Stamp(t) \/ Settle(t)
                           \/ Column(t) \/ Catch(t) \/ Recover(t))
    BY <2>3, ChannelSends, NothingSent
  <2>4. CASE t \in Jobs /\ Send(t)
    BY <2>4, SendOnce
  <2>. QED  BY <1>1, <2>1, <2>2, <2>3, <2>4 DEF Work
<1>2. ASSUME NEW j \in Jobs, Schedule(j)
      PROVE  SendsInv'
  BY <1>2, ScheduleSends
<1>3. ASSUME UNCHANGED <<task, sends, crashes, faults>>
      PROVE  SendsInv'
  <2>1. OneFan' /\ \A c : Meaning(c)' = Meaning(c) /\ Able(c)' = Able(c)
    BY <1>3 DEF OneFan, Meaning, Able, SendsInv
  <2>. QED  BY <1>3, <2>1, HandsOver
<1>4. CASE Delete
  BY <1>3, <1>4 DEF Delete
<1>5. CASE Crash
  BY <1>5, CrashSends
<1>6. CASE UNCHANGED vars
  BY <1>3, <1>6 DEF vars
<1>. QED  BY <1>1, <1>2, <1>4, <1>5, <1>6 DEF Next

\* The provider of a channel gets no more messages than there are errors and
\* crashes to account for them.
THEOREM FewMessages == Spec => []SendsBounded
<1>1. Init => SendsInv
  <2>. SUFFICES ASSUME Init PROVE SendsInv
    OBVIOUS
  <2>1. Request \in Tasks /\ \A t \in Tasks \ {Request} : task[t] = NoTask
    BY DEF Init, Tasks
  <2>2. OneFan
    BY <2>1, Kinds DEF OneFan
  <2>3. ASSUME NEW c \in Channels
        PROVE  /\ Cardinality(Meaning(c)) <= 1 + faults + crashes
               /\ sends[c] + Cardinality(Able(c)) <= Bound(faults, crashes)
    <3>1. Meaning(c) \subseteq {Request} /\ Able(c) \subseteq {Request}
      BY <2>1, Kinds DEF Meaning, Able, Meant, MaySend, Adds
    <3>2. Cardinality({Request}) = 1 /\ {Request} \in SUBSET Tasks
      BY <2>1, FS_Singleton
    <3>3. Cardinality(Meaning(c)) <= 1 /\ Cardinality(Able(c)) <= 1
      BY <2>1, <3>1, <3>2, TaskSets, TaskCounts
    <3>4. sends[c] = 0 /\ faults = 0 /\ crashes = 0
      BY DEF Init
    <3>5. Cardinality(Meaning(c)) \in Nat /\ Cardinality(Able(c)) \in Nat
      BY TaskSets, TaskCounts
    <3>. QED  BY <3>3, <3>4, <3>5 DEF Bound
  <2>. QED  BY <2>2, <2>3 DEF SendsInv
<1>2. Inv /\ Inv' /\ SendsInv /\ [Next]_vars => SendsInv'
  BY SendsStep
<1>3. Inv /\ SendsInv => SendsBounded
  <2>. SUFFICES ASSUME Inv, SendsInv, NEW c \in Channels
               PROVE  sends[c] <= (1 + faults + crashes) * (1 + crashes)
    BY DEF SendsBounded
  <2>1. sends[c] + Cardinality(Able(c)) <= Bound(faults, crashes)
    BY DEF SendsInv
  <2>2. Cardinality(Able(c)) \in Nat /\ sends[c] \in Nat /\ Bound(faults, crashes) \in Nat
    BY TaskSets, TaskCounts, Bounds DEF Inv, TypeOK
  <2>3. sends[c] <= Bound(faults, crashes)
    BY <2>1, <2>2
  <2>. QED  BY <2>3 DEF Bound
<1>. QED  BY <1>1, <1>2, <1>3, Always, PTL DEF Spec

-----------------------------------------------------------------------------
(* The records are those of Outbox. *)

\* As long as no two jobs held copies of the column, the one copy is the column;
\* and a job that is to write the column has given its row the same outcome.
HeldOK ==
    /\ "overlapped" \notin marks =>
         /\ \A i, j \in Holders : i = j
         /\ \A j \in Holders : task[j].base = column
    /\ \A t \in Tasks : task[t].at = "column" => rows[task[t].row].status = Verdict(t)

LEMMA HeldKept ==
    ASSUME Inv, Inv', HeldOK, column' = column, marks \subseteq marks',
           \A u \in Tasks : task'[u].at \in HolderPC =>
               task[u].at \in HolderPC /\ task'[u].base = task[u].base,
           \A u \in Tasks : task'[u].at = "column" =>
               rows'[task'[u].row].status = Verdict(u)'
    PROVE  HeldOK'
  BY HoldersAre, HoldersWillBe DEF HeldOK

\* A step after which no task holds the column that did not.
LEMMA HeldStill ==
    ASSUME Inv, Inv', HeldOK, UNCHANGED <<rows, column>>, marks \subseteq marks',
           \A u \in Tasks : task'[u] = task[u] \/ task'[u].at \notin HolderPC
    PROVE  HeldOK'
<1>1. \A u \in Tasks : task'[u].at = "column" => rows'[task'[u].row].status = Verdict(u)'
  BY DEF HeldOK, HolderPC, Verdict
<1>. QED  BY <1>1, HeldKept

\* A step of one task and of its row.
LEMMA HeldMove ==
    ASSUME Inv, Inv', HeldOK, NEW t \in Tasks, NEW v, task' = [task EXCEPT ![t] = v],
           column' = column, marks \subseteq marks',
           v.at \in HolderPC => task[t].at \in HolderPC /\ v.base = task[t].base,
           \A i \in DOMAIN rows : i # task[t].row => rows'[i] = rows[i],
           v.at = "column" => rows'[v.row].status = Verdict(t)'
    PROVE  HeldOK'
<1>1. task'[t] = v /\ \A u \in Tasks : u # t => task'[u] = task[u]
  BY DEF Inv, TypeOK
<1>2. \A u \in Tasks : task'[u].at \in HolderPC =>
               task[u].at \in HolderPC /\ task'[u].base = task[u].base
  BY <1>1
<1>3. ASSUME NEW u \in Tasks, task'[u].at = "column"
      PROVE  rows'[task'[u].row].status = Verdict(u)'
  <2>1. CASE u = t
    BY <1>1, <1>3, <2>1
  <2>2. CASE u # t
    <3>1. task'[u] = task[u] /\ task[u].row # 0 /\ task[u].row \in DOMAIN rows
      BY <1>1, <1>3, <2>2 DEF Inv, Good, Owner, WithRow
    <3>2. task[u].row # task[t].row
      BY <2>2, <3>1 DEF Inv, Apart
    <3>3. rows'[task[u].row] = rows[task[u].row]
      BY <3>1, <3>2
    <3>. QED  BY <1>3, <3>1, <3>3 DEF HeldOK, Verdict
  <2>. QED  BY <2>1, <2>2
<1>. QED  BY <1>2, <1>3, HeldKept

LEMMA HeldThrow ==
    ASSUME Inv, Inv', HeldOK, NEW t \in Tasks, Throw(t), UNCHANGED <<rows, column>>
    PROVE  HeldOK'
<1>1. marks \subseteq marks' /\ Retried(t).at \notin HolderPC
  BY RetriedGood DEF Throw, Mark, HolderPC
<1>2. \A u \in Tasks : task'[u] = task[u] \/ task'[u].at \notin HolderPC
  BY <1>1 DEF Throw, Inv, TypeOK
<1>. QED  BY <1>1, <1>2, HeldStill

LEMMA HeldDone ==
    ASSUME Inv, Inv', HeldOK, NEW t \in Tasks, Done(t), UNCHANGED <<rows, column, marks>>
    PROVE  HeldOK'
<1>1. \A u \in Tasks : task'[u] = task[u] \/ task'[u].at \notin HolderPC
  BY Kinds DEF Done, HolderPC, Inv, TypeOK
<1>. QED  BY <1>1, HeldStill

LEMMA HeldGoTo ==
    ASSUME Inv, Inv', HeldOK, NEW t \in Tasks, NEW label, GoTo(t, label),
           label \notin HolderPC, UNCHANGED <<rows, column, marks>>
    PROVE  HeldOK'
<1>1. \A u \in Tasks : task'[u] = task[u] \/ task'[u].at \notin HolderPC
  BY DEF GoTo, Inv, TypeOK, Task
<1>. QED  BY <1>1, HeldStill

LEMMA HeldFan ==
    ASSUME Inv, Inv', HeldOK, NEW t \in Tasks,
           FindFan(t) \/ Prefs(t) \/ Add(t) \/ (t \in Jobs /\ (BeginFan(t) \/ BeginChannel(t)))
    PROVE  HeldOK'
<1>1. task \in [Tasks -> Task] /\ task[t] \in Task
  BY DEF Inv, TypeOK
<1>2. "prefs" \notin HolderPC /\ "find" \notin HolderPC /\ "load" \notin HolderPC
      /\ "add" \notin HolderPC
  BY DEF HolderPC
<1>3. CASE FindFan(t)
  BY <1>2, <1>3, HeldThrow, HeldDone, HeldGoTo DEF FindFan, Or
<1>4. CASE Prefs(t)
  <2>1. ASSUME NEW enabled,
               task' = [task EXCEPT ![t] =
                     IF enabled = {} THEN NoTask
                     ELSE [@ EXCEPT !.at = "add", !.left = enabled]],
               UNCHANGED <<rows, marks, faults>>
        PROVE  HeldOK'
    <3>1. task'[t].at \notin HolderPC /\ \A u \in Tasks \ {t} : task'[u] = task[u]
      BY <1>1, <1>2, <2>1, Kinds DEF Task, HolderPC
    <3>2. column' = column
      BY <1>4 DEF Prefs
    <3>. QED  BY <2>1, <3>1, <3>2, HeldStill
  <2>. QED  BY <1>4, <2>1, HeldThrow DEF Prefs, Or
<1>5. CASE Add(t)
  <2>1. ASSUME NEW c \in task[t].left, NEW j \in Jobs,
               task' = [task EXCEPT ![j] = Job("channel", c), ![t] = Rest(t, c)],
               UNCHANGED <<rows, marks, faults>>
        PROVE  HeldOK'
    <3>1. c \in Channels /\ j \in Tasks /\ task[t].at = "add"
      BY <1>1, <1>5, <2>1 DEF Task, Tasks, Add
    <3>2. Job("channel", c).at \notin HolderPC /\ Rest(t, c).at \notin HolderPC
      BY <1>1, <1>2, <3>1, Kinds DEF Rest, Task, HolderPC
    <3>3. \A u \in Tasks : task'[u] = task[u] \/ task'[u].at \notin HolderPC
      BY <1>1, <2>1, <3>1, <3>2
    <3>4. column' = column
      BY <1>5 DEF Add
    <3>. QED  BY <2>1, <3>3, <3>4, HeldStill
  <2>. QED  BY <1>5, <2>1, HeldThrow DEF Add, Or
<1>6. CASE t \in Jobs /\ (BeginFan(t) \/ BeginChannel(t))
  BY <1>2, <1>6, HeldGoTo DEF BeginFan, BeginChannel
<1>. QED  BY <1>3, <1>4, <1>5, <1>6

LEMMA HeldLoad ==
    ASSUME Inv, Inv', HeldOK, NEW t \in Jobs, Load(t)
    PROVE  HeldOK'
<1>1. /\ task \in [Tasks -> Task] /\ task[t] \in Task /\ t \in Tasks
      /\ UNCHANGED <<rows, column>>
  BY DEF Inv, TypeOK, Tasks, Load
<1>2. CASE /\ task' = [task EXCEPT ![t].at = "record", ![t].base = column]
           /\ Mark("overlapped", Holders # {})
  <2>1. /\ task'[t].at = "record" /\ task'[t].base = column
        /\ \A u \in Tasks \ {t} : task'[u] = task[u]
    BY <1>1, <1>2 DEF Task
  <2>2. "overlapped" \notin marks' => "overlapped" \notin marks /\ Holders = {}
    BY <1>2 DEF Mark
  <2>3. ASSUME "overlapped" \notin marks'
        PROVE  Holders' \subseteq {t}
    BY <2>1, <2>2, <2>3, HoldersAre, HoldersWillBe
  <2>4. ASSUME NEW u \in Tasks, task'[u].at = "column"
        PROVE  rows'[task'[u].row].status = Verdict(u)'
    <3>1. u # t
      BY <2>1, <2>4
    <3>2. task'[u] = task[u]
      BY <2>1, <3>1
    <3>. QED  BY <1>1, <2>4, <3>2 DEF HeldOK, Verdict
  <2>. QED  BY <1>1, <2>1, <2>3, <2>4 DEF HeldOK
<1>3. CASE Done(t) /\ UNCHANGED <<marks, faults>>
  BY <1>1, <1>3, HeldDone
<1>4. CASE Throw(t)
  BY <1>1, <1>4, HeldThrow
<1>. QED  BY <1>2, <1>3, <1>4 DEF Load

LEMMA HeldRecord ==
    ASSUME Inv, Inv', HeldOK, NEW t \in Jobs, Record(t)
    PROVE  HeldOK'
<1>1. /\ task \in [Tasks -> Task] /\ task[t] \in Task /\ t \in Tasks /\ rows \in Seq(Row)
      /\ column' = column /\ task[t].at = "record"
  BY DEF Inv, TypeOK, Tasks, Record
<1>2. CASE /\ rows' = Append(rows, [ch |-> task[t].ch, status |-> "pending", taken |-> FALSE])
           /\ task' = [task EXCEPT ![t].at = "send", ![t].row = Len(rows) + 1]
           /\ UNCHANGED <<marks, faults>>
  <2>. DEFINE v == [task[t] EXCEPT !.at = "send", !.row = Len(rows) + 1]
  <2>1. task' = [task EXCEPT ![t] = v] /\ v.at = "send" /\ v.base = task[t].base
    BY <1>1, <1>2 DEF Task
  <2>2. \A i \in DOMAIN rows : rows'[i] = rows[i]
    BY <1>1, <1>2
  <2>3. task[t].at \in HolderPC /\ marks \subseteq marks' /\ "send" # "column"
    BY <1>1, <1>2 DEF HolderPC
  <2>. HIDE DEF v
  <2>4. \A i \in DOMAIN rows : i # task[t].row => rows'[i] = rows[i]
    BY <2>2
  <2>5. task' = [task EXCEPT ![t] = v] /\ v.at # "column"
    BY <2>1, <2>3
  <2>. QED  BY <1>1, <2>1, <2>3, <2>4, <2>5, HeldMove
<1>3. CASE Throw(t) /\ UNCHANGED rows
  BY <1>1, <1>3, HeldThrow
<1>. QED  BY <1>2, <1>3 DEF Record, Or

\* Where a job goes from its message, and what becomes of the row.
LEMMA SendShape ==
    ASSUME Inv, NEW t \in Jobs, Send(t)
    PROVE  /\ \E v : /\ task' = [task EXCEPT ![t] = v] /\ v.base = task[t].base
                     /\ v.at \in {"stamp", "settle", "catch"}
           /\ \/ UNCHANGED <<rows, sends>>
              \/ /\ task[t].ch \notin {InApp, Sms}
                 /\ rows' = [rows EXCEPT ![task[t].row].taken = TRUE]
                 /\ sends' = [sends EXCEPT ![task[t].ch] = @ + 1]
           /\ UNCHANGED <<column, marks>>
<1>1. /\ task \in [Tasks -> Task] /\ task[t] \in Task /\ t \in Tasks
      /\ rows \in Seq(Row) /\ task[t].row \in DOMAIN rows /\ ~rows[task[t].row].taken
      /\ rows[task[t].row] \in Row
      /\ sends \in [Channels -> Nat] /\ task[t].ch \in Channels
  BY RowKept DEF Inv, TypeOK, Tasks, Task, Send, Good, Owner, WithRow
<1>2. \/ UNCHANGED <<rows, sends>>
      \/ /\ task[t].ch \notin {InApp, Sms}
         /\ rows' = [rows EXCEPT ![task[t].row].taken = TRUE]
         /\ sends' = [sends EXCEPT ![task[t].ch] = @ + 1]
  <2>1. rows = [rows EXCEPT ![task[t].row].taken = FALSE]
    <3>1. [rows[task[t].row] EXCEPT !.taken = FALSE] = rows[task[t].row]
      BY <1>1 DEF Row
    <3>. QED  BY <1>1, <3>1
  <2>2. sends = [sends EXCEPT ![task[t].ch] = @ + 0]
    BY <1>1
  <2>3. ASSUME NEW took \in BOOLEAN, Take(t, took)
        PROVE  IF took
               THEN /\ rows' = [rows EXCEPT ![task[t].row].taken = TRUE]
                    /\ sends' = [sends EXCEPT ![task[t].ch] = @ + 1]
               ELSE UNCHANGED <<rows, sends>>
    BY <2>1, <2>2, <2>3 DEF Take
  <2>. QED  BY <2>3 DEF Send
<1>3. ASSUME NEW label \in {"stamp", "settle", "catch"}, NEW ok,
             \/ GoTo(t, label)
             \/ task' = [task EXCEPT ![t].at = label, ![t].ok = ok]
      PROVE  \E v : /\ task' = [task EXCEPT ![t] = v] /\ v.base = task[t].base
                   /\ v.at \in {"stamp", "settle", "catch"}
  <2>. DEFINE v == [task[t] EXCEPT !.at = label]
              w == [task[t] EXCEPT !.at = label, !.ok = ok]
  <2>1. v.base = task[t].base /\ v.at = label /\ w.base = task[t].base /\ w.at = label
    BY <1>1 DEF Task
  <2>2. task' = [task EXCEPT ![t] = v] \/ task' = [task EXCEPT ![t] = w]
    BY <1>1, <1>3 DEF GoTo
  <2>. HIDE DEF v, w
  <2>. QED  BY <2>1, <2>2
<1>4. \E label \in {"stamp", "settle", "catch"} : \E ok :
        \/ GoTo(t, label)
        \/ task' = [task EXCEPT ![t].at = label, ![t].ok = ok]
  BY DEF Send
<1>. QED  BY <1>2, <1>3, <1>4 DEF Send

LEMMA HeldSend ==
    ASSUME Inv, Inv', HeldOK, NEW t \in Jobs, Send(t)
    PROVE  HeldOK'
<1>1. /\ t \in Tasks /\ rows \in Seq(Row) /\ task[t].row \in DOMAIN rows
      /\ task[t].at \in HolderPC
  BY DEF Inv, TypeOK, Tasks, Send, Good, Owner, WithRow, HolderPC
<1>2. PICK v : /\ task' = [task EXCEPT ![t] = v] /\ v.base = task[t].base
               /\ v.at \in {"stamp", "settle", "catch"}
  BY SendShape
<1>3. \A i \in DOMAIN rows : i # task[t].row => rows'[i] = rows[i]
  BY <1>1, SendShape
<1>4. UNCHANGED <<column, marks>>
  BY SendShape
<1>. QED  BY <1>1, <1>2, <1>3, <1>4, HeldMove

LEMMA HeldEnd ==
    ASSUME Inv, Inv', HeldOK, NEW t \in Jobs, Stamp(t) \/ Settle(t) \/ Column(t) \/ Catch(t)
    PROVE  HeldOK'
<1>1. /\ task \in [Tasks -> Task] /\ task[t] \in Task /\ t \in Tasks /\ rows \in Seq(Row)
      /\ task[t].row \in DOMAIN rows /\ "catch" \notin HolderPC
  BY DEF Inv, TypeOK, Tasks, Good, Owner, WithRow, HolderPC, Stamp, Settle, Column, Catch
<1>2. ASSUME Fault, GoTo(t, "catch"), UNCHANGED <<rows, column>>, ~Catch(t)
      PROVE  HeldOK'
  BY <1>1, <1>2, HeldGoTo DEF Stamp, Settle, Column
<1>3. CASE Stamp(t)
  <2>. DEFINE v == [task[t] EXCEPT !.at = "settle"]
  <2>1. v.at = "settle" /\ v.base = task[t].base /\ task[t].at \in HolderPC /\ ~Catch(t)
    BY <1>1, <1>3 DEF Task, Stamp, HolderPC, Catch
  <2>2. GoTo(t, "settle") => task' = [task EXCEPT ![t] = v]
    BY <1>1 DEF GoTo
  <2>3. marks' = marks
    BY <1>3 DEF Stamp
  <2>. HIDE DEF v
  <2>4. ASSUME GoTo(t, "settle"), UNCHANGED <<rows, column>>
        PROVE  HeldOK'
    BY <1>1, <2>1, <2>2, <2>3, <2>4, HeldMove
  <2>. QED  BY <1>2, <1>3, <2>1, <2>4 DEF Stamp, OrCatch
<1>4. CASE Settle(t)
  <2>. DEFINE v == [task[t] EXCEPT !.at = "column"]
  <2>1. /\ v.at = "column" /\ v.base = task[t].base /\ v.row = task[t].row /\ v.ok = task[t].ok
        /\ task[t].at \in HolderPC /\ ~Catch(t)
    BY <1>1, <1>4 DEF Task, Settle, HolderPC, Catch
  <2>2. GoTo(t, "column") => task' = [task EXCEPT ![t] = v] /\ task'[t] = v
    BY <1>1 DEF GoTo
  <2>3. marks' = marks
    BY <1>4 DEF Settle
  <2>. HIDE DEF v
  <2>4. ASSUME GoTo(t, "column"), column' = column,
               rows' = [rows EXCEPT ![task[t].row].status = Verdict(t)]
        PROVE  HeldOK'
    <3>1. \A i \in DOMAIN rows : i # task[t].row => rows'[i] = rows[i]
      BY <1>1, <2>4
    <3>2. rows'[v.row].status = Verdict(t)
      <4>1. rows[task[t].row] \in Row
        BY <1>1
      <4>2. rows'[task[t].row] = [rows[task[t].row] EXCEPT !.status = Verdict(t)]
        BY <1>1, <2>4
      <4>. QED  BY <2>1, <4>1, <4>2 DEF Row
    <3>3. Verdict(t)' = Verdict(t)
      BY <2>1, <2>2, <2>4 DEF Verdict
    <3>. QED  BY <1>1, <2>1, <2>2, <2>3, <2>4, <3>1, <3>2, <3>3, HeldMove
  <2>. QED  BY <1>2, <1>4, <2>1, <2>4 DEF Settle, OrCatch
<1>5. CASE Column(t)
  <2>1. /\ task[t].at \in HolderPC /\ ~Catch(t) /\ marks' = marks
    BY <1>5 DEF Column, HolderPC, Catch
  <2>2. ASSUME Done(t), rows' = rows
        PROVE  HeldOK'
    <3>1. task'[t] = NoTask /\ \A u \in Tasks \ {t} : task'[u] = task[u]
      BY <1>1, <2>2 DEF Done
    <3>2. ASSUME "overlapped" \notin marks'
          PROVE  Holders' = {}
      <4>1. \A u \in Tasks : task[u].at \in HolderPC => u = t
        BY <1>1, <2>1, <3>2, HoldersAre DEF HeldOK
      <4>2. \A u \in Tasks : task'[u].at \notin HolderPC
        BY <3>1, <4>1, Kinds DEF HolderPC
      <4>. QED  BY <4>2, HoldersWillBe
    <3>3. ASSUME NEW u \in Tasks, task'[u].at = "column"
          PROVE  rows'[task'[u].row].status = Verdict(u)'
      <4>1. u # t
        BY <3>1, <3>3, Kinds
      <4>2. task'[u] = task[u]
        BY <3>1, <4>1
      <4>. QED  BY <2>2, <3>3, <4>2 DEF HeldOK, Verdict
    <3>. QED  BY <3>2, <3>3 DEF HeldOK
  <2>. QED  BY <1>2, <1>5, <2>1, <2>2 DEF Column, OrCatch
<1>6. CASE Catch(t)
  <2>1. ASSUME Done(t), rows' = [rows EXCEPT ![task[t].row].status = "failed"],
               UNCHANGED <<column, marks>>
        PROVE  HeldOK'
    <3>1. task' = [task EXCEPT ![t] = NoTask] /\ NoTask.at \notin HolderPC
          /\ NoTask.at # "column"
      BY <2>1, Kinds DEF Done, HolderPC
    <3>2. \A i \in DOMAIN rows : i # task[t].row => rows'[i] = rows[i]
      BY <1>1, <2>1
    <3>. QED  BY <1>1, <2>1, <3>1, <3>2, HeldMove
  <2>. QED  BY <1>1, <1>6, <2>1, HeldThrow DEF Catch, Or
<1>. QED  BY <1>3, <1>4, <1>5, <1>6

LEMMA HeldOthers ==
    ASSUME Inv, Inv', HeldOK,
           \/ \E j \in Jobs : Schedule(j) \/ Recover(j)
           \/ Delete \/ Crash \/ UNCHANGED vars
    PROVE  HeldOK'
<1>1. task \in [Tasks -> Task]
  BY DEF Inv, TypeOK
<1>2. ASSUME NEW j \in Jobs, Schedule(j)
      PROVE  HeldOK'
  <2>1. task' = [task EXCEPT ![j] = Job("fan", InApp), ![Request] = NoTask]
        /\ UNCHANGED <<rows, column, marks>>
    BY <1>2 DEF Schedule
  <2>2. Job("fan", InApp).at \notin HolderPC /\ NoTask.at \notin HolderPC
    BY ChannelsAssumption, Kinds DEF HolderPC
  <2>3. \A u \in Tasks : task'[u] = task[u] \/ task'[u].at \notin HolderPC
    BY <1>1, <2>1, <2>2
  <2>. QED  BY <2>1, <2>3, HeldStill
<1>3. ASSUME NEW j \in Jobs, Recover(j)
      PROVE  HeldOK'
  <2>1. CASE task' = [task EXCEPT ![j].at = "waiting", ![j].stalls = @ + 1] /\ UNCHANGED marks
    <3>1. task'[j].at = "waiting" /\ \A u \in Tasks \ {j} : task'[u] = task[u]
      BY <1>1, <2>1 DEF Task, Tasks
    <3>2. \A u \in Tasks : task'[u] = task[u] \/ task'[u].at \notin HolderPC
      BY <3>1 DEF HolderPC
    <3>. QED  BY <1>3, <2>1, <3>2, HeldStill DEF Recover
  <2>2. CASE GiveUp(j)
    <3>1. task' = [task EXCEPT ![j] = NoTask] /\ marks \subseteq marks'
      BY <2>2 DEF GiveUp, Done, Mark
    <3>2. \A u \in Tasks : task'[u] = task[u] \/ task'[u].at \notin HolderPC
      BY <1>1, <3>1, Kinds DEF HolderPC
    <3>. QED  BY <1>3, <3>1, <3>2, HeldStill DEF Recover
  <2>. QED  BY <1>3, <2>1, <2>2 DEF Recover
<1>4. CASE Delete \/ UNCHANGED vars
  BY <1>4, HeldStill DEF Delete, vars
<1>5. CASE Crash
  <2>1. \A u \in Tasks : task'[u].at \notin HolderPC
    BY <1>5, CrashTasks DEF Restarted, HolderPC
  <2>. QED  BY <1>5, <2>1, HeldStill DEF Crash
<1>. QED  BY <1>2, <1>3, <1>4, <1>5

LEMMA HeldStep ==
    ASSUME Inv, Inv', HeldOK, [Next]_vars
    PROVE  HeldOK'
<1>1. ASSUME NEW t \in Tasks, Work(t)
      PROVE  HeldOK'
  BY <1>1, HeldFan, HeldLoad, HeldRecord, HeldSend, HeldEnd, HeldOthers DEF Work
<1>. QED  BY <1>1, HeldOthers DEF Next

LEMMA HeldAlways == Spec => [](Inv /\ HeldOK)
<1>1. Init => HeldOK
  <2>1. Init => Inv
    BY Start
  <2>2. Init => \A t \in Tasks : task[t].at \notin HolderPC
    BY Kinds DEF Init, HolderPC, NoTask
  <2>. QED  BY <2>1, <2>2, HoldersAre DEF HeldOK, HolderPC
<1>2. Inv /\ HeldOK /\ [Next]_vars => (Inv /\ HeldOK)'
  <2>1. Inv /\ [Next]_vars => Inv'
    BY InvStep
  <2>. QED  BY <2>1, HeldStep
<1>. QED  BY <1>1, <1>2, Start, PTL DEF Spec

\* A job's row, as its steps find it.
LEMMA RowInHand ==
    ASSUME Inv, NEW t \in Jobs, task[t].at \in WithRow
    PROVE  /\ t \in Tasks /\ task[t] \in Task /\ rows \in Seq(Row)
           /\ task[t].row \in DOMAIN rows /\ rows[task[t].row] \in Row
           /\ rows[task[t].row].ch = task[t].ch
           /\ Owner(t) /\ Told(t) /\ RowsTruthful
<1>1. t \in Tasks /\ Good(t) /\ task \in [Tasks -> Task]
  BY DEF Inv, TypeOK, Tasks
<1>2. Owner(t) /\ Told(t) /\ task[t] \in Task
  BY <1>1 DEF Good
<1>. QED  BY <1>1, <1>2, RowKept DEF Inv, TypeOK, Owner

\* A job makes its row.
LEMMA RecordPromised ==
    ASSUME Inv, NEW t \in Jobs, Record(t)
    PROVE  Abstract!Step
<1>1. task[t].ch \in Channels /\ UNCHANGED <<column, sends>>
  BY DEF Inv, TypeOK, Tasks, Task, Record
<1>2. CASE UNCHANGED rows
  BY <1>1, <1>2 DEF Abstract!Step, Abstract!records
<1>3. CASE rows' = Append(rows, [ch |-> task[t].ch, status |-> "pending", taken |-> FALSE])
  BY <1>1, <1>3 DEF Abstract!Step, Abstract!Open
<1>. QED  BY <1>2, <1>3 DEF Record, Or

\* The provider takes its message.
LEMMA SendPromised ==
    ASSUME Inv, NEW t \in Jobs, Send(t)
    PROVE  Abstract!Step
<1>. DEFINE r == task[t].row
<1>1. /\ r \in DOMAIN rows /\ rows[r].ch = task[t].ch
      /\ rows[r].status = "pending" /\ ~rows[r].taken
  BY RowInHand DEF Owner, Send, Unsettled, WithRow
<1>2. UNCHANGED column
  BY SendShape
<1>3. CASE UNCHANGED <<rows, sends>>
  BY <1>2, <1>3 DEF Abstract!Step, Abstract!records
<1>4. CASE /\ task[t].ch \notin {InApp, Sms}
           /\ rows' = [rows EXCEPT ![r].taken = TRUE]
           /\ sends' = [sends EXCEPT ![task[t].ch] = @ + 1]
  <2>1. Abstract!Take(r)
    BY <1>1, <1>2, <1>4 DEF Abstract!Take
  <2>. QED  BY <1>1, <2>1 DEF Abstract!Step
<1>. QED  BY <1>3, <1>4, SendShape

\* It settles the row with what the provider said.
LEMMA SettlePromised ==
    ASSUME Inv, NEW t \in Jobs, Settle(t)
    PROVE  Abstract!Step
<1>. DEFINE r == task[t].row
<1>1. /\ r \in DOMAIN rows /\ rows[r].ch = task[t].ch /\ rows[r].status = "pending"
      /\ Told(t) /\ task[t].at = "settle"
  BY RowInHand DEF Owner, Settle, Unsettled, WithRow
<1>2. CASE UNCHANGED <<rows, column>>
  BY <1>2 DEF Settle, Abstract!Step, Abstract!records
<1>3. CASE rows' = [rows EXCEPT ![r].status = Verdict(t)] /\ column' = column
  <2>1. Verdict(t) = "sent" => rows[r].taken \/ rows[r].ch = InApp
    BY <1>1 DEF Verdict, Told
  <2>2. Verdict(t) = "failed" /\ rows[r].taken => faults > 0
    BY <1>1 DEF Verdict, Told
  <2>3. Abstract!Settle(r, Verdict(t))
    BY <1>1, <1>3, <2>1, <2>2 DEF Abstract!Settle, Settle
  <2>4. Verdict(t) \in {"sent", "failed"}
    BY DEF Verdict
  <2>. QED  BY <1>1, <2>3, <2>4 DEF Abstract!Step
<1>. QED  BY <1>2, <1>3 DEF Settle, OrCatch

\* After an error it puts the row down as failed, whatever it was before.
LEMMA CatchPromised ==
    ASSUME Inv, NEW t \in Jobs, Catch(t)
    PROVE  Abstract!Step
<1>. DEFINE r == task[t].row
<1>1. /\ r \in DOMAIN rows /\ rows \in Seq(Row) /\ rows[r] \in Row
      /\ rows[r].ch = task[t].ch /\ Told(t) /\ RowsTruthful /\ task[t].at = "catch"
  BY RowInHand DEF Catch, WithRow
<1>2. UNCHANGED <<column, sends>>
  BY DEF Catch
<1>3. CASE UNCHANGED rows
  BY <1>2, <1>3 DEF Abstract!Step, Abstract!records
<1>4. CASE rows' = [rows EXCEPT ![r].status = "failed"]
  <2>1. faults > 0 \/ (~rows[r].taken /\ rows[r].ch # InApp)
    BY <1>1, ChannelsAssumption DEF Told
  <2>2. CASE rows[r].status = "pending"
    <3>1. Abstract!Settle(r, "failed")
      BY <1>2, <1>4, <2>1, <2>2 DEF Abstract!Settle
    <3>. QED  BY <1>1, <3>1 DEF Abstract!Step
  <2>3. CASE rows[r].status = "sent"
    <3>1. faults > 0
      BY <1>1, <2>1, <2>3 DEF RowsTruthful
    <3>2. Abstract!Retract(r)
      BY <1>2, <1>4, <2>3, <3>1 DEF Abstract!Retract
    <3>. QED  BY <1>1, <3>2 DEF Abstract!Step
  <2>4. CASE rows[r].status = "failed"
    <3>1. [rows[r] EXCEPT !.status = "failed"] = rows[r]
      BY <1>1, <2>4 DEF Row
    <3>2. rows' = rows
      BY <1>1, <1>4, <3>1
    <3>. QED  BY <1>2, <3>2 DEF Abstract!Step, Abstract!records
  <2>. QED  BY <1>1, <2>2, <2>3, <2>4 DEF Row
<1>. QED  BY <1>3, <1>4 DEF Catch, Or

\* It writes the column: the row's outcome, and for the other channels what it
\* read, which is what the column holds unless two jobs held copies of it.
LEMMA ColumnPromised ==
    ASSUME Inv, HeldOK, NEW t \in Jobs, Column(t)
    PROVE  Abstract!Step
<1>. DEFINE r == task[t].row
<1>1. /\ r \in DOMAIN rows /\ rows[r].ch = task[t].ch /\ rows[r].status # "pending"
      /\ Told(t) /\ t \in Tasks /\ task[t] \in Task /\ task[t].at = "column"
  BY RowInHand DEF Owner, Column, WithRow
<1>2. UNCHANGED <<sends, marks>>
  BY DEF Column
<1>3. CASE UNCHANGED <<rows, column>>
  BY <1>2, <1>3 DEF Abstract!Step, Abstract!records
<1>4. CASE /\ column' = [task[t].base EXCEPT ![task[t].ch] = Verdict(t)]
           /\ rows' = rows
  <2>1. rows[r].status = Verdict(t)
    BY <1>1 DEF HeldOK
  <2>2. /\ task[t].base \in [Channels -> {"none", "sent", "failed"}]
        /\ Verdict(t) \in {"none", "sent", "failed"}
    BY <1>1 DEF Task, Outcome, Verdict
  <2>3. "overlapped" \notin marks => task[t].base = column
    BY <1>1, HoldersAre DEF HeldOK, HolderPC
  <2>4. ASSUME NEW c \in Channels
        PROVE  /\ c = rows[r].ch => column'[c] = rows[r].status
               /\ c # rows[r].ch =>
                    column'[c] = column[c] \/ ("overlapped" \in marks /\ Abstract!Founded(c))
    <3>1. c = rows[r].ch => column'[c] = rows[r].status
      BY <1>1, <1>4, <2>1, <2>2
    <3>2. c # rows[r].ch => column'[c] = task[t].base[c]
      BY <1>1, <1>4, <2>2
    <3>3. task[t].base[c] = "sent" => c = InApp \/ sends[c] > 0
      BY <1>1 DEF Told, Delivered
    <3>. QED  BY <2>3, <3>1, <3>2, <3>3 DEF Abstract!Founded
  <2>5. column' \in [Channels -> {"none", "sent", "failed"}]
    BY <1>4, <2>2
  <2>6. Abstract!Publish(r)
    BY <1>1, <1>2, <1>4, <2>4, <2>5 DEF Abstract!Publish
  <2>. QED  BY <1>1, <2>6 DEF Abstract!Step
<1>. QED  BY <1>3, <1>4 DEF Column, OrCatch

\* No other step touches the records.
LEMMA RestPromised ==
    ASSUME \/ \E t \in Tasks : FindFan(t) \/ Prefs(t) \/ Add(t)
           \/ \E t \in Jobs : \/ BeginFan(t) \/ BeginChannel(t) \/ Load(t) \/ Stamp(t)
                              \/ Recover(t) \/ Schedule(t)
           \/ Delete \/ Crash \/ UNCHANGED vars
    PROVE  Abstract!Step
<1>1. UNCHANGED <<rows, sends, column>>
  BY ZenonT(60) DEF FindFan, Prefs, Add, BeginFan, BeginChannel, Load, Stamp, Recover, Schedule,
     Delete, Crash, vars, Or, OrCatch
<1>. QED  BY <1>1 DEF Abstract!Step, Abstract!records

\* Through errors, crashes and jobs that are tried again: every message that a
\* provider took has a row of its own, a row is settled once, as sent only when
\* there is something to show for it, and a job changes its own channel's entry
\* in the column and no other, unless two jobs held copies of it at a time.
THEOREM RecordsAsPromised == Spec => OutboxSpec
<1>1. Init => Abstract!Init
  BY DEF Init, Abstract!Init, Unread
<1>2. ASSUME Inv, HeldOK, [Next]_vars
      PROVE  [Abstract!Next]_(Abstract!ovars)
  <2>1. ASSUME NEW t \in Jobs, Work(t)
        PROVE  Abstract!Step
    BY <1>2, <2>1, RecordPromised, SendPromised, SettlePromised, CatchPromised, ColumnPromised,
       RestPromised DEF Work, Tasks
  <2>2. Abstract!Step
    BY <1>2, <2>1, RestPromised DEF Next, Work
  <2>3. (faults > 0)' \in {faults > 0, TRUE}
    <3>1. faults \in Nat /\ faults' \in Nat /\ faults <= faults'
      BY <1>2, Monotone, InvStep DEF Inv, TypeOK
    <3>2. faults > 0 => faults' > 0
      BY <3>1
    <3>3. (faults > 0)' = (faults > 0) \/ (faults > 0)' = TRUE
      BY <3>2
    <3>. QED  BY <3>3, Zenon
  <2>4. ("overlapped" \in marks)' \in {"overlapped" \in marks, TRUE}
    <3>1. "overlapped" \in marks => "overlapped" \in marks'
      BY <1>2, Monotone
    <3>2. ("overlapped" \in marks)' = ("overlapped" \in marks)
          \/ ("overlapped" \in marks)' = TRUE
      BY <3>1
    <3>. QED  BY <3>2, Zenon
  <2>. QED  BY <2>2, <2>3, <2>4 DEF Abstract!Next
<1>3. Inv /\ HeldOK /\ [Next]_vars => [Abstract!Next]_(Abstract!ovars)
  BY <1>2
<1>. QED  BY <1>1, <1>3, HeldAlways, PTL DEF Spec, OutboxSpec, Abstract!Spec

-----------------------------------------------------------------------------
(* What follows from the promises of Outbox.                                 *)

Taken(c) == {i \in DOMAIN rows : rows[i].ch = c /\ rows[i].taken}

\* Every message that a provider took has a row of its own, and no other row
\* says that a message was taken.
OneRowEach == \A c \in Channels : sends[c] = Cardinality(Taken(c))

Entry == [ch : Channels, status : {"pending", "sent", "failed"}, taken : BOOLEAN]

Promised ==
    /\ rows \in Seq(Entry)
    /\ sends \in [Channels -> Nat]
    /\ \A i \in DOMAIN rows : rows[i].status = "sent" => rows[i].taken \/ rows[i].ch = InApp
    /\ OneRowEach
    /\ Abstract!Claims

LEMMA TakenFinite ==
    ASSUME rows \in Seq(Entry), NEW c
    PROVE  IsFiniteSet(Taken(c)) /\ Cardinality(Taken(c)) \in Nat
<1>1. DOMAIN rows = 1 .. Len(rows) /\ Len(rows) \in Nat
  OBVIOUS
<1>2. IsFiniteSet(DOMAIN rows)
  BY <1>1, FS_Interval
<1>3. Taken(c) \subseteq DOMAIN rows
  BY DEF Taken
<1>4. IsFiniteSet(Taken(c))
  BY <1>2, <1>3, FS_Subset
<1>. QED  BY <1>4, FS_CardinalityType

\* A step that leaves the messages leaves which rows have one.
LEMMA SameTaken ==
    ASSUME Promised, rows' \in Seq(Entry), sends' = sends,
           \A c \in Channels : Taken(c)' = Taken(c),
           \A i \in DOMAIN rows' :
               rows'[i].status = "sent" => rows'[i].taken \/ rows'[i].ch = InApp,
           Abstract!Claims'
    PROVE  Promised'
  BY DEF Promised, OneRowEach

LEMMA PromisedOpen ==
    ASSUME Promised, NEW c \in Channels, Abstract!Open(c)
    PROVE  Promised'
<1>. DEFINE e == [ch |-> c, status |-> "pending", taken |-> FALSE]
<1>1. /\ rows \in Seq(Entry) /\ e \in Entry /\ rows' = Append(rows, e)
      /\ UNCHANGED <<sends, column>>
  BY DEF Promised, Entry, Abstract!Open
<1>2. /\ rows' \in Seq(Entry) /\ DOMAIN rows' = DOMAIN rows \cup {Len(rows) + 1}
      /\ \A i \in DOMAIN rows : rows'[i] = rows[i]
      /\ Len(rows) + 1 \notin DOMAIN rows /\ rows'[Len(rows) + 1] = e
  BY <1>1
<1>3. \A d \in Channels : Taken(d)' = Taken(d)
  BY <1>2 DEF Taken
<1>4. \A i \in DOMAIN rows' : rows'[i].status = "sent" => rows'[i].taken \/ rows'[i].ch = InApp
  BY <1>2 DEF Promised
<1>5. Abstract!Claims'
  BY <1>1 DEF Promised, Abstract!Claims
<1>. QED  BY <1>1, <1>2, <1>3, <1>4, <1>5, SameTaken

LEMMA PromisedTake ==
    ASSUME Promised, NEW k \in DOMAIN rows, Abstract!Take(k)
    PROVE  Promised'
<1>0. PICK c \in Channels : c = rows[k].ch
  <2>1. rows[k] \in Entry
    BY DEF Promised
  <2>. QED  BY <2>1 DEF Entry
<1>1. /\ rows \in Seq(Entry) /\ rows[k] \in Entry /\ sends \in [Channels -> Nat]
      /\ rows[k].ch = c /\ rows[k].status = "pending" /\ ~rows[k].taken
      /\ rows' = [rows EXCEPT ![k].taken = TRUE]
      /\ sends' = [sends EXCEPT ![c] = sends[c] + 1] /\ column' = column
  <2>1. rows \in Seq(Entry) /\ sends \in [Channels -> Nat]
    BY DEF Promised
  <2>2. rows[k] \in Entry
    BY <2>1
  <2>. QED  BY <1>0, <2>1, <2>2 DEF Abstract!Take
<1>2. /\ rows' \in Seq(Entry) /\ DOMAIN rows' = DOMAIN rows
      /\ \A i \in DOMAIN rows : /\ rows'[i].ch = rows[i].ch /\ rows'[i].status = rows[i].status
                                /\ i # k => rows'[i] = rows[i]
      /\ rows'[k].taken
  <2>. DEFINE e == [rows[k] EXCEPT !.taken = TRUE]
  <2>1. /\ e \in Entry /\ e.ch = rows[k].ch /\ e.status = rows[k].status /\ e.taken
        /\ rows' = [rows EXCEPT ![k] = e]
    BY <1>1 DEF Entry
  <2>2. rows \in Seq(Entry)
    BY <1>1
  <2>. HIDE DEF e
  <2>3. rows' \in Seq(Entry) /\ DOMAIN rows' = DOMAIN rows
        /\ rows'[k] = e /\ \A i \in DOMAIN rows : i # k => rows'[i] = rows[i]
    BY <2>1, <2>2
  <2>. QED  BY <2>1, <2>3
<1>3. /\ Taken(c)' = Taken(c) \cup {k} /\ k \notin Taken(c)
      /\ \A d \in Channels \ {c} : Taken(d)' = Taken(d)
  <2>1. DOMAIN rows' = DOMAIN rows /\ \A i \in DOMAIN rows : rows'[i].ch = rows[i].ch
    BY <1>2
  <2>2. Taken(c)' = Taken(c) \cup {k} /\ k \notin Taken(c)
    BY <1>1, <1>2, <2>1 DEF Taken
  <2>3. ASSUME NEW d \in Channels \ {c}
        PROVE  Taken(d)' = Taken(d)
    BY <1>1, <1>2, <2>1 DEF Taken
  <2>. QED  BY <2>2, <2>3
<1>4. Cardinality(Taken(c) \cup {k}) = Cardinality(Taken(c)) + 1
  BY <1>1, <1>3, TakenFinite, FS_AddElement
<1>5. OneRowEach'
  <2>1. \A d \in Channels : sends[d] = Cardinality(Taken(d))
    BY DEF Promised, OneRowEach
  <2>2. sends'[c] = Cardinality(Taken(c)')
    BY <1>1, <1>3, <1>4, <2>1
  <2>3. \A d \in Channels \ {c} : sends'[d] = Cardinality(Taken(d)')
    BY <1>1, <1>3, <2>1
  <2>. QED  BY <2>2, <2>3 DEF OneRowEach
<1>6. Abstract!Claims' /\ sends' \in [Channels -> Nat]
  BY <1>1 DEF Promised, Abstract!Claims
<1>7. \A i \in DOMAIN rows' : rows'[i].status = "sent" => rows'[i].taken \/ rows'[i].ch = InApp
  BY <1>1, <1>2 DEF Promised
<1>. QED  BY <1>2, <1>5, <1>6, <1>7 DEF Promised

LEMMA PromisedSettle ==
    ASSUME Promised, NEW k \in DOMAIN rows,
           \/ \E outcome \in {"sent", "failed"} : Abstract!Settle(k, outcome)
           \/ Abstract!Retract(k)
    PROVE  Promised'
<1>1. PICK outcome \in {"sent", "failed"} :
        /\ outcome = "sent" => rows[k].taken \/ rows[k].ch = InApp
        /\ rows' = [rows EXCEPT ![k].status = outcome]
        /\ UNCHANGED <<sends, column>>
  BY DEF Abstract!Settle, Abstract!Retract
<1>2. rows \in Seq(Entry)
  BY DEF Promised
<1>3. /\ rows' \in Seq(Entry) /\ DOMAIN rows' = DOMAIN rows
      /\ \A i \in DOMAIN rows : /\ rows'[i].ch = rows[i].ch /\ rows'[i].taken = rows[i].taken
                                /\ i # k => rows'[i] = rows[i]
      /\ rows'[k].status = outcome
  <2>. DEFINE e == [rows[k] EXCEPT !.status = outcome]
  <2>1. rows[k] \in Entry
    BY <1>2
  <2>2. /\ e \in Entry /\ e.ch = rows[k].ch /\ e.taken = rows[k].taken /\ e.status = outcome
        /\ rows' = [rows EXCEPT ![k] = e]
    BY <1>1, <2>1 DEF Entry
  <2>. HIDE DEF e
  <2>3. rows' \in Seq(Entry) /\ DOMAIN rows' = DOMAIN rows
        /\ rows'[k] = e /\ \A i \in DOMAIN rows : i # k => rows'[i] = rows[i]
    BY <1>2, <2>2
  <2>. QED  BY <2>2, <2>3
<1>4. \A d \in Channels : Taken(d)' = Taken(d)
  BY <1>3 DEF Taken
<1>5. \A i \in DOMAIN rows' : rows'[i].status = "sent" => rows'[i].taken \/ rows'[i].ch = InApp
  BY <1>1, <1>3 DEF Promised
<1>6. Abstract!Claims'
  BY <1>1 DEF Promised, Abstract!Claims
<1>. QED  BY <1>1, <1>3, <1>4, <1>5, <1>6, SameTaken

LEMMA PromisedPublish ==
    ASSUME Promised, NEW k \in DOMAIN rows, Abstract!Publish(k)
    PROVE  Promised'
<1>. DEFINE c == rows[k].ch
<1>1. rows \in Seq(Entry) /\ sends \in [Channels -> Nat] /\ c \in Channels
  <2>1. rows \in Seq(Entry) /\ sends \in [Channels -> Nat] /\ rows[k] \in Entry
    BY DEF Promised
  <2>. QED  BY <2>1 DEF Entry
<1>2. UNCHANGED <<rows, sends>>
  BY DEF Abstract!Publish
<1>3. column'[c] = rows[k].status
  BY <1>1 DEF Abstract!Publish
<1>4. \A d \in Channels : d # c => column'[d] = column[d] \/ Abstract!Founded(d)
  BY DEF Abstract!Publish
<1>5. rows[k].taken => sends[c] > 0
  <2>. HAVE rows[k].taken
  <2>1. k \in Taken(c) /\ IsFiniteSet(Taken(c))
        /\ Cardinality(Taken(c)) \in Nat
    BY <1>1, TakenFinite DEF Taken
  <2>2. Cardinality(Taken(c)) # 0
    BY <2>1, FS_EmptySet
  <2>. QED  BY <1>1, <2>1, <2>2 DEF Promised, OneRowEach
<1>6. column'[c] = "sent" => c = InApp \/ sends'[c] > 0
  BY <1>2, <1>3, <1>5 DEF Promised
<1>7. \A d \in Channels : d # c /\ column'[d] = "sent" => d = InApp \/ sends'[d] > 0
  BY <1>2, <1>4 DEF Promised, Abstract!Claims, Abstract!Founded
<1>8. Abstract!Claims'
  BY <1>6, <1>7 DEF Abstract!Claims
<1>9. \A d \in Channels : Taken(d)' = Taken(d)
  BY <1>2 DEF Taken
<1>. QED  BY <1>1, <1>2, <1>8, <1>9, SameTaken DEF Promised

\* Whoever keeps the promises of Outbox has a row for each message, and claims none
\* that nobody took.
LEMMA PromisesKept == OutboxSpec => [](OneRowEach /\ Abstract!Claims)
<1>1. Abstract!Init => Promised
  <2>. SUFFICES ASSUME Abstract!Init
                PROVE  Promised
    OBVIOUS
  <2>1. /\ rows = <<>> /\ rows \in Seq(Entry) /\ DOMAIN rows = {}
        /\ sends = [c \in Channels |-> 0] /\ column = [c \in Channels |-> "none"]
    BY DEF Abstract!Init
  <2>2. \A c : Taken(c) = {}
    BY <2>1 DEF Taken
  <2>3. OneRowEach
    BY <2>1, <2>2, FS_EmptySet DEF OneRowEach
  <2>. QED  BY <2>1, <2>3 DEF Promised, Abstract!Claims
<1>2. ASSUME Promised, [Abstract!Next]_(Abstract!ovars)
      PROVE  Promised'
  <2>1. ASSUME UNCHANGED Abstract!records
        PROVE  Promised'
    BY <1>2, <2>1 DEF Abstract!records, Promised, OneRowEach, Abstract!Claims,
       Taken
  <2>2. CASE UNCHANGED Abstract!ovars
    BY <2>1, <2>2 DEF Abstract!ovars
  <2>. QED  BY <1>2, <2>1, <2>2, PromisedOpen, PromisedTake, PromisedSettle, PromisedPublish
            DEF Abstract!Next, Abstract!Step
<1>3. Promised /\ [Abstract!Next]_(Abstract!ovars) => Promised'
  BY <1>2
<1>4. Promised => OneRowEach /\ Abstract!Claims
  BY DEF Promised
<1>. QED  BY <1>1, <1>3, <1>4, PTL DEF OutboxSpec, Abstract!Spec

\* The messages of a channel are as many as its rows with one: whichever jobs are cut
\* off, tried again or run twice, no message goes out without a row that a later look
\* could find, and the notification claims none that no provider took.
THEOREM EachMessageHasItsRow == Spec => [](OneRowEach /\ Abstract!Claims)
  BY RecordsAsPromised, PromisesKept, PTL

-----------------------------------------------------------------------------
(* No task goes on for ever.                                                 *)

\* How far the points of a run are from its end.
Place ==
    [free |-> 0, stalled |-> 1, catch |-> 2, column |-> 3, settle |-> 4, stamp |-> 5,
     send |-> 6, record |-> 7, load |-> 8, add |-> 8, prefs |-> 9, find |-> 10,
     waiting |-> 11]

\* The task is done, or tried once more, or recovered once more, or at a later point,
\* or has one channel less to make a job for.
Nearer(t) ==
    LET v == task[t]
        u == task'[t]
    IN  \/ u.at = "free"
        \/ v.tries < u.tries /\ u.tries < Attempts
        \/ v.tries = u.tries /\ v.stalls < u.stalls /\ u.stalls <= MaxStalls
        \/ /\ v.tries = u.tries /\ v.stalls = u.stalls
           /\ \/ Place[u.at] < Place[v.at]
              \/ u.at = v.at /\ u.left \subseteq v.left /\ u.left # v.left

LEMMA EndNears ==
    ASSUME Inv, NEW t \in Tasks, Done(t) \/ Throw(t)
    PROVE  Nearer(t)
<1>1. task \in [Tasks -> Task] /\ task[t].tries \in Nat /\ Attempts \in Nat
  BY LimitsAssumption DEF Inv, TypeOK, Task
<1>2. CASE task' = [task EXCEPT ![t] = NoTask]
  BY <1>1, <1>2 DEF Nearer, NoTask
<1>3. CASE ~LastTry(t) /\ task' = [task EXCEPT ![t] = Retried(t)]
  <2>1. task'[t].tries = task[t].tries + 1 /\ task[t].tries + 1 < Attempts
    BY <1>1, <1>3 DEF Retried, LastTry, Job, NoTask
  <2>. QED  BY <1>1, <2>1 DEF Nearer
<1>. QED  BY <1>2, <1>3 DEF Done, Throw, Retried

LEMMA PointNears ==
    ASSUME Inv, NEW t \in Tasks,
           task'[t].tries = task[t].tries, task'[t].stalls = task[t].stalls,
           \/ task[t].at = "waiting" /\ task'[t].at \in {"find", "load"}
           \/ task[t].at = "find" /\ task'[t].at = "prefs"
           \/ task[t].at = "prefs" /\ task'[t].at = "add"
           \/ task[t].at = "load" /\ task'[t].at = "record"
           \/ task[t].at = "record" /\ task'[t].at = "send"
           \/ task[t].at = "send" /\ task'[t].at \in {"stamp", "settle", "catch"}
           \/ task[t].at = "stamp" /\ task'[t].at \in {"settle", "catch"}
           \/ task[t].at = "settle" /\ task'[t].at \in {"column", "catch"}
           \/ task[t].at = "column" /\ task'[t].at = "catch"
    PROVE  Nearer(t)
<1>1. Place[task'[t].at] < Place[task[t].at]
  BY DEF Place
<1>. QED  BY <1>1 DEF Nearer

LEMMA FanNears ==
    ASSUME Inv, NEW t \in Tasks, FindFan(t) \/ Prefs(t) \/ Add(t)
    PROVE  Nearer(t)
<1>1. task \in [Tasks -> Task] /\ task[t] \in Task
  BY DEF Inv, TypeOK
<1>2. CASE Done(t) \/ Throw(t)
  BY <1>2, EndNears
<1>3. CASE FindFan(t) /\ GoTo(t, "prefs")
  <2>1. task[t].at = "find" /\ task' = [task EXCEPT ![t].at = "prefs"]
    BY <1>3 DEF FindFan, GoTo
  <2>2. task'[t].at = "prefs" /\ task'[t].tries = task[t].tries
        /\ task'[t].stalls = task[t].stalls
    BY <1>1, <2>1 DEF Task
  <2>. QED  BY <2>1, <2>2, PointNears
<1>4. ASSUME NEW enabled, task[t].at = "prefs",
             task' = [task EXCEPT ![t] = IF enabled = {} THEN NoTask
                                         ELSE [@ EXCEPT !.at = "add", !.left = enabled]]
      PROVE  Nearer(t)
  <2>1. CASE enabled = {}
    BY <1>4, <2>1, EndNears DEF Done
  <2>2. CASE enabled # {}
    <3>1. task' = [task EXCEPT ![t] = [task[t] EXCEPT !.at = "add", !.left = enabled]]
      BY <1>4, <2>2
    <3>2. task'[t].at = "add" /\ task'[t].tries = task[t].tries
          /\ task'[t].stalls = task[t].stalls
      BY <1>1, <3>1 DEF Task
    <3>. QED  BY <1>4, <3>2, PointNears
  <2>. QED  BY <2>1, <2>2
<1>5. ASSUME NEW c \in task[t].left, NEW j \in Jobs, NextJob(j), task[t].at = "add",
             task' = [task EXCEPT ![j] = Job("channel", c), ![t] = Rest(t, c)]
      PROVE  Nearer(t)
  <2>1. task'[t] = Rest(t, c)
    BY <1>1, <1>5 DEF Tasks
  <2>2. CASE task[t].left = {c}
    BY <2>1, <2>2 DEF Rest, NoTask, Nearer
  <2>3. CASE task[t].left # {c}
    <3>1. /\ task'[t].at = task[t].at /\ task'[t].tries = task[t].tries
          /\ task'[t].stalls = task[t].stalls /\ task'[t].left = task[t].left \ {c}
      BY <1>1, <2>1, <2>3 DEF Rest, Task
    <3>. QED  BY <3>1 DEF Nearer
  <2>. QED  BY <2>2, <2>3
<1>6. CASE FindFan(t)
  BY <1>2, <1>3, <1>6 DEF FindFan, Or
<1>7. CASE Prefs(t)
  BY <1>2, <1>4, <1>7 DEF Prefs, Or
<1>8. CASE Add(t)
  BY <1>2, <1>5, <1>8 DEF Add, Or
<1>. QED  BY <1>6, <1>7, <1>8

LEMMA ChannelNears ==
    ASSUME Inv, NEW j \in Jobs,
           \/ BeginFan(j) \/ BeginChannel(j) \/ Load(j) \/ Record(j) \/ Send(j)
           \/ Stamp(j) \/ Settle(j) \/ Column(j) \/ Catch(j) \/ Recover(j)
    PROVE  Nearer(j)
<1>1. task \in [Tasks -> Task] /\ j \in Tasks /\ task[j] \in Task
  BY DEF Inv, TypeOK, Tasks
<1>2. CASE Done(j) \/ Throw(j)
  BY <1>1, <1>2, EndNears
<1>3. ASSUME NEW label, GoTo(j, label),
             \/ task[j].at = "waiting" /\ label \in {"find", "load"}
             \/ task[j].at = "send" /\ label \in {"stamp", "settle", "catch"}
             \/ task[j].at = "stamp" /\ label \in {"settle", "catch"}
             \/ task[j].at = "settle" /\ label \in {"column", "catch"}
             \/ task[j].at = "column" /\ label = "catch"
      PROVE  Nearer(j)
  <2>1. task'[j].at = label /\ task'[j].tries = task[j].tries
        /\ task'[j].stalls = task[j].stalls
    BY <1>1, <1>3 DEF GoTo, Task
  <2>. QED  BY <1>1, <1>3, <2>1, PointNears
<1>4. CASE Load(j)
  <2>1. CASE task' = [task EXCEPT ![j].at = "record", ![j].base = column]
    <3>1. task'[j].at = "record" /\ task'[j].tries = task[j].tries
          /\ task'[j].stalls = task[j].stalls
      BY <1>1, <2>1 DEF Task
    <3>. QED  BY <1>1, <1>4, <3>1, PointNears DEF Load
  <2>. QED  BY <1>2, <1>4, <2>1 DEF Load
<1>5. CASE Record(j)
  <2>1. CASE task' = [task EXCEPT ![j].at = "send", ![j].row = Len(rows) + 1]
    <3>1. task'[j].at = "send" /\ task'[j].tries = task[j].tries
          /\ task'[j].stalls = task[j].stalls
      BY <1>1, <2>1 DEF Task
    <3>. QED  BY <1>1, <1>5, <3>1, PointNears DEF Record
  <2>. QED  BY <1>2, <1>5, <2>1 DEF Record, Or
<1>6. CASE Send(j)
  <2>1. ASSUME NEW label \in {"stamp", "settle"}, NEW ok,
               task' = [task EXCEPT ![j].at = label, ![j].ok = ok]
        PROVE  Nearer(j)
    <3>1. task'[j].at = label /\ task'[j].tries = task[j].tries
          /\ task'[j].stalls = task[j].stalls
      BY <1>1, <2>1 DEF Task
    <3>. QED  BY <1>1, <1>6, <3>1, PointNears DEF Send
  <2>2. ASSUME NEW took \in BOOLEAN,
               task' = [task EXCEPT ![j].at = IF took THEN "stamp" ELSE "settle",
                                    ![j].ok = took]
        PROVE  Nearer(j)
    BY <2>1, <2>2
  <2>3. ASSUME NEW label \in {"settle", "catch"}, GoTo(j, label)
        PROVE  Nearer(j)
    BY <1>3, <1>6, <2>3 DEF Send
  <2>. QED  BY <1>6, <2>1, <2>2, <2>3 DEF Send
<1>7. CASE Recover(j)
  <2>1. CASE task[j].stalls < MaxStalls
             /\ task' = [task EXCEPT ![j].at = "waiting", ![j].stalls = @ + 1]
    <3>1. /\ task'[j].tries = task[j].tries /\ task'[j].stalls = task[j].stalls + 1
          /\ task[j].stalls \in Nat /\ MaxStalls \in Nat
      BY <1>1, <2>1, LimitsAssumption DEF Task
    <3>. QED  BY <2>1, <3>1 DEF Nearer
  <2>. QED  BY <1>2, <1>7, <2>1 DEF Recover, GiveUp
<1>8. CASE BeginFan(j) \/ BeginChannel(j)
  BY <1>3, <1>8 DEF BeginFan, BeginChannel
<1>9. CASE Stamp(j) \/ Settle(j)
  BY <1>3, <1>9 DEF Stamp, Settle, OrCatch
<1>10. CASE Column(j) \/ Catch(j)
  BY <1>2, <1>3, <1>10 DEF Column, Catch, OrCatch, Or
<1>. QED  BY <1>4, <1>5, <1>6, <1>7, <1>8, <1>9, <1>10

\* What happens to a task but for its own steps.
LEMMA OthersNear ==
    ASSUME Inv, [Next]_vars, NEW t \in Tasks, task[t].at # "free", ~Work(t),
           task'[t] # task[t]
    PROVE  Nearer(t)
<1>1. task \in [Tasks -> Task] /\ task[t] \in Task /\ Request \in Tasks
  BY DEF Inv, TypeOK, Tasks
<1>2. ASSUME NEW j \in Jobs, Schedule(j)
      PROVE  Nearer(t)
  <2>1. task' = [task EXCEPT ![j] = Job("fan", InApp), ![Request] = NoTask] /\ j # t
    BY <1>2 DEF Schedule, NextJob, Free
  <2>2. t = Request /\ task'[t] = NoTask
    BY <1>1, <2>1
  <2>. QED  BY <2>2 DEF Nearer, NoTask
<1>3. CASE Crash
  <2>1. CASE t = Request
    <3>1. task'[t] = NoTask
      BY <1>3, <2>1, Zenon DEF Crash
    <3>. QED  BY <3>1 DEF Nearer, NoTask
  <2>2. CASE t # Request /\ Running(t)
    <3>1. task'[t] = [Job(task[t].kind, task[t].ch) EXCEPT !.at = "stalled",
                          !.tries = task[t].tries, !.stalls = task[t].stalls]
      BY <1>3, <2>2, Zenon DEF Crash
    <3>2. /\ task'[t].at = "stalled" /\ task'[t].tries = task[t].tries
          /\ task'[t].stalls = task[t].stalls
      BY <3>1 DEF Job, NoTask
    <3>3. Place[task'[t].at] < Place[task[t].at]
      BY <2>2, <3>2 DEF Place, Running, FanPC, ChannelPC
    <3>. QED  BY <3>2, <3>3 DEF Nearer
  <2>3. CASE t # Request /\ ~Running(t)
    <3>1. task'[t] = task[t]
      BY <1>3, <2>3, Zenon DEF Crash
    <3>. QED  BY <3>1
  <2>. QED  BY <2>1, <2>2, <2>3
<1>4. ASSUME NEW u \in Tasks \ {t}, FindFan(u) \/ Prefs(u) \/ Add(u)
      PROVE  FALSE
  <2>1. ASSUME NEW c, NEW j \in Jobs, NextJob(j), NEW v,
               task' = [task EXCEPT ![j] = Job("channel", c), ![u] = v]
        PROVE  FALSE
    <3>1. j # t
      BY <2>1 DEF NextJob, Free
    <3>. QED  BY <1>1, <2>1, <3>1
  <2>2. ASSUME NEW v, task' = [task EXCEPT ![u] = v]
        PROVE  FALSE
    BY <1>1, <2>2
  <2>3. CASE FindFan(u)
    BY <1>1, <2>2, <2>3 DEF FindFan, Or, GoTo, Done, Throw
  <2>4. CASE Prefs(u)
    BY <1>1, <2>2, <2>4 DEF Prefs, Or, Throw
  <2>5. CASE Add(u)
    BY <1>1, <2>1, <2>2, <2>5 DEF Add, Or, Throw
  <2>. QED  BY <1>4, <2>3, <2>4, <2>5
<1>5. ASSUME NEW u \in Jobs \ {t},
             \/ BeginFan(u) \/ BeginChannel(u) \/ Load(u) \/ Record(u) \/ Send(u)
             \/ Stamp(u) \/ Settle(u) \/ Column(u) \/ Catch(u) \/ Recover(u)
      PROVE  FALSE
  <2>1. CASE BeginFan(u) \/ BeginChannel(u) \/ Load(u) \/ Record(u) \/ Recover(u)
    BY <1>1, <2>1 DEF BeginFan, BeginChannel, Load, Record, Recover, Or, GoTo, Done, Throw, GiveUp
  <2>2. CASE Send(u)
    BY <1>1, <2>2 DEF Send, GoTo
  <2>3. CASE Stamp(u) \/ Settle(u) \/ Column(u) \/ Catch(u)
    BY <1>1, <2>3 DEF Stamp, Settle, Column, Catch, OrCatch, Or, GoTo, Done, Throw
  <2>. QED  BY <1>5, <2>1, <2>2, <2>3
<1>6. CASE Delete \/ UNCHANGED vars
  BY <1>6 DEF Delete, vars
<1>. QED  BY <1>2, <1>3, <1>4, <1>5, <1>6 DEF Next, Work

\* Whatever happens to a task brings it nearer to its end, the exits of the process
\* included: a run goes from point to point, an error costs one of the attempts and an
\* exit one of the recoveries, and the channels are finitely many.  So no job is tried
\* for ever.
THEOREM TasksEnd ==
    Spec => [][\A t \in Tasks :
                 task[t].at # "free" /\ (Work(t) \/ task'[t] # task[t]) => Nearer(t)]_vars
<1>1. ASSUME Inv, [Next]_vars
      PROVE  \A t \in Tasks :
                 task[t].at # "free" /\ (Work(t) \/ task'[t] # task[t]) => Nearer(t)
  <2>1. ASSUME NEW t \in Tasks, Work(t)
        PROVE  Nearer(t)
    BY <1>1, <2>1, FanNears, ChannelNears DEF Work
  <2>. QED  BY <1>1, <2>1, OthersNear
<1>2. Inv /\ [Next]_vars =>
        [\A t \in Tasks :
           task[t].at # "free" /\ (Work(t) \/ task'[t] # task[t]) => Nearer(t)]_vars
  BY <1>1
<1>. QED  BY <1>2, Always, PTL DEF Spec
=============================================================================

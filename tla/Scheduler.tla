------------------------------- MODULE Scheduler -------------------------------
(***************************************************************************)
(* Scheduler (experimental/scheduler.hpp): a thread that wakes up every    *)
(* second and runs the tasks that are due.  Tasks are added by any thread  *)
(* at any time, by the tasks themselves too, without a lock: each use of   *)
(* the vector's own fields has a beginning and an end, and another thread  *)
(* may come in between.                                                    *)
(***************************************************************************)
EXTENDS Integers, Sequences, SequencesExt

CONSTANTS Adders,    \* the threads that call AddTask
          NewTasks,  \* the tasks a caller may create, with what happens to be
                     \* in count_current_, which no constructor sets
          MaxTasks,  \* bound: tasks added in a behaviour
          Horizon    \* bound: the second after which the clock stands

VARIABLES
  task,           \* the task objects created so far, in order of AddTask
  adding,         \* what a thread inside emplace_back adds, 0 outside
  tasks,          \* the vector: positions in task of those it holds
  room,           \* its capacity
  seconds,        \* timer.ElapsedTime()
  at,             \* where the thread is in Tick
  current_time,
  seen,           \* the elements the loop of Tick goes over
  index,          \* i of the loop
  to_remove,
  race,           \* two threads are in its fields at once, or the first has left
  ran,            \* history: how often each task was run
  moved,          \* history: the vector was reallocated under the loop
  several,        \* history: two tasks ended in one tick
  aborted         \* std::bad_function_call, or a wild access that traps

tickVars == <<at, current_time, seen, index, to_remove>>
schedVars == <<task, adding, tasks, room, race, seconds, tickVars, ran, moved, several, aborted>>

TimingType == {"kLater", "kRepeatUntil", "kRepeatInterval"}
Task == [type : TimingType, scheduled_at : Nat, interval : Nat,
         count_max : Nat, count_current_ : Int, disposed : BOOLEAN]

\* Later, RepeatInterval and RepeatUntil make the objects, with garbage counts
\* and with the function the caller gives: one that can be called.
ASSUME TasksAssumption ==
  /\ NewTasks \subseteq Task /\ \A t \in NewTasks : ~t.disposed
  /\ MaxTasks \in Nat /\ Horizon \in Nat

ScheduledRunAt(t) ==
  t.scheduled_at + t.interval * (IF t.type = "kLater" THEN 1 ELSE t.count_current_)

NeededToRun(t, time) == ScheduledRunAt(t) <= time

Counted(t) == IF t.type = "kLater" THEN t
              ELSE [t EXCEPT !.count_current_ = @ + 1]

\* slip: one run too many
SlipNeedDispose(t) == \/ t.type = "kLater"
                      \/ t.type = "kRepeatUntil" /\ t.count_current_ > t.count_max

NeedDispose(t) == \/ t.type = "kLater"
                  \/ t.type = "kRepeatUntil" /\ t.count_current_ >= t.count_max

\* What s may be when it is used while another thread is in it: an element is
\* lost, or one that was there is counted again.
Left(s) ==
  IF race = "no" THEN {s}
  ELSE {s, SubSeq(s, 1, Len(s) - 1)} \cup {Append(s, i) : i \in DOMAIN task}

Adding == \E a \in Adders : adding[a] # 0

\* A use of the fields begins, perhaps where another is under way; and ends.
Meets(another) == race' = IF another THEN "now" ELSE race
Leaves == race' = IF race = "now" THEN "over" ELSE race

(***************************************************************************)
(* emplace_back of the thread a.  When the vector is full its elements     *)
(* move to a new place.  A task that adds another from its function is a   *)
(* thread whose call ends before the loop goes on.                         *)
(***************************************************************************)
AddTask(a, t) ==
  /\ adding[a] = 0
  /\ task' = Append(task, t)
  /\ ran' = Append(ran, 0)
  /\ adding' = [adding EXCEPT ![a] = Len(task')]
  /\ Meets(Adding \/ at \in {"taking", "erasing"})
  /\ moved' = (moved \/ (at = "loop" /\ Len(tasks) = room))
  /\ UNCHANGED <<tasks, room, seconds, tickVars, several, aborted>>

Added(a) ==
  /\ adding[a] # 0
  /\ tasks' \in Left(Append(tasks, adding[a]))
  /\ room' = IF Len(tasks') > room THEN 2 * room + (IF room = 0 THEN 1 ELSE 0) ELSE room
  /\ adding' = [adding EXCEPT ![a] = 0]
  /\ Leaves
  /\ UNCHANGED <<task, seconds, tickVars, ran, moved, several, aborted>>

\* Two threads in the fields may take one of them out of the vector's storage.
Overrun ==
  /\ race = "now"
  /\ aborted' = TRUE
  /\ UNCHANGED <<task, adding, tasks, room, race, seconds, tickVars, ran, moved, several>>

\* The loop takes begin() and end() of the vector, one after the other.
BeginTick ==
  /\ at = "begin"
  /\ at' = "taking"
  /\ current_time' = seconds
  /\ to_remove' = <<>>
  /\ Meets(Adding)
  /\ UNCHANGED <<task, adding, tasks, room, seconds, seen, index, ran, moved, several, aborted>>

TakeEnds ==
  /\ at = "taking"
  /\ at' = "loop"
  /\ seen' \in Left(tasks)
  /\ index' = 0
  /\ Leaves
  /\ UNCHANGED <<task, adding, tasks, room, seconds, current_time, to_remove,
                 ran, moved, several, aborted>>

Skip(t) ==
  /\ ~NeededToRun(t, current_time)
  /\ UNCHANGED <<task, to_remove, ran, several, aborted>>

\* task = nullptr is called: nothing catches what it throws.
RunEmpty(t) ==
  /\ NeededToRun(t, current_time) /\ t.disposed
  /\ aborted' = TRUE
  /\ UNCHANGED <<task, to_remove, ran, several>>

Run(t) ==
  LET now == Counted(t)
      ends == NeedDispose(now)
  IN  /\ NeededToRun(t, current_time) /\ ~t.disposed
      /\ task' = [task EXCEPT ![seen[index + 1]] = [now EXCEPT !.disposed = ends]]
      /\ ran' = [ran EXCEPT ![seen[index + 1]] = @ + 1]
      /\ to_remove' = IF ends THEN Append(to_remove, index) ELSE to_remove
      /\ several' = (several \/ Len(to_remove') > 1)
      /\ UNCHANGED aborted

\* One round of the loop.
Visit ==
  /\ at = "loop" /\ index < Len(seen)
  /\ LET t == task[seen[index + 1]] IN Skip(t) \/ RunEmpty(t) \/ Run(t)
  /\ index' = index + 1
  /\ UNCHANGED <<adding, tasks, room, race, seconds, at, current_time, seen, moved>>

\* The storage of the elements may be gone and somebody else's.
VisitMoved ==
  /\ at = "loop" /\ index < Len(seen) /\ moved
  /\ aborted' = TRUE
  /\ UNCHANGED <<task, adding, tasks, room, race, seconds, tickVars, ran, moved, several>>

EndLoop ==
  /\ at = "loop" /\ index = Len(seen)
  /\ at' = "erase"
  /\ UNCHANGED <<task, adding, tasks, room, race, seconds, current_time, seen, index,
                 to_remove, ran, moved, several, aborted>>

\* slip: the index counts from one
SlipErased(i) == RemoveAt(tasks, i)

Erased(i) == RemoveAt(tasks, i + 1)

(***************************************************************************)
(* to_remove holds positions in the vector as it was before the first      *)
(* erase.  To erase past the end drops the last element, or traps.         *)
(***************************************************************************)
BeginErase ==
  /\ at = "erase" /\ to_remove # <<>>
  /\ at' = "erasing"
  /\ Meets(Adding)
  /\ UNCHANGED <<task, adding, tasks, room, seconds, current_time, seen, index,
                 to_remove, ran, moved, several, aborted>>

Erase ==
  /\ at = "erasing"
  /\ at' = "erase"
  /\ LET i == Head(to_remove)
     IN  \/ i < Len(tasks) /\ tasks' \in Left(Erased(i)) /\ UNCHANGED aborted
         \/ i >= Len(tasks) /\ tasks # <<>> /\ tasks' = Front(tasks) /\ UNCHANGED aborted
         \/ i >= Len(tasks) /\ aborted' = TRUE /\ UNCHANGED tasks
  /\ to_remove' = Tail(to_remove)
  /\ Leaves
  /\ UNCHANGED <<task, adding, room, seconds, current_time, seen, index,
                 ran, moved, several>>

\* sleep_for(1s): a second passes, or more when the thread is kept waiting.
Sleep ==
  /\ at = "erase" /\ to_remove = <<>>
  /\ at' = "begin"
  /\ \E s \in seconds + 1..seconds + 2 : seconds' = IF s < Horizon THEN s ELSE Horizon
  /\ UNCHANGED <<task, adding, tasks, room, race, current_time, seen, index, to_remove,
                 ran, moved, several, aborted>>

\* Start makes the thread; MainTask begins with Init, which starts the timer.
Start ==
  /\ at = "off"
  /\ at' = "begin"
  /\ UNCHANGED <<task, adding, tasks, room, race, seconds, current_time, seen, index, to_remove,
                 ran, moved, several, aborted>>

\* Bound: where two threads met in the vector the behaviour is followed until
\* the first of them has left it, with what it then may hold, and no further.
Followed == ~aborted /\ race # "over"

MainTask ==
  /\ Followed
  /\ \/ BeginTick \/ TakeEnds \/ Visit \/ VisitMoved \/ EndLoop
     \/ BeginErase \/ Erase \/ Sleep

EmplaceBackEnds == Followed /\ \E a \in Adders : Added(a)

SchedInit ==
  /\ task = <<>> /\ tasks = <<>> /\ room = 0 /\ ran = <<>>
  /\ adding = [a \in Adders |-> 0] /\ race = "no"
  /\ seconds = 0 /\ current_time = 0
  /\ at = "off" /\ seen = <<>> /\ index = 0 /\ to_remove = <<>>
  /\ moved = FALSE /\ several = FALSE /\ aborted = FALSE

SchedNext == \/ Start \/ MainTask \/ EmplaceBackEnds
             \/ Followed /\ Overrun
             \/ /\ Followed /\ Len(task) < MaxTasks
                /\ \E a \in Adders, t \in NewTasks : AddTask(a, t)

SchedSpec == SchedInit /\ [][SchedNext]_schedVars

\* Both are threads that are not kept from running.
SchedFairness == WF_schedVars(MainTask) /\ WF_schedVars(EmplaceBackEnds)

-----------------------------------------------------------------------------
Undisturbed == ~moved /\ ~several /\ race = "no"

Open(i) == ~task[i].disposed

BeingAdded(i) == \E a \in Adders : adding[a] = i

\* Positions in task are the order in which AddTask was called.
HoldsThoseOpen ==
  /\ ToSet(tasks) = {i \in DOMAIN task : Open(i) /\ ~BeingAdded(i)}
  /\ \A i, j \in DOMAIN tasks : i < j => tasks[i] < tasks[j]

(***************************************************************************)
(* Unless two tasks end in one tick, an AddTask moves the vector under the *)
(* loop, or an AddTask meets another, an erase or the taking of the ends   *)
(* by the loop, the thread never traps, and between the ticks the vector   *)
(* holds exactly the tasks that have not ended, in the order in which they *)
(* were added: none is lost with another that ends, none is called after   *)
(* it ended, and one added while the loop is under way waits for the next. *)
(***************************************************************************)
HoldsOpenTasks ==
  Undisturbed => ~aborted /\ (at \in {"off", "begin"} => HoldsThoseOpen)

(***************************************************************************)
(* Under the same condition every task whose counter began at zero runs as *)
(* often as it is meant to: a delayed one once, a counted one count_max    *)
(* times, one with an interval again and again, here as often as the clock *)
(* lets it.                                                                *)
(***************************************************************************)
RunsDue(i) ==
  ran[i] = CASE task[i].type = "kLater" -> 1
             [] task[i].type = "kRepeatUntil" -> task[i].count_max
             [] OTHER -> (Horizon - task[i].scheduled_at) \div task[i].interval + 1

TasksRun ==
  \A i \in 1..MaxTasks :
    (i \in DOMAIN task /\ task[i].count_current_ = 0 /\ ran[i] = 0 /\ at # "off")
      ~> [](i \in DOMAIN task /\ Undisturbed => RunsDue(i))
=============================================================================

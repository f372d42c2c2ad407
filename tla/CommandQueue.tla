---------------------------- MODULE CommandQueue ----------------------------
(***************************************************************************)
(* The command queue of PennMUSH (src/src/cque.c): the queues of players   *)
(* and of objects, the wait queue, one semaphore, @halt, and the two       *)
(* counters that are kept beside them: the QUEUE of every object, and the  *)
(* attribute of the semaphore.  One player and the things it owns queue    *)
(* commands.  Calls of cque.c nest (a refused entry halts its executor),   *)
(* so its functions are operators on the record q of all that it keeps.    *)
(*                                                                         *)
(* A due time is relative to mudtime: NoTime is wait_until 0, which sorts  *)
(* before every time, 0 an instant that has passed, n > 0 one to come.     *)
(***************************************************************************)
EXTENDS Integers, Sequences, SequencesExt, FiniteSetsExt

CONSTANTS
  Player,        \* the player
  Things,        \* what it owns
  EventHandler,  \* the thing that runs the events
  Nothing,       \* the executor of a halted entry; no entry
  MaxPid,        \* MAX_PID, the size of the process table
  Quota,         \* QUEUE_QUOTA
  MaxWait,       \* bound: the longest wait, in seconds
  MaxDrift       \* bound: how far a counter goes astray

ASSUME CommandQueueAssumption ==
  /\ MaxPid \in Nat \ {0}
  /\ Quota \in Nat
  /\ MaxWait \in Nat \ {0}
  /\ MaxDrift \in Nat
  /\ EventHandler \in Things
  /\ Player \notin Things
  /\ IsFiniteSet(Things)
  /\ Nothing \notin Things \cup {Player} \cup 1..MaxPid

VARIABLES
  ownerQueues,  \* the owner_queues option: one counter for an owner's all
  q,            \* the queues, their counters, the HALT flags; see Fresh
  cur           \* the entry do_top() is executing, or Nothing

vars == <<ownerQueues, q, cur>>

Objs == Things \cup {Player}
Pids == 1..MaxPid
NoTime == -1
Due == NoTime..MaxWait

(* An MQUE: its executor, whether its enactor is a player, when it is due, *)
(* and whether semaphore_attr is set, which it stays once it is woken.     *)
Entry == [executor : Objs \cup {Nothing}, player : BOOLEAN,
          due : Due, attr : BOOLEAN]

Queued(x, byPlayer) ==
  [executor |-> x, player |-> byPlayer, due |-> NoTime, attr |-> FALSE]

(* The queues of a process that has just started: queue_map, the player    *)
(* and the object queue, the wait and the semaphore queue, the counters.   *)
(* ub: behaviour is undefined from here on, as a queue holds an entry that *)
(* was freed, or db[-1] was taken for an object.                           *)
Fresh(halted) ==
  [map |-> <<>>, first |-> <<>>, low |-> <<>>, wait |-> <<>>, sem |-> <<>>,
   queued |-> [x \in Objs |-> 0], count |-> 0, halted |-> halted, ub |-> FALSE]

Init ==
  /\ ownerQueues \in BOOLEAN
  /\ q = Fresh({})
  /\ cur = Nothing

Among(s, S) ==
  FoldLeft(LAMBDA kept, p : IF p \in S THEN Append(kept, p) ELSE kept, <<>>, s)
Without(s, S) == Among(s, Range(s) \ S)

-----------------------------------------------------------------------------
(* The functions that the commands share.                                  *)

(* Where add_to() counts.                                                  *)
Key(x) == IF ownerQueues THEN Player ELSE x

AddTo(k, x, am) == [k EXCEPT !.queued[Key(x)] = @ + am]

(* free_qentry() of a set of entries: their pids are free again.           *)
Freed(k, S) ==
  [k EXCEPT !.map = [p \in DOMAIN k.map \ S |-> k.map[p]]]

(* GoodObject(executor) and the executor is the object, or is owned by it. *)
IsVictim(x, victim) == x \in Objs /\ (x = victim \/ victim = Player)

VictimsIn(k, s, victim) ==
  { p \in Range(s) : IsVictim(k.map[p].executor, victim) }

(* do_halt() asks for the owner of the executor of every entry that waits, *)
(* that of a halted one included.                                          *)
ReadsOwnerOfNothing(k) == \E p \in Range(k.wait) : k.map[p].executor = Nothing

(* Mutant: the entries that are halted already are counted again.          *)
RecountingHalt(k, victim, stray) ==
  LET running == { p \in Range(k.first \o k.low) :
                     k.map[p].executor \in {victim, Nothing} \/ victim = Player }
      gone == VictimsIn(k, k.wait, victim)
      waiters == VictimsIn(k, k.sem, victim)
      marked == [p \in DOMAIN k.map |->
                   IF p \in running THEN [k.map[p] EXCEPT !.executor = Nothing]
                   ELSE k.map[p]]
  IN AddTo(Freed([k EXCEPT !.map = marked,
                           !.wait = Without(@, gone),
                           !.sem = Without(@, waiters),
                           !.count = @ - Cardinality(waiters),
                           !.ub = @ \/ stray],
                 gone \cup waiters),
           victim, -Cardinality(running \cup gone \cup waiters))

(* do_halt(): entries on the run queues are only marked; those that wait   *)
(* are freed.  stray: db[-1] happened to belong to the victim.             *)
DoHalt(k, victim, stray) ==
  LET running == VictimsIn(k, k.first \o k.low, victim)
      gone == VictimsIn(k, k.wait, victim)
      waiters == VictimsIn(k, k.sem, victim)
      marked == [p \in DOMAIN k.map |->
                   IF p \in running THEN [k.map[p] EXCEPT !.executor = Nothing]
                   ELSE k.map[p]]
  IN AddTo(Freed([k EXCEPT !.map = marked,
                           !.wait = Without(@, gone),
                           !.sem = Without(@, waiters),
                           !.count = @ - Cardinality(waiters),
                           !.ub = @ \/ stray],
                 gone \cup waiters),
           victim, -Cardinality(running \cup gone \cup waiters))

SetHalted(k, x) == [k EXCEPT !.halted = @ \cup ({x} \cap Things)]

(* What the memory in front of the database can answer.                    *)
Stray(k) == {FALSE, ReadsOwnerOfNothing(k)}

(* pay_queue(): the limit, and what happens to a runaway.  Money is not    *)
(* modelled: who cannot pay the deposit changes nothing, and could as well *)
(* not have given the command, or have no STARTUP; but see WaitUnpaid.     *)
PayQueue(k, x, stray) ==
  IF k.queued[Key(x)] + 1 > Quota
    THEN [ok |-> FALSE, q |-> SetHalted(DoHalt(k, x, stray), x)]
    ELSE [ok |-> TRUE, q |-> AddTo(k, x, 1)]

(* next_pid() and its 0; which of the free pids it takes has no effect.    *)
TableFull(k) == Cardinality(DOMAIN k.map) >= MaxPid

(* Mutant: the search does not start again at 1.                           *)
UnwrappedPid(k) == Max(DOMAIN k.map \cup {0}) + 1

NextPid(k) == Min(Pids \ DOMAIN k.map)

Mapped(k, e) ==
  LET p == NextPid(k)
  IN [k EXCEPT !.map = [r \in DOMAIN k.map \cup {p} |-> IF r = p THEN e ELSE k.map[r]]]

(* The player queue for what a player caused, the object queue for others. *)
Enqueued(k, p, byPlayer) ==
  IF byPlayer THEN [k EXCEPT !.first = Append(@, p)]
  ELSE [k EXCEPT !.low = Append(@, p)]

(* Entries that leave the wait or semaphore queue for the run queues.      *)
Woken(k, s) ==
  LET caused(b) == { p \in Range(s) : k.map[p].player = b }
  IN [k EXCEPT !.map = [p \in DOMAIN k.map |->
                          IF p \in Range(s) THEN [k.map[p] EXCEPT !.due = NoTime]
                          ELSE k.map[p]],
               !.first = @ \o Among(s, caused(TRUE)),
               !.low = @ \o Among(s, caused(FALSE))]

(* new_queue_actionlist() and insert_que().                                *)
InsertQue(k, x, byPlayer, stray) ==
  LET pay == PayQueue(k, x, stray) IN
  IF x \in k.halted THEN k
  ELSE IF ~pay.ok \/ TableFull(pay.q) THEN pay.q
  ELSE Enqueued(Mapped(pay.q, Queued(x, byPlayer)), NextPid(pay.q), byPlayer)

(* A place in the wait queue: behind what is due no later.                 *)
SortedInto(k, s, p) ==
  LET i == Cardinality({ j \in DOMAIN s : k.map[s[j]].due <= k.map[p].due })
  IN InsertAt(s, i + 1, p)

(* wait_que() of an entry that is to wait.                                 *)
WaitQue(k, x, byPlayer, due, sem, stray) ==
  LET pay == PayQueue(k, x, stray)
      p == NextPid(pay.q)
      kept == Mapped(pay.q, [executor |-> x, player |-> byPlayer,
                             due |-> due, attr |-> sem])
  IN IF ~pay.ok \/ TableFull(pay.q) THEN pay.q
     ELSE IF sem THEN [kept EXCEPT !.sem = Append(@, p)]
     ELSE [kept EXCEPT !.wait = SortedInto(kept, @, p)]

-----------------------------------------------------------------------------
(* The commands.  A player or a running entry gives them at any time, one  *)
(* after the other; each is one step.                                      *)

InBounds(k) ==
  /\ k.count \in -MaxDrift..(Len(k.sem) + MaxDrift)
  /\ \A x \in Objs : k.queued[x] >= -MaxDrift

(* Once behaviour is undefined nothing in the queues means anything.       *)
Undefined == [Fresh({}) EXCEPT !.ub = TRUE]

Effect(k) ==
  /\ ~q.ub
  /\ q' = IF k.ub THEN Undefined ELSE k
  /\ InBounds(k)
  /\ UNCHANGED <<ownerQueues, cur>>

(* Any command that ends in new_queue_actionlist(): @trigger, @dolist, ... *)
Queue(x, byPlayer) ==
  \E stray \in Stray(q) : Effect(InsertQue(q, x, byPlayer, stray))

(* queue_event(): the handler's events go to the player queue.             *)
QueueEvent ==
  /\ EventHandler \notin q.halted
  /\ \E stray \in Stray(q) :
       LET pay == PayQueue(q, EventHandler, stray) IN
       Effect(IF ~pay.ok \/ TableFull(pay.q) THEN pay.q
              ELSE Enqueued(Mapped(pay.q, Queued(EventHandler, TRUE)),
                            NextPid(pay.q), TRUE))

(* do_wait() of a number; waiting for 0 seconds is Queue.                  *)
Wait(x, byPlayer, due) ==
  \E stray \in Stray(q) : Effect(WaitQue(q, x, byPlayer, due, FALSE, stray))

(* do_wait() on the semaphore.  It is counted before anything can fail.    *)
WaitSemaphore(x, byPlayer, due) ==
  \E stray \in Stray(q) :
    LET k == [q EXCEPT !.count = @ + 1] IN
    Effect(IF k.count <= 0 THEN WaitQue(k, x, byPlayer, NoTime, FALSE, stray)
           ELSE WaitQue(k, x, byPlayer, due, TRUE, stray))

(* The same, of an executor that cannot pay: the count keeps the wait.     *)
WaitUnpaid == Effect([q EXCEPT !.count = @ + 1])

(* do_wait() on the semaphore for 0 seconds: not waiting, if it is taken.  *)
WaitSemaphoreNoTime(x, byPlayer) ==
  \E stray \in Stray(q) :
    LET k == [q EXCEPT !.count = @ + 1] IN
    Effect(IF k.count <= 0 THEN WaitQue(k, x, byPlayer, NoTime, FALSE, stray)
           ELSE InsertQue([k EXCEPT !.count = @ - 1], x, byPlayer, stray))

(* Mutant: the newest waiters.                                             *)
Newest(k, n) == SubSeq(k.sem, Max({1, Len(k.sem) - n + 1}), Len(k.sem))

(* The n waiters that came first.                                          *)
Oldest(k, n) == SubSeq(k.sem, 1, Min({n, Len(k.sem)}))

(* Mutant: a waiter is taken off the count twice.                          *)
UnlinkedTwice(k, s) ==
  [k EXCEPT !.sem = Without(@, Range(s)), !.count = @ - 2 * Len(s)]

Unlinked(k, s) ==
  [k EXCEPT !.sem = Without(@, Range(s)), !.count = @ - Len(s)]

(* dequeue_semaphores() for @notify: what is left over is kept.            *)
Notify(n) ==
  LET s == Oldest(q, n) IN
  Effect([Woken(Unlinked(q, s), s) EXCEPT !.count = @ - (n - Len(s))])

(* @notify/any, and execute_one_semaphore() for @notify/setq, keep nothing.*)
NotifyWaiting(n) ==
  LET s == Oldest(q, n) IN Effect(Woken(Unlinked(q, s), s))

NotifyAll == Effect(Woken(Unlinked(q, q.sem), q.sem))

Drained(k, s) ==
  [Freed(Unlinked(k, s), Range(s)) EXCEPT !.queued = [x \in Objs |->
     k.queued[x] - Cardinality({ p \in Range(s) : Key(k.map[p].executor) = x })]]

(* @drain of a number, and of all, which clears the attribute.             *)
Drain(n) == Effect(Drained(q, Oldest(q, n)))
DrainAll == Effect([Drained(q, q.sem) EXCEPT !.count = 0])

(* do_halt1() without and with a command to queue instead; do_allhalt() is *)
(* the former for every player.                                            *)
Halt(x) ==
  \E stray \in Stray(q) : Effect(SetHalted(DoHalt(q, x, stray), x))

HaltCommand(x) ==
  \E stray \in Stray(q) :
    Effect(InsertQue(DoHalt(q, x, stray), x, x = Player, stray))

(* do_restart_com(): the STARTUP of those that have one.                   *)
Restart(x) ==
  \E stray \in Stray(q), started \in SUBSET { o \in Objs : IsVictim(o, x) } :
    Effect(FoldSet(LAMBDA o, k : InsertQue(k, o, o = Player, stray),
                   DoHalt(q, x, stray), started))

(* do_haltpid().  semaphore_attr is still set after the wait: an entry     *)
(* that was woken is freed where it stands, in a run queue or executing.   *)
HaltPid(p) ==
  /\ p \in DOMAIN q.map
  /\ LET k == [q EXCEPT !.map[p].executor = Nothing] IN
     Effect(IF ~q.map[p].attr THEN k
            ELSE IF p \in Range(q.sem) THEN Freed(Unlinked(k, <<p>>), {p})
            ELSE [k EXCEPT !.ub = TRUE])

(* Mutant: the wait queue keeps its order.                                 *)
WaitPidInPlace(p, due) ==
  /\ p \in Range(q.wait)
  /\ Effect([q EXCEPT !.map[p].due = due])

(* Mutant: the entry is put in again before it is taken out.               *)
WaitPidRelinked(p, due) ==
  LET k == [q EXCEPT !.map[p].due = due] IN
  /\ p \in Range(q.wait)
  /\ Effect([k EXCEPT !.wait = SortedInto(k, @, p)])

(* do_waitpid(): refused for an indefinite semaphore, and without effect   *)
(* on what no longer waits.  Due times at or below 0 become wait_until 0,  *)
(* which makes a semaphore indefinite.                                     *)
WaitPid(p, due) ==
  LET k == [q EXCEPT !.map[p].due = due] IN
  \/ /\ p \in Range(q.wait)
     /\ Effect([k EXCEPT !.wait = SortedInto(k, Without(@, {p}), p)])
  \/ /\ p \in Range(q.sem)
     /\ q.map[p].due # NoTime
     /\ Effect(k)

(* @set of the HALT flag, in flags.c: nothing that is queued changes.      *)
SetHaltFlag(x) == Effect([q EXCEPT !.halted = (@ \ {x}) \cup ({x} \ @)])

(* The process ends: shutdown_queues() frees every entry, and neither the  *)
(* QUEUE counters nor semaphores are in the database that is loaded next.  *)
Reboot ==
  /\ q' = Fresh(q.halted)
  /\ cur' = Nothing
  /\ UNCHANGED ownerQueues

(* Bound: a @wait/until a time that has passed is one with wait_until 0.   *)
(* Bound: what a player executes, it or another player enacted.            *)
EnactedBy(x) == IF x = Player THEN {TRUE} ELSE BOOLEAN

Command ==
  \/ \E x \in Objs : \E byPlayer \in EnactedBy(x) :
       \/ Queue(x, byPlayer)
       \/ WaitSemaphoreNoTime(x, byPlayer)
       \/ \E due \in Due \ {0} : Wait(x, byPlayer, due)
       \/ \E due \in Due : WaitSemaphore(x, byPlayer, due)
  \/ QueueEvent
  \/ WaitUnpaid
  \/ \E n \in 1..2 : Notify(n) \/ NotifyWaiting(n) \/ Drain(n)
  \/ NotifyAll
  \/ DrainAll
  \/ \E x \in Objs : Halt(x) \/ HaltCommand(x) \/ Restart(x)
  \/ \E x \in Things : SetHaltFlag(x)
  \/ \E p \in Pids : HaltPid(p)
  \/ \E p \in Pids, due \in Due : WaitPid(p, due)
  \/ Reboot

-----------------------------------------------------------------------------
(* The main loop.                                                          *)

Elapsed(k, n) ==
  [k EXCEPT !.map = [p \in DOMAIN k.map |->
     IF k.map[p].due <= 0 THEN k.map[p]
     ELSE [k.map[p] EXCEPT !.due = Max({0, k.map[p].due - n})]]]

(* Mutant: the object queue stays where it is.                             *)
ObjectsLeft(k) == k

(* do_second(): the object queue behind the player queue.                  *)
ObjectsMoved(k) == [k EXCEPT !.first = @ \o k.low, !.low = <<>>]

(* do_second(): the head of the wait queue for as long as it is due.       *)
WaitsOver(k) ==
  LET early == SelectInSeq(k.wait, LAMBDA p : k.map[p].due > 0)
      n == IF early = 0 THEN Len(k.wait) ELSE early - 1
  IN Woken([k EXCEPT !.wait = SubSeq(@, n + 1, Len(@))],
              SubSeq(k.wait, 1, n))

(* do_second(): every semaphore wait that timed out.                       *)
TimedOut(k) ==
  LET s == Among(k.sem, { p \in Range(k.sem) : k.map[p].due = 0 })
  IN Woken(Unlinked(k, s), s)

DoSecond(k) == TimedOut(WaitsOver(ObjectsMoved(k)))

(* on_every_second(), n seconds after the last time.                       *)
OnEverySecond(n) ==
  /\ ~q.ub
  /\ cur = Nothing
  /\ q' = DoSecond(Elapsed(q, n))
  /\ UNCHANGED <<ownerQueues, cur>>

(* do_top() takes the head of the player queue.  do_entry() returns at     *)
(* once when it was halted; when its executor is, it pays back first.      *)
DoTop ==
  /\ ~q.ub
  /\ cur = Nothing
  /\ q.first # <<>>
  /\ LET p == Head(q.first)
         x == q.map[p].executor
         k == [q EXCEPT !.first = Tail(@)]
     IN IF x = Nothing
          THEN q' = Freed(k, {p}) /\ UNCHANGED cur
        ELSE IF x \in q.halted
          THEN q' = Freed(AddTo(k, x, -1), {p}) /\ UNCHANGED cur
        ELSE q' = AddTo(k, x, -1) /\ cur' = p
  /\ UNCHANGED ownerQueues

(* The last command of the action list has run.                            *)
EndEntry ==
  /\ ~q.ub
  /\ cur # Nothing
  /\ q' = Freed(q, {cur})
  /\ cur' = Nothing
  /\ UNCHANGED ownerQueues

Second == \E n \in 1..MaxWait : OnEverySecond(n)

Next == Command \/ Second \/ DoTop \/ EndEntry

(* SF_vars(Second), with its ENABLED written out for TLC.                  *)
SecondDue ==
  /\ ~q.ub
  /\ cur = Nothing
  /\ \E n \in 1..MaxWait : DoSecond(Elapsed(q, n)) # q

SecondFair == <>[]~SecondDue \/ []<><<Second>>_vars

(* shovechars() comes round again and again: it calls do_top(), lets the   *)
(* command in progress end, and runs the timers between two iterations.    *)
Spec ==
  /\ Init
  /\ [][Next]_vars
  /\ SecondFair
  /\ WF_vars(DoTop)
  /\ WF_vars(EndEntry)

-----------------------------------------------------------------------------
(* The type invariant.                                                     *)
TypeOK ==
  /\ ownerQueues \in BOOLEAN
  /\ DOMAIN q.map \subseteq Pids
  /\ q.map \in [DOMAIN q.map -> Entry]
  /\ \A s \in {q.first, q.low, q.wait, q.sem} : Range(s) \subseteq Pids
  /\ q.queued \in [Objs -> Int]
  /\ q.count \in Int
  /\ q.halted \subseteq Things
  /\ cur \in Pids \cup {Nothing}
  /\ q.ub \in BOOLEAN

Linked == q.first \o q.low \o q.wait \o q.sem

(* Every entry of queue_map is in exactly one queue, or executing, and the *)
(* queues hold nothing that was freed: pids found by @halt/pid and         *)
(* @wait/pid are good, and none is given out twice.                        *)
EntriesAccounted ==
  ~q.ub => /\ IsInjective(Linked)
         /\ cur \notin Range(Linked)
         /\ DOMAIN q.map = Range(Linked) \cup ({cur} \ {Nothing})

(* As long as anything waits on the semaphore, its attribute counts it: a  *)
(* @wait never runs at once, ahead of those that wait already, however     *)
(* notifies, drains, timeouts, halts and refused waits follow each other.  *)
WaitersCounted == ~q.ub /\ q.sem # <<>> => q.count >= Len(q.sem)

LiveOf(S) == { p \in Range(Linked) : q.map[p].executor \in S }

(* The limit: the QUEUE counter never falls behind the live entries that   *)
(* it counts nor grows past QUEUE_QUOTA, so that no one has more commands  *)
(* queued.  When objects count for themselves, @halt of the player takes   *)
(* its things' commands off the player's counter, and only the things'     *)
(* counters and their sum are good for that.                               *)
QuotaSound ==
  /\ \A x \in Objs : q.queued[x] <= Quota
  /\ ~q.ub => Cardinality(LiveOf(Objs)) <=
              SumFunction(q.queued)
  /\ ~q.ub /\ ~ownerQueues =>
       \A x \in Things : Cardinality(LiveOf({x})) <= q.queued[x]

(* do_second() looks no further than the first entry that is not due: no   *)
(* @wait and no @wait/pid, in whatever order, leaves a later entry in      *)
(* front of an earlier one.                                                *)
WaitSorted ==
  \A i \in DOMAIN q.wait : \A j \in DOMAIN q.wait :
    i < j => q.map[q.wait[i]].due <= q.map[q.wait[j]].due

(* "The actions occur in the order they were added" (penntop.hlp:1667):    *)
(* when an entry that waits without a timeout is woken, so is all that     *)
(* waited before it, and they are queued in that order.                    *)
InSemaphoreOrder ==
  [][Len(q'.sem) < Len(q.sem) /\ ~q'.ub =>
       LET woken == { p \in Range(q.sem) : /\ p \in Range(q'.first \o q'.low)
                                           /\ q.map[p].due = NoTime
                                           /\ q'.map[p].attr }
           caused(b) == { p \in woken : q.map[p].player = b }
       IN /\ \A i, j \in DOMAIN q.sem :
               i < j /\ q.sem[j] \in woken => q.sem[i] \notin Range(q'.sem)
          /\ Among(q'.first, caused(TRUE)) = Among(q.sem, caused(TRUE))
          /\ Among(q'.low, caused(FALSE)) = Among(q.sem, caused(FALSE))]_vars

Runnable(p) == p \in Range(q.first \o q.low)
Waiting(p) ==
  p \in Range(q.wait) \/ (p \in Range(q.sem) /\ q.map[p].due # NoTime)

(* No starvation: what is on a run queue leaves it, the objects' commands  *)
(* too, however many more are queued; and a wait for a time ends, on the   *)
(* semaphore too, unless @wait/pid puts it off again and again.            *)
EntriesMoveOn ==
  \A p \in Pids :
    /\ []<>(q.ub \/ ~Runnable(p))
    /\ []<>(q.ub \/ ~Waiting(p)) \/ []<>(Waiting(p) /\ q.map[p].due > 0)
=============================================================================

--------------------------- MODULE WarehouseOutbox ---------------------------
(***************************************************************************)
(* The queue of commands a storeman's device keeps in localStorage, and    *)
(* the loop that drains it to the server, oldest first, one at a time.     *)
(*                                                                         *)
(* The loop stops at an empty queue, at a refusal, which freezes the queue *)
(* until a person retries or discards the command, and at a failure, after *)
(* which something has to start it again: a new command, a press on the     *)
(* banner, the browser saying that the network is back, or a restart of     *)
(* the app.  There is no timer.                                             *)
(***************************************************************************)
EXTENDS IdempotentServer, Collections

VARIABLES
    queue,      \* the stored queue: commands with or without a refusal
    given,      \* the commands given so far, in order
    discarded,  \* the commands a person gave up on
    waiting,    \* the copy the loop waits to hear about, or NoSlot
    draining,   \* the loop is running (drainingRef)
    online      \* what the browser says (navigator.onLine)

deviceVars == <<queue, given, discarded, waiting, draining, online>>
vars == <<goods, keys, applied, attempts, queue, given, discarded, waiting, draining, online>>

NoSlot == "no slot"

ASSUME SlotAssumption == NoSlot \notin Slots

Entry == [command : Commands, refused : BOOLEAN]

Init ==
    /\ ServerInit
    /\ queue = <<>>
    /\ given = <<>>
    /\ discarded = {}
    /\ waiting = NoSlot
    /\ draining = FALSE
    /\ online = TRUE

-----------------------------------------------------------------------------
Queued == {queue[i].command : i \in 1..Len(queue)}

\* A queue that passes over what was refused, as the till's does.
NextUnrefused == Kept(queue, {e \in Entry : ~e.refused})

\* A refused command at the head freezes everything behind it.
NextPending == IF queue = <<>> \/ Head(queue).refused THEN <<>> ELSE <<Head(queue)>>

IsBlocked == queue # <<>> /\ Head(queue).refused

Without(c) == Kept(queue, {e \in Entry : e.command # c})

WithRefusal(c, refused) ==
    [i \in 1..Len(queue) |->
        IF queue[i].command = c THEN [queue[i] EXCEPT !.refused = refused] ELSE queue[i]]

\* The storeman gives a command: it is stored first, then the loop is started.
GiveCommand(c) ==
    /\ c \notin Fn!Range(given)
    /\ queue' = Append(queue, [command |-> c, refused |-> FALSE])
    /\ given' = Append(given, c)
    /\ draining' = TRUE
    /\ UNCHANGED <<goods, keys, applied, attempts, discarded, waiting, online>>

\* One turn of the loop: the next command goes out, or the loop ends.
SendNext(s) ==
    /\ draining /\ waiting = NoSlot
    /\ NextPending # <<>>
    /\ \E c \in Commands : c = NextPending[1].command /\ Sends(s, c)
    /\ waiting' = s
    /\ UNCHANGED <<queue, given, discarded, draining, online>>

LoopEnds ==
    /\ draining /\ waiting = NoSlot
    /\ NextPending = <<>>
    /\ draining' = FALSE
    /\ UNCHANGED <<goods, keys, applied, attempts, queue, given, discarded, waiting, online>>

Hears(s, answer) ==
    /\ waiting = s
    /\ Takes(s, answer)
    /\ waiting' = NoSlot
    /\ UNCHANGED <<given, discarded, online>>

\* An acknowledged command that is not taken out of storage.
HearsOkOnly(s) ==
    /\ Hears(s, "ok")
    /\ UNCHANGED <<queue, draining>>

\* Sent and acknowledged: the command leaves the queue and the loop goes on.
HearsOk(s) ==
    /\ Hears(s, "ok")
    /\ queue' = Without(attempts[s].command)
    /\ UNCHANGED draining

\* Refused: the loop ends in front of the command, which keeps the reason.
HearsRefusal(s) ==
    /\ Hears(s, "refused")
    /\ queue' = WithRefusal(attempts[s].command, TRUE)
    /\ draining' = FALSE

\* No answer, a 5xx, a session or a tariff that has ended: the command stays.
HearsNothing(s) ==
    /\ waiting = s
    /\ GivesUp(s)
    /\ waiting' = NoSlot
    /\ draining' = FALSE
    /\ UNCHANGED <<queue, given, discarded, online>>

-----------------------------------------------------------------------------
(* What starts the loop again. *)

GoesOffline ==
    /\ online
    /\ online' = FALSE
    /\ UNCHANGED <<goods, keys, applied, attempts, queue, given, discarded, waiting, draining>>

GoesOnline ==
    /\ ~online
    /\ online' = TRUE
    /\ draining' = TRUE
    /\ UNCHANGED <<goods, keys, applied, attempts, queue, given, discarded, waiting>>

\* A queue that lives in memory.
RestartForgetting ==
    /\ waiting' = NoSlot
    /\ IF waiting = NoSlot THEN UNCHANGED serverVars ELSE GivesUp(waiting)
    /\ draining' = FALSE
    /\ queue' = <<>>
    /\ UNCHANGED <<given, discarded, online>>

\* The app is closed and opened, or the storeman signs in anew: what is in
\* localStorage stays, whoever waited waits no more.
Restart ==
    /\ waiting' = NoSlot
    /\ IF waiting = NoSlot THEN UNCHANGED serverVars ELSE GivesUp(waiting)
    /\ draining' = online
    /\ UNCHANGED <<queue, given, discarded, online>>

\* The banner offers both for the refused command at the head.
Retry ==
    /\ IsBlocked
    /\ queue' = WithRefusal(Head(queue).command, FALSE)
    /\ draining' = TRUE
    /\ UNCHANGED <<goods, keys, applied, attempts, given, discarded, waiting, online>>

Discard ==
    /\ IsBlocked
    /\ queue' = Without(Head(queue).command)
    /\ discarded' = discarded \cup {Head(queue).command}
    /\ draining' = TRUE
    /\ UNCHANGED <<goods, keys, applied, attempts, given, waiting, online>>

-----------------------------------------------------------------------------
Server ==
    /\ \/ \E s \in Slots : ServerStep(s)
       \/ OthersTrade
    /\ UNCHANGED deviceVars

Device ==
    \/ \E c \in Commands : GiveCommand(c)
    \/ LoopEnds
    \/ \E s \in Slots : SendNext(s) \/ HearsOk(s) \/ HearsRefusal(s) \/ HearsNothing(s)
    \/ GoesOffline \/ GoesOnline \/ Restart \/ Retry \/ Discard

Next == Server \/ Device

Spec == Init /\ [][Next]_vars

\* The device runs its loop and the server finishes what it has begun.  Nobody
\* has to give commands, press buttons or move in and out of coverage.
Fairness ==
    /\ WF_vars(LoopEnds \/ \E s \in Slots : SendNext(s) \/ HearsOk(s) \/ HearsRefusal(s))
    /\ \A s \in Slots : WF_vars(ServerStep(s) /\ UNCHANGED deviceVars)

FairSpec == Spec /\ Fairness

-----------------------------------------------------------------------------
TypeOK ==
    /\ ServerTypeOK
    /\ queue \in Seq(Entry)
    /\ given \in Seq(Commands)
    /\ discarded \subseteq Commands
    /\ waiting \in Slots \cup {NoSlot}
    /\ draining \in BOOLEAN
    /\ online \in BOOLEAN

\* A command that left the queue was carried out by the server, or a person
\* discarded it: no failure, restart or lost answer loses one (markSent,
\* saveOutbox).
NoneLost == \A c \in Fn!Range(given) \ discarded : c \in Queued \cup Fn!Range(applied)

\* Goods are not put on a shelf they were not received onto: of two commands
\* that were carried out, the one given first was carried out first, unless it
\* had been discarded.
Before(c, d, seq) == \E i, j \in 1..Len(seq) : i < j /\ seq[i] = c /\ seq[j] = d

OrderKept ==
    \A c \in Fn!Range(given) \ discarded, d \in Fn!Range(given) :
        Before(c, d, given) /\ d \in Fn!Range(applied) => Before(c, d, applied)

\* While a refused command stands at the head, nothing behind it is carried
\* out: neither by the loop, nor by a restart, nor by the network coming back.
RefusalFreezes ==
    [][\A c \in Queued :
          IsBlocked /\ c # Head(queue).command
          => (c \in Fn!Range(applied) <=> c \in Fn!Range(applied'))]_vars

\* The queue implements an ordered, at-most-once list of commands.
Book == INSTANCE CommandsInOrder WITH
    todo <- Kept(given, Commands \ (discarded \cup Fn!Range(applied))),
    dropped <- discarded \ Fn!Range(applied),
    done <- applied

KeepsTheBook == Book!Spec

\* An answer is lost, or the app is closed, maybe on a command on its way.
Breaks == Restart \/ \E s \in Slots : HearsNothing(s)

CarriedOutOrShown == \A c \in Commands : c \in Queued ~> (c \notin Queued \/ IsBlocked)

\* Once the connection holds, and provided that the loop is started from time
\* to time, every command leaves the queue, or the queue stands at a refusal
\* that the banner shows to a person (drain).
Settles == <>[][~Breaks]_vars /\ []<>draining => CarriedOutOrShown

-----------------------------------------------------------------------------
(* What comments and documents say, and the code does not keep. *)

\* A command that the server refused was not carried out: a retry finds both
\* the key and the work, or neither.
\* (The code does not keep this: README.)
RefusedIsNotApplied ==
    \A i \in 1..Len(queue) : queue[i].refused => queue[i].command \notin Fn!Range(applied)

\* Commands that are written to the device go out by themselves, once the
\* connection holds and the browser says so.
\* (The code does not keep this: README.)
GoesByItself == <>[][~Breaks]_vars /\ <>[]online => CarriedOutOrShown
=============================================================================

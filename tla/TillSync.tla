------------------------------- MODULE TillSync -------------------------------
(***************************************************************************)
(* A till that works without a network, and what it tells the server when  *)
(* there is one: the shift it opened, the sales it rang up, the shifts it   *)
(* closed.                                                                  *)
(*                                                                         *)
(* Everything is written to localStorage first.  Routines then send it, and *)
(* several of them run at once: opening a shift sends that shift, closing   *)
(* one sends the closes that are due, and the sales loop, of which there is *)
(* only one, does both and sends the sales after them.  Between a call and  *)
(* its answer a routine keeps what it read before.                          *)
(***************************************************************************)
EXTENDS Naturals, Sequences, FiniteSets, Collections

CONSTANTS
    Shifts, Sales,  \* identifiers the till makes up
    Staff,          \* who can sign in at the till
    Managers,       \* those who may close a shift that is not theirs
    Asides,         \* bound: routines that run beside the sales loop
    MaxLate         \* bound: calls on the wire that nobody waits for

ASSUME TillAssumption ==
    /\ Managers \subseteq Staff
    /\ IsFiniteSet(Staff) /\ Staff # {}
    /\ "none" \notin Shifts \cup Sales \cup Staff
    /\ MaxLate \in Nat
    /\ "loop" \notin Asides

VARIABLES
    shift,      \* the shift in localStorage
    history,    \* the closed shifts in localStorage, oldest first
    rung,       \* the sales in localStorage, in the order they were rung up
    sales,      \* what the till knows of each sale
    user,       \* who is signed in at the till
    opened,     \* the shifts that were opened so far
    routines,   \* where each routine stands
    late,       \* calls whose routine does not wait any more
    remote,     \* the server's shifts
    filed       \* the server's sales: the shift each is filed under

storage == <<shift, history, rung, sales>>
server == <<remote, filed>>
vars == <<shift, history, rung, sales, user, opened, routines, late, remote, filed>>

None == "none"
Loop == "loop"
Routines == Asides \cup {Loop}
Nobody == "nobody"      \* a sale in no shift's reconciliation

NoShift == [id |-> None, synced |-> FALSE]
Closed == [id : Shifts, synced : BOOLEAN, close : {"due", "refused", "synced"}]
Kinds == {"create", "createClosed", "close", "sale"}
Call == [at : Kinds, id : Shifts \cup Sales, user : Staff]

\* closes, sending: what is left of the snapshots the routine goes through.
\* flushes, sells: whether it goes on to the closes and to the sales.
Routine ==
    [at : Kinds \cup {"idle"}, id : Shifts \cup Sales \cup {None}, user : Staff \cup {None},
     answer : {None, "ok", "conflict", "forbidden", "refused"},
     closes : Seq(Closed), sending : Seq(Sales), flushes : BOOLEAN, sells : BOOLEAN]

Idle ==
    [at |-> "idle", id |-> None, user |-> None, answer |-> None,
     closes |-> <<>>, sending |-> <<>>, flushes |-> FALSE, sells |-> FALSE]

Init ==
    /\ shift = NoShift
    /\ history = <<>>
    /\ rung = <<>>
    /\ sales = [s \in Sales |-> [shift |-> None, state |-> None]]
    /\ user \in Staff
    /\ opened = {}
    /\ routines = [r \in Routines |-> Idle]
    /\ late = {}
    /\ remote = [s \in Shifts |-> [owner |-> None, open |-> FALSE]]
    /\ filed = [s \in Sales |-> None]

-----------------------------------------------------------------------------
(* What a routine does next, from what the step leaves in storage. *)

Calls(r, at, id) == [r EXCEPT !.at = at, !.id = id, !.answer = None]

\* The first sale of the snapshot that did not get through meanwhile.
NextSale(r) ==
    LET left == Kept(r.sending, {s \in Sales : sales'[s].state # "synced"})
    IN IF left = <<>> THEN Idle
       ELSE [Calls(r, "sale", Head(left)) EXCEPT !.sending = Tail(left)]

PendingSales == Kept(rung', {s \in Sales : sales'[s].state = "pending"})

\* The closes are through, or given up for now.
AfterCloses(r) ==
    IF r.sells THEN NextSale([r EXCEPT !.closes = <<>>, !.sending = PendingSales])
    ELSE Idle

\* A close that trusts the opening to have got through.
FirstCallClose(c) == "close"

\* A shift the server never heard of has to be opened there before it is closed.
FirstCall(c) == IF c.synced THEN "close" ELSE "createClosed"

NextClose(r) ==
    IF r.closes = <<>> THEN AfterCloses(r)
    ELSE Calls(r, FirstCall(Head(r.closes)), Head(r.closes).id)

DueCloses == Kept(history', {c \in Closed : c.close = "due"})

FlushCloses(r) ==
    IF r.flushes THEN NextClose([r EXCEPT !.closes = DueCloses]) ELSE Idle

\* A till that does not ask whether it has a shift.
EnsureAnyShift(r) == IF ~shift'.synced THEN Calls(r, "create", shift'.id) ELSE FlushCloses(r)

\* The current shift first, then the closes, then the sales.
EnsureShift(r) ==
    IF shift' # NoShift /\ ~shift'.synced THEN Calls(r, "create", shift'.id) ELSE FlushCloses(r)

Starts(r, flushes) ==
    /\ routines[r].at = "idle"
    /\ routines' = [routines EXCEPT ![r] =
          EnsureShift([Idle EXCEPT !.user = user, !.flushes = flushes, !.sells = (r = Loop)])]

\* One sales loop at a time (syncingRef).
StartsSync == Starts(Loop, TRUE) \/ (routines[Loop].at # "idle" /\ UNCHANGED routines)

-----------------------------------------------------------------------------
(* What people do at the till. *)

OpenShift(r, id) ==
    /\ shift = NoShift
    /\ id \notin opened
    /\ shift' = [id |-> id, synced |-> FALSE]
    /\ opened' = opened \cup {id}
    /\ UNCHANGED <<history, rung, sales, user, late, server>>
    /\ Starts(r, FALSE)

CompleteSale(s) ==
    /\ shift # NoShift
    /\ sales[s].state = None
    /\ rung' = Append(rung, s)
    /\ sales' = [sales EXCEPT ![s] = [shift |-> shift.id, state |-> "pending"]]
    /\ UNCHANGED <<shift, history, user, opened, late, server>>
    /\ StartsSync

\* Closed here in any case; the server is told now or later.
CloseShift(r) ==
    /\ shift # NoShift
    /\ history' = Append(history, [id |-> shift.id, synced |-> shift.synced, close |-> "due"])
    /\ shift' = NoShift
    /\ UNCHANGED <<rung, sales, user, opened, late, server>>
    /\ Starts(r, TRUE)

\* The browser says that the network is back, or the app starts with one.
BackOnline ==
    /\ UNCHANGED <<storage, user, opened, late, server>>
    /\ Starts(Loop, TRUE)

\* A till without a timer.
NoTimer == FALSE

\* Every twenty seconds while sales are pending.
Timer ==
    /\ \E s \in Sales : sales[s].state = "pending"
    /\ BackOnline

RetrySale(s) ==
    /\ sales[s].state = "refused"
    /\ sales' = [sales EXCEPT ![s].state = "pending"]
    /\ UNCHANGED <<shift, history, rung, user, opened, late, server>>
    /\ StartsSync

MarkClose(id, state) ==
    history' = [i \in 1..Len(history) |->
                   IF history[i].id = id THEN [history[i] EXCEPT !.close = state] ELSE history[i]]

RetryClose(r, id) ==
    /\ \E i \in 1..Len(history) : history[i].id = id /\ history[i].close = "refused"
    /\ MarkClose(id, "due")
    /\ UNCHANGED <<shift, rung, sales, user, opened, late, server>>
    /\ routines[r].at = "idle"
    /\ routines' = [routines EXCEPT ![r] = FlushCloses([Idle EXCEPT !.user = user, !.flushes = TRUE])]

\* The till changes hands; what was on its way goes on under the old sign-in.
HandOver(r, u) ==
    /\ u # user
    /\ user' = u
    /\ UNCHANGED <<storage, opened, late, server>>
    /\ Starts(r, TRUE)
-----------------------------------------------------------------------------
(* What the server does with a call, and what it answers. *)

\* A shift that is opened anew by whoever sends it again.
CreatesAgain(c) ==
    remote' = [remote EXCEPT ![c.id] = [owner |-> c.user, open |-> TRUE]]

\* A second attempt finds the first shift.
CreatesOnce(c) ==
    remote' = IF remote[c.id].owner # None THEN remote
              ELSE [remote EXCEPT ![c.id] = [owner |-> c.user, open |-> TRUE]]

\* POST /shifts, refused where the location is not the company's any more.
HandleCreate(c, answer) ==
    /\ c.at \in {"create", "createClosed"}
    /\ \/ answer = "ok" /\ CreatesOnce(c)
       \/ answer = "refused" /\ UNCHANGED remote
    /\ UNCHANGED filed

\* PATCH /shifts/:id/close: final, and only by its cashier or a manager.
CloseAnswer(c) ==
    CASE remote[c.id].owner = None -> "refused"
      [] remote[c.id].owner # None /\ c.user \notin Managers \cup {remote[c.id].owner} -> "forbidden"
      [] OTHER -> IF remote[c.id].open THEN "ok" ELSE "conflict"

HandleClose(c, answer) ==
    /\ c.at = "close"
    /\ answer = CloseAnswer(c)
    /\ remote' = IF answer = "ok" THEN [remote EXCEPT ![c.id].open = FALSE] ELSE remote
    /\ UNCHANGED filed

\* POST /sales: filed under the shift it names if the server knows it, open or
\* closed, and otherwise under nobody's.
HandleSale(c, answer) ==
    /\ c.at = "sale"
    /\ answer \in {"ok", "refused"}
    /\ LET named == sales[c.id].shift
           under == IF named # None /\ remote[named].owner # None THEN named ELSE Nobody
       IN filed' = IF answer = "ok" /\ filed[c.id] = None THEN [filed EXCEPT ![c.id] = under] ELSE filed
    /\ UNCHANGED remote

Handle(c, answer) == HandleCreate(c, answer) \/ HandleClose(c, answer) \/ HandleSale(c, answer)

CallOf(r) == [at |-> routines[r].at, id |-> routines[r].id, user |-> routines[r].user]

Waits(r) == routines[r].at # "idle" /\ routines[r].answer = None

Answer(r) ==
    /\ Waits(r)
    /\ \E answer \in {"ok", "conflict", "forbidden", "refused"} :
          /\ Handle(CallOf(r), answer)
          /\ routines' = [routines EXCEPT ![r].answer = answer]
    /\ UNCHANGED <<storage, user, opened, late>>

ArrivesLate(c) ==
    /\ late' = late \ {c}
    /\ \/ \E answer \in {"ok", "conflict", "forbidden", "refused"} : Handle(c, answer)
       \/ UNCHANGED server
    /\ UNCHANGED <<storage, user, opened, routines>>

\* The app is closed and opened again: storage stays, routines are gone.
Restart ==
    /\ routines' = [r \in Routines |-> Idle]
    /\ late' \in {late} \cup {late \cup {CallOf(r)} : r \in {q \in Routines : Waits(q)}}
    /\ Cardinality(late') <= MaxLate
    /\ UNCHANGED <<storage, user, opened, server>>

\* A manager closes a forgotten shift from elsewhere.
OtherCloses(id) ==
    /\ remote[id].open
    /\ remote' = [remote EXCEPT ![id].open = FALSE]
    /\ UNCHANGED <<storage, user, opened, routines, late, filed>>
-----------------------------------------------------------------------------
(* What a routine does with an answer, or with "lost" when there is none. *)

Continues(r, next) == routines' = [routines EXCEPT ![r] = next]

\* syncShift writes back the shift as it was when the call went out, and
\* swallows a failure.
HearsCreate(r, answer) ==
    /\ routines[r].at = "create"
    /\ shift' = IF answer = "ok" THEN [id |-> routines[r].id, synced |-> TRUE] ELSE shift
    /\ UNCHANGED <<history, rung, sales>>
    /\ Continues(r, FlushCloses(routines[r]))

HearsCreateClosed(r, answer) ==
    /\ routines[r].at = "createClosed" /\ answer = "ok"
    /\ UNCHANGED storage
    /\ Continues(r, Calls(routines[r], "close", routines[r].id))

\* A close that is done once the server has said anything about it.
ClosedAfterAnything(answer) == IF answer = "lost" THEN "due" ELSE "synced"

\* 409 means that the close had got through; a 401 or 403 is not about this
\* close, like no answer at all.
ClosedAfter(answer) ==
    CASE answer \in {"ok", "conflict"} -> "synced"
      [] answer = "refused" -> "refused"
      [] OTHER -> "due"

HearsClose(r, answer) ==
    LET state == ClosedAfter(answer)
        rest == [routines[r] EXCEPT !.closes = Tail(@)]
    IN /\ routines[r].at = "close" \/ (routines[r].at = "createClosed" /\ answer # "ok")
       /\ IF state = "due" THEN UNCHANGED history ELSE MarkClose(routines[r].id, state)
       /\ UNCHANGED <<shift, rung, sales>>
       /\ Continues(r, IF state = "due" THEN AfterCloses(rest) ELSE NextClose(rest))

\* A refused sale keeps its reason and lets the next one pass; a failure ends
\* the loop.
HearsSale(r, answer) ==
    /\ routines[r].at = "sale"
    /\ sales' = CASE answer = "ok" -> [sales EXCEPT ![routines[r].id].state = "synced"]
                  [] answer = "refused" -> [sales EXCEPT ![routines[r].id].state = "refused"]
                  [] OTHER -> sales
    /\ UNCHANGED <<shift, history, rung>>
    /\ Continues(r, IF answer = "lost" THEN Idle ELSE NextSale(routines[r]))

Reacts(r, answer) ==
    /\ HearsCreate(r, answer) \/ HearsCreateClosed(r, answer) \/ HearsClose(r, answer) \/ HearsSale(r, answer)
    /\ UNCHANGED <<user, opened, server>>

HearsAnswer(r) ==
    /\ routines[r].answer # None
    /\ Reacts(r, routines[r].answer)
    /\ UNCHANGED late

\* No answer comes, a 5xx, or a session or a tariff that has ended.  The call
\* was carried out, did not arrive, or is still on its way.
Loses(r) ==
    /\ Reacts(r, "lost")
    /\ \/ UNCHANGED late
       \/ /\ Waits(r) /\ Cardinality(late) < MaxLate
          /\ late' = late \cup {CallOf(r)}

-----------------------------------------------------------------------------
People ==
    \/ \E r \in Asides :
          \/ \E id \in Shifts : OpenShift(r, id) \/ RetryClose(r, id)
          \/ \E u \in Staff : HandOver(r, u)
          \/ CloseShift(r)
    \/ \E s \in Sales : CompleteSale(s) \/ RetrySale(s)

Next ==
    \/ People
    \/ BackOnline
    \/ Timer
    \/ Restart
    \/ \E r \in Routines : Answer(r) \/ HearsAnswer(r) \/ Loses(r)
    \/ \E c \in late : ArrivesLate(c)
    \/ \E id \in Shifts : OtherCloses(id)

Spec == Init /\ [][Next]_vars

\* The till's timer runs and answers that have come are dealt with; a call that
\* is waited for is answered or lost.
Fairness ==
    /\ WF_vars(Timer)
    /\ \A r \in Routines : WF_vars(Answer(r)) /\ WF_vars(HearsAnswer(r))

FairSpec == Spec /\ Fairness
-----------------------------------------------------------------------------
TypeOK ==
    /\ shift \in [id : Shifts, synced : BOOLEAN] \cup {NoShift}
    /\ history \in Seq(Closed)
    /\ rung \in Seq(Sales)
    /\ sales \in [Sales -> [shift : Shifts \cup {None},
                            state : {None, "pending", "refused", "synced"}]]
    /\ user \in Staff
    /\ opened \subseteq Shifts
    /\ routines \in [Routines -> Routine]
    /\ \A r \in Routines : routines[r].at = "idle" <=> routines[r].id = None
    /\ late \subseteq Call
    /\ remote \in [Shifts -> [owner : Staff \cup {None}, open : BOOLEAN]]
    /\ filed \in [Sales -> Shifts \cup {None, Nobody}]

\* What the till believes the server has, it has: a sale shown as sent is
\* filed, a shift marked as sent exists, a close marked as sent was made, and
\* the server never has to hear of a close before the opening.
TillKnowsTheServer ==
    /\ \A s \in Sales : sales[s].state = "synced" => filed[s] # None
    /\ \A s \in Shifts : shift = [id |-> s, synced |-> TRUE] => remote[s].owner # None
    /\ \A i \in 1..Len(history) :
          /\ history[i].synced => remote[history[i].id].owner # None
          /\ history[i].close = "synced" =>
                remote[history[i].id].owner # None /\ ~remote[history[i].id].open

CloseFindsItsShift ==
    \A r \in Routines : routines[r].at = "close" => remote[routines[r].id].owner # None

\* A closed shift is final: it is not opened again, nor does it get another
\* owner, whatever is sent twice or late.
ClosedIsFinal ==
    [][\A s \in Shifts :
          remote[s].owner # None =>
             /\ remote'[s].owner = remote[s].owner
             /\ ~remote[s].open => ~remote'[s].open]_vars

\* One bad sale does not hold up the others: once the connection holds, every
\* sale that waits for it is filed or stands among the refused, by itself.
Breaks == Restart \/ \E r \in Routines : Loses(r)

SalesGoOut ==
    <>[][~Breaks]_vars =>
        \A s \in Sales : sales[s].state = "pending" ~> sales[s].state # "pending"
-----------------------------------------------------------------------------
(* What comments and tests say, and the code does not keep. *)

\* A close that the server does not accept from this person is shown to a
\* person and not tried for ever.
\* (The code does not keep this: README.)
ForbiddenIsShown ==
    [][\A r \in Routines :
          HearsAnswer(r) /\ routines[r].at = "close" /\ routines[r].answer = "forbidden"
          => \E i \in 1..Len(history') :
                history'[i].id = routines[r].id /\ history'[i].close = "refused"]_vars

\* The shift that was opened and not closed is the one the till works in.
\* (The code does not keep this: README.)
CurrentShiftKept ==
    opened \ {history[i].id : i \in 1..Len(history)} = {shift.id} \ {None}
=============================================================================

---------------------------- MODULE TillSyncProofs ----------------------------
(***************************************************************************)
(* What the till takes for sent is on the server, and what is closed there *)
(* stays closed: for any number of shifts, sales, people, routines at work  *)
(* at once and calls still on the wire.                                     *)
(*                                                                         *)
(* The argument has two halves.  The server never takes anything back, so   *)
(* what an answer said stays true while it travels; and a routine marks a   *)
(* thing as sent only for an answer to the call about that very thing.      *)
(* For this the content of the snapshots does not matter.  For the types,   *)
(* and for the close that never precedes its opening, it does: the second   *)
(* invariant says of each snapshot what storage said when it was taken.     *)
(***************************************************************************)
EXTENDS TillSync, CollectionsProofs

-----------------------------------------------------------------------------
(* Routines and the answers they hold. *)

WellFormed(n) ==
    n \in [at : {n.at}, id : {n.id}, user : {n.user}, answer : {n.answer},
           closes : {n.closes}, sending : {n.sending}, flushes : {n.flushes}, sells : {n.sells}]

\* What an answer tells of the server's shifts and sales.
Told(at, id, answer, shifts, book) ==
    /\ at = "create" /\ answer = "ok" /\ id \in Shifts => shifts[id].owner # None
    /\ at = "close" /\ answer \in {"ok", "conflict"} /\ id \in Shifts =>
          shifts[id].owner # None /\ ~shifts[id].open
    /\ at = "createClosed" => answer # "conflict"
    /\ at = "sale" /\ answer = "ok" /\ id \in Sales => book[id] # None

Signed(n) ==
    /\ WellFormed(n)
    /\ n.at # "idle" => n.user \in Staff
    /\ n.at = "create" => n.id \in Shifts

Sound(n, shifts, book) == Signed(n) /\ Told(n.at, n.id, n.answer, shifts, book)

Fresh(n) == Signed(n) /\ n.answer = None

\* A later state of the server's shifts and sales.
Later(shifts, book, shifts2, book2) ==
    /\ \A s \in Shifts :
          shifts[s].owner # None =>
             /\ shifts2[s].owner = shifts[s].owner
             /\ ~shifts[s].open => ~shifts2[s].open
    /\ \A s \in Sales : book[s] # None => book2[s] # None

ServerShifts == [Shifts -> [owner : Staff \cup {None}, open : BOOLEAN]]
ServerSales == [Sales -> Shifts \cup {None, Nobody}]

LEMMA FreshIsSound ==
    ASSUME NEW n, Fresh(n), NEW shifts, NEW book
    PROVE  Sound(n, shifts, book)
  BY DEF Fresh, Sound, Told, None

LEMMA SoundStays ==
    ASSUME NEW n, NEW shifts, NEW book, NEW shifts2, NEW book2,
           Sound(n, shifts, book), Later(shifts, book, shifts2, book2)
    PROVE  Sound(n, shifts2, book2)
  BY DEF Sound, Told, Later

LEMMA IdleFresh == Fresh(Idle)
  BY DEF Fresh, Signed, WellFormed, Idle, None

LEMMA CallsFresh ==
    ASSUME NEW n, WellFormed(n), n.user \in Staff, NEW at \in {"sale", "close", "createClosed"}, NEW id
    PROVE  Fresh(Calls(n, at, id))
  BY DEF Fresh, Signed, WellFormed, Calls

LEMMA NextSaleFresh ==
    ASSUME NEW n, WellFormed(n), n.user \in Staff
    PROVE  Fresh(NextSale(n))
  <1> DEFINE left == Kept(n.sending, {s \in Sales : sales'[s].state # "synced"})
             m == Calls(n, "sale", Head(left))
  <1>1. Fresh(m) /\ m.at = "sale"
    BY CallsFresh DEF Calls, WellFormed
  <1>2. NextSale(n) = IF left = <<>> THEN Idle ELSE [m EXCEPT !.sending = Tail(left)]
    BY DEF NextSale
  <1> HIDE DEF left, m
  <1>3. Fresh([m EXCEPT !.sending = Tail(left)])
    BY <1>1 DEF Fresh, Signed, WellFormed
  <1> QED
    BY <1>2, <1>3, IdleFresh

LEMMA AfterClosesFresh ==
    ASSUME NEW n, WellFormed(n), n.user \in Staff
    PROVE  Fresh(AfterCloses(n))
  <1> DEFINE m == [n EXCEPT !.closes = <<>>, !.sending = PendingSales]
  <1>1. WellFormed(m) /\ m.user \in Staff
    BY DEF WellFormed
  <1>2. AfterCloses(n) = IF n.sells THEN NextSale(m) ELSE Idle
    BY DEF AfterCloses
  <1> QED
    BY <1>1, <1>2, NextSaleFresh, IdleFresh

LEMMA NextCloseFresh ==
    ASSUME NEW n, WellFormed(n), n.user \in Staff
    PROVE  Fresh(NextClose(n))
  <1>1. FirstCall(Head(n.closes)) \in {"sale", "close", "createClosed"}
    BY DEF FirstCall
  <1> QED
    BY <1>1, AfterClosesFresh, CallsFresh DEF NextClose

LEMMA FlushClosesFresh ==
    ASSUME NEW n, WellFormed(n), n.user \in Staff
    PROVE  Fresh(FlushCloses(n))
  <1> DEFINE m == [n EXCEPT !.closes = DueCloses]
  <1>1. WellFormed(m) /\ m.user \in Staff
    BY DEF WellFormed
  <1>2. FlushCloses(n) = IF n.flushes THEN NextClose(m) ELSE Idle
    BY DEF FlushCloses
  <1> QED
    BY <1>1, <1>2, NextCloseFresh, IdleFresh

LEMMA EnsureShiftFresh ==
    ASSUME NEW n, WellFormed(n), n.user \in Staff,
           shift' \in [id : Shifts, synced : BOOLEAN] \cup {NoShift}
    PROVE  Fresh(EnsureShift(n))
  <1>1. CASE shift' # NoShift /\ ~shift'.synced
    <2>1. shift'.id \in Shifts
      BY <1>1
    <2>2. Fresh(Calls(n, "create", shift'.id))
      BY <2>1 DEF Fresh, Signed, WellFormed, Calls
    <2> QED
      BY <1>1, <2>2 DEF EnsureShift
  <1>2. CASE ~(shift' # NoShift /\ ~shift'.synced)
    BY <1>2, FlushClosesFresh DEF EnsureShift
  <1> QED
    BY <1>1, <1>2

-----------------------------------------------------------------------------
(* The server. *)

\* A handler takes nothing back, and its answer is true when it is given.
LEMMA HandleIsTrue ==
    ASSUME remote \in ServerShifts, filed \in ServerSales,
           sales \in [Sales -> [shift : Shifts \cup {None}, state : {None, "pending", "refused", "synced"}]],
           NEW c, c.user \in Staff, NEW answer, Handle(c, answer)
    PROVE  /\ remote' \in ServerShifts /\ filed' \in ServerSales
           /\ Later(remote, filed, remote', filed')
           /\ Told(c.at, c.id, answer, remote', filed')
  <1>0. None \notin Shifts \cup Sales \cup Staff
    BY TillAssumption DEF None
  <1>1. CASE HandleCreate(c, answer)
    <2>1. CASE answer = "ok" /\ CreatesOnce(c)
      BY <1>0, <1>1, <2>1 DEF HandleCreate, CreatesOnce, ServerShifts, Later, Told
    <2>2. CASE answer = "refused" /\ UNCHANGED remote
      BY <1>1, <2>2 DEF HandleCreate, Later, Told
    <2> QED
      BY <1>1, <2>1, <2>2 DEF HandleCreate
  <1>2. CASE HandleClose(c, answer)
    BY ZenonT(60), <1>2 DEF HandleClose, CloseAnswer, ServerShifts, Later, Told
  <1>3. CASE HandleSale(c, answer)
    <2> DEFINE named == sales[c.id].shift
               under == IF named # None /\ remote[named].owner # None THEN named ELSE Nobody
    <2>1. c.id \in Sales => under \in Shifts \cup {Nobody} /\ under # None
      BY <1>0 DEF Nobody, None
    <2>2. /\ c.at = "sale" /\ answer \in {"ok", "refused"}
          /\ filed' = IF answer = "ok" /\ filed[c.id] = None THEN [filed EXCEPT ![c.id] = under] ELSE filed
          /\ remote' = remote
      BY <1>3 DEF HandleSale
    <2> HIDE DEF under
    <2> QED
      BY <2>1, <2>2 DEF ServerSales, Later, Told
  <1> QED
    BY <1>1, <1>2, <1>3 DEF Handle

-----------------------------------------------------------------------------
(* The invariant. *)

Types ==
    /\ shift \in [id : Shifts, synced : BOOLEAN] \cup {NoShift}
    /\ history \in Seq(Closed)
    /\ sales \in [Sales -> [shift : Shifts \cup {None}, state : {None, "pending", "refused", "synced"}]]
    /\ user \in Staff
    /\ remote \in ServerShifts
    /\ filed \in ServerSales

Work ==
    /\ routines = [r \in Routines |-> routines[r]]
    /\ \A r \in Routines : Sound(routines[r], remote, filed)
    /\ \A c \in late : c.user \in Staff

KnowledgeInv == Types /\ Work /\ TillKnowsTheServer

LEMMA InitKnows == Init => KnowledgeInv
  <1> SUFFICES ASSUME Init
               PROVE  KnowledgeInv
    OBVIOUS
  <1>1. Types
    BY DEF Init, Types, ServerShifts, ServerSales
  <1>2. Work
    BY IdleFresh, FreshIsSound DEF Init, Work
  <1>3. TillKnowsTheServer
    <2>1. \A id : NoShift # [id |-> id, synced |-> TRUE]
      BY DEF NoShift
    <2>2. \A s \in Sales : sales[s].state # "synced"
      BY DEF Init, None
    <2>3. history = <<>> /\ shift = NoShift
      BY DEF Init
    <2> QED
      BY <2>1, <2>2, <2>3 DEF TillKnowsTheServer
  <1> QED
    BY <1>1, <1>2, <1>3 DEF KnowledgeInv

\* One routine takes a step, or none, while the server stays or moves on.
LEMMA WorkStays ==
    ASSUME Work, Later(remote, filed, remote', filed'),
           \A c \in late' : c.user \in Staff,
           NEW r \in Routines, NEW n, Sound(n, remote', filed'),
           routines' = [routines EXCEPT ![r] = n] \/ UNCHANGED routines
    PROVE  Work'
  <1>1. \A q \in Routines : Sound(routines[q], remote', filed')
    BY SoundStays DEF Work
  <1>2. CASE UNCHANGED routines
    BY <1>1, <1>2 DEF Work
  <1>3. CASE routines' = [routines EXCEPT ![r] = n]
    <2>1. routines' = [q \in Routines |-> IF q = r THEN n ELSE routines[q]]
      BY <1>3 DEF Work
    <2>2. \A q \in Routines : routines'[q] = IF q = r THEN n ELSE routines[q]
      BY <2>1
    <2>3. \A q \in Routines : Sound(routines'[q], remote', filed')
      BY <1>1, <2>2
    <2>4. routines' = [q \in Routines |-> routines'[q]]
      BY <2>1
    <2> QED
      BY <2>3, <2>4 DEF Work
  <1> QED
    BY <1>2, <1>3

\* What storage says stays true when only the server moves on.
LEMMA KnowledgeStays ==
    ASSUME Types, TillKnowsTheServer, UNCHANGED storage, Later(remote, filed, remote', filed')
    PROVE  TillKnowsTheServer'
  <1>1. \A i \in 1..Len(history) : history[i].id \in Shifts
    <2>1. \A i \in 1..Len(history) : history[i] \in Closed
      BY DEF Types
    <2> QED
      BY <2>1 DEF Closed
  <1> QED
    BY <1>1 DEF TillKnowsTheServer, Later, storage

LEMMA SameIsLater == Later(remote, filed, remote, filed)
  BY DEF Later

-----------------------------------------------------------------------------
(* What people do. *)

LEMMA StartsWork ==
    ASSUME Work, Types, Types', UNCHANGED <<late, server>>, NEW r \in Routines, NEW flushes,
           Starts(r, flushes)
    PROVE  Work'
  <1> DEFINE m == [Idle EXCEPT !.user = user, !.flushes = flushes, !.sells = (r = Loop)]
  <1>1. WellFormed(m) /\ m.user \in Staff
    BY DEF WellFormed, Idle, Types
  <1>2. Sound(EnsureShift(m), remote', filed')
    BY <1>1, EnsureShiftFresh, FreshIsSound DEF Types
  <1>3. routines' = [routines EXCEPT ![r] = EnsureShift(m)]
    BY DEF Starts
  <1>4. Later(remote, filed, remote', filed')
    BY SameIsLater DEF server
  <1> HIDE DEF m
  <1> QED
    BY <1>2, <1>3, <1>4, WorkStays DEF Work

LEMMA StartsSyncWork ==
    ASSUME Work, Types, Types', UNCHANGED <<late, server>>, StartsSync
    PROVE  Work'
  <1>1. Loop \in Routines
    BY DEF Routines
  <1>2. CASE Starts(Loop, TRUE)
    BY <1>1, <1>2, StartsWork
  <1>3. CASE UNCHANGED routines
    BY <1>3 DEF Work, server
  <1> QED
    BY <1>2, <1>3 DEF StartsSync

LEMMA OpenKeeps ==
    ASSUME KnowledgeInv, NEW r \in Routines, NEW id \in Shifts, OpenShift(r, id)
    PROVE  KnowledgeInv'
  <1>1. Types'
    BY DEF KnowledgeInv, Types, OpenShift, server, ServerShifts, ServerSales
  <1>2. Work'
    BY <1>1, StartsWork DEF KnowledgeInv, OpenShift
  <1>3. TillKnowsTheServer'
    BY DEF KnowledgeInv, TillKnowsTheServer, OpenShift, server
  <1> QED
    BY <1>1, <1>2, <1>3 DEF KnowledgeInv

LEMMA CompleteSaleKeeps ==
    ASSUME KnowledgeInv, NEW s \in Sales, CompleteSale(s)
    PROVE  KnowledgeInv'
  <1>1. sales' = [sales EXCEPT ![s] = [shift |-> shift.id, state |-> "pending"]]
    BY DEF CompleteSale
  <1>2. Types'
    <2>1. shift.id \in Shifts
      BY DEF KnowledgeInv, Types, CompleteSale
    <2> QED
      BY <1>1, <2>1 DEF KnowledgeInv, Types, CompleteSale, server
  <1>3. Work'
    BY <1>2, StartsSyncWork DEF KnowledgeInv, CompleteSale
  <1>4. TillKnowsTheServer'
    BY <1>1 DEF KnowledgeInv, Types, TillKnowsTheServer, CompleteSale, server
  <1> QED
    BY <1>2, <1>3, <1>4 DEF KnowledgeInv

LEMMA RetrySaleKeeps ==
    ASSUME KnowledgeInv, NEW s \in Sales, RetrySale(s)
    PROVE  KnowledgeInv'
  <1>1. sales' = [sales EXCEPT ![s].state = "pending"]
    BY DEF RetrySale
  <1>2. Types'
    BY <1>1 DEF KnowledgeInv, Types, RetrySale, server
  <1>3. Work'
    BY <1>2, StartsSyncWork DEF KnowledgeInv, RetrySale
  <1>4. TillKnowsTheServer'
    BY <1>1 DEF KnowledgeInv, Types, TillKnowsTheServer, RetrySale, server
  <1> QED
    BY <1>2, <1>3, <1>4 DEF KnowledgeInv

\* A shift that was marked as sent is closed as a shift that was sent.
LEMMA CloseShiftKeeps ==
    ASSUME KnowledgeInv, NEW r \in Routines, CloseShift(r)
    PROVE  KnowledgeInv'
  <1> DEFINE closed == [id |-> shift.id, synced |-> shift.synced, close |-> "due"]
  <1>1. shift \in [id : Shifts, synced : BOOLEAN]
    BY DEF KnowledgeInv, Types, CloseShift
  <1>2. closed \in Closed /\ closed.id = shift.id /\ closed.synced = shift.synced /\ closed.close = "due"
    BY <1>1 DEF Closed
  <1>3. history' = Append(history, closed) /\ history \in Seq(Closed)
    BY DEF KnowledgeInv, Types, CloseShift
  <1>4. shift.synced => remote[shift.id].owner # None
    <2>1. shift.synced => shift = [id |-> shift.id, synced |-> TRUE]
      BY <1>1
    <2> QED
      BY <1>1, <2>1 DEF KnowledgeInv, TillKnowsTheServer
  <1> HIDE DEF closed
  <1>5. Types'
    BY <1>2, <1>3 DEF KnowledgeInv, Types, CloseShift, server
  <1>6. Work'
    BY <1>5, StartsWork DEF KnowledgeInv, CloseShift
  <1>7. TillKnowsTheServer'
    <2>1. /\ \A s \in Sales : sales'[s].state = "synced" => filed'[s] # None
          /\ shift' = NoShift /\ remote' = remote
      BY DEF KnowledgeInv, TillKnowsTheServer, CloseShift, server
    <2>2. \A id : NoShift # [id |-> id, synced |-> TRUE]
      BY DEF NoShift
    <2>3. \A i \in 1..Len(history') :
             \/ i \in 1..Len(history) /\ history'[i] = history[i]
             \/ history'[i] = closed
      BY <1>2, <1>3
    <2> QED
      BY <1>2, <1>4, <2>1, <2>2, <2>3 DEF KnowledgeInv, TillKnowsTheServer
  <1> QED
    BY <1>5, <1>6, <1>7 DEF KnowledgeInv

LEMMA MarkType ==
    ASSUME history \in Seq(Closed), NEW id, NEW state \in {"due", "refused", "synced"}, MarkClose(id, state)
    PROVE  /\ history' \in Seq(Closed)
           /\ Len(history') = Len(history)
           /\ \A i \in 1..Len(history) :
                 /\ history'[i].id = history[i].id
                 /\ history'[i].synced = history[i].synced
                 /\ history'[i].close = IF history[i].id = id THEN state ELSE history[i].close
  <1>1. \A i \in 1..Len(history) : history[i] \in Closed
    OBVIOUS
  <1>2. history' = [i \in 1..Len(history) |->
                      IF history[i].id = id THEN [history[i] EXCEPT !.close = state] ELSE history[i]]
    BY DEF MarkClose
  <1>3. \A i \in 1..Len(history) :
           /\ history'[i] \in Closed
           /\ history'[i].id = history[i].id
           /\ history'[i].synced = history[i].synced
           /\ history'[i].close = IF history[i].id = id THEN state ELSE history[i].close
    BY <1>1, <1>2 DEF Closed
  <1>4. Len(history) \in Nat /\ DOMAIN history' = 1..Len(history)
    BY <1>2
  <1>5. history' \in Seq(Closed) /\ Len(history') = Len(history)
    BY <1>2, <1>3, <1>4
  <1> QED
    BY <1>3, <1>5

LEMMA RetryCloseKeeps ==
    ASSUME KnowledgeInv, NEW r \in Routines, NEW id \in Shifts, RetryClose(r, id)
    PROVE  KnowledgeInv'
  <1> DEFINE m == [Idle EXCEPT !.user = user, !.flushes = TRUE]
  <1>1. MarkClose(id, "due")
    BY DEF RetryClose
  <1>2. Types'
    BY <1>1, MarkType DEF KnowledgeInv, Types, RetryClose, server
  <1>3. Work'
    <2>1. WellFormed(m) /\ m.user \in Staff
      BY DEF WellFormed, Idle, KnowledgeInv, Types
    <2>2. Sound(FlushCloses(m), remote', filed')
      BY <2>1, FlushClosesFresh, FreshIsSound
    <2>3. routines' = [routines EXCEPT ![r] = FlushCloses(m)] /\ UNCHANGED <<late, remote, filed>>
      BY DEF RetryClose, server
    <2> HIDE DEF m
    <2> QED
      BY <2>2, <2>3, SameIsLater, WorkStays DEF KnowledgeInv, Work
  <1>4. TillKnowsTheServer'
    BY <1>1, MarkType DEF KnowledgeInv, Types, TillKnowsTheServer, RetryClose, server
  <1> QED
    BY <1>2, <1>3, <1>4 DEF KnowledgeInv

\* The network comes back, the timer runs, the till changes hands.
LEMMA StartKeeps ==
    ASSUME KnowledgeInv, NEW r \in Routines, Starts(r, TRUE),
           UNCHANGED <<storage, late, server>>, user' \in Staff
    PROVE  KnowledgeInv'
  <1>1. Types'
    BY DEF KnowledgeInv, Types, storage, server
  <1>2. Work'
    BY <1>1, StartsWork DEF KnowledgeInv
  <1>3. TillKnowsTheServer'
    BY SameIsLater, KnowledgeStays DEF KnowledgeInv, server
  <1> QED
    BY <1>1, <1>2, <1>3 DEF KnowledgeInv

-----------------------------------------------------------------------------
(* Answers, and what a routine does with them. *)

LEMMA AnswerKeeps ==
    ASSUME KnowledgeInv, NEW r \in Routines, Answer(r)
    PROVE  KnowledgeInv'
  <1>1. PICK answer \in {"ok", "conflict", "forbidden", "refused"} :
           /\ Handle(CallOf(r), answer)
           /\ routines' = [routines EXCEPT ![r].answer = answer]
    BY DEF Answer
  <1> DEFINE n == [routines[r] EXCEPT !.answer = answer]
             c == CallOf(r)
  <1>2. Sound(routines[r], remote, filed)
    BY DEF KnowledgeInv, Work
  <1>3. /\ c.at = routines[r].at /\ c.id = routines[r].id
        /\ c.user \in Staff
    BY <1>2 DEF CallOf, Answer, Waits, Sound, Signed
  <1>4. /\ remote' \in ServerShifts /\ filed' \in ServerSales
        /\ Later(remote, filed, remote', filed')
        /\ Told(c.at, c.id, answer, remote', filed')
    BY <1>1, <1>3, HandleIsTrue DEF KnowledgeInv, Types
  <1>5. /\ Signed(n)
        /\ n.at = routines[r].at /\ n.id = routines[r].id /\ n.answer = answer
    BY <1>2 DEF Sound, Signed, WellFormed
  <1>6. Sound(n, remote', filed')
    BY <1>3, <1>4, <1>5 DEF Sound
  <1>7. routines' = [routines EXCEPT ![r] = n]
    BY <1>1
  <1> HIDE DEF n, c
  <1>8. Types'
    BY <1>4 DEF KnowledgeInv, Types, Answer, storage
  <1>9. Work'
    BY <1>4, <1>6, <1>7, WorkStays DEF KnowledgeInv, Work, Answer
  <1>10. TillKnowsTheServer'
    BY <1>4, KnowledgeStays DEF KnowledgeInv, Answer
  <1> QED
    BY <1>8, <1>9, <1>10 DEF KnowledgeInv

\* Nothing but the server moves on.
LEMMA ServerKeeps ==
    ASSUME KnowledgeInv, UNCHANGED <<storage, user, routines>>, late' \subseteq late,
           remote' \in ServerShifts, filed' \in ServerSales, Later(remote, filed, remote', filed')
    PROVE  KnowledgeInv'
  <1>1. Types'
    BY DEF KnowledgeInv, Types, storage
  <1>2. Work'
    BY SoundStays DEF KnowledgeInv, Work
  <1>3. TillKnowsTheServer'
    BY KnowledgeStays DEF KnowledgeInv
  <1> QED
    BY <1>1, <1>2, <1>3 DEF KnowledgeInv

LEMMA ArrivesLateKeeps ==
    ASSUME KnowledgeInv, NEW c \in late, ArrivesLate(c)
    PROVE  KnowledgeInv'
  <1>1. c.user \in Staff
    BY DEF KnowledgeInv, Work
  <1>2. /\ remote' \in ServerShifts /\ filed' \in ServerSales
        /\ Later(remote, filed, remote', filed')
    <2>1. CASE UNCHANGED server
      BY <2>1, SameIsLater DEF server, KnowledgeInv, Types
    <2>2. CASE \E answer \in {"ok", "conflict", "forbidden", "refused"} : Handle(c, answer)
      BY <1>1, <2>2, HandleIsTrue DEF KnowledgeInv, Types
    <2> QED
      BY <2>1, <2>2 DEF ArrivesLate
  <1> QED
    BY <1>2, ServerKeeps DEF ArrivesLate

LEMMA OtherClosesKeeps ==
    ASSUME KnowledgeInv, NEW id \in Shifts, OtherCloses(id)
    PROVE  KnowledgeInv'
  <1>1. remote' \in ServerShifts /\ Later(remote, filed, remote', filed')
    BY DEF KnowledgeInv, Types, OtherCloses, ServerShifts, Later
  <1> QED
    BY <1>1, ServerKeeps DEF OtherCloses, KnowledgeInv, Types

LEMMA RestartKeeps ==
    ASSUME KnowledgeInv, Restart
    PROVE  KnowledgeInv'
  <1>1. \A r \in Routines : Waits(r) => CallOf(r).user \in Staff
    BY DEF KnowledgeInv, Work, Sound, Signed, Waits, CallOf
  <1>2. \A c \in late' : c.user \in Staff
    BY <1>1 DEF KnowledgeInv, Work, Restart
  <1>3. Work'
    BY <1>2, IdleFresh, FreshIsSound DEF Restart, Work
  <1>4. Types'
    BY DEF KnowledgeInv, Types, Restart, storage, server
  <1>5. TillKnowsTheServer'
    BY SameIsLater, KnowledgeStays DEF KnowledgeInv, Restart, server
  <1> QED
    BY <1>3, <1>4, <1>5 DEF KnowledgeInv

\* Of one routine that goes on with what an answer let it do.
LEMMA ContinuesWork ==
    ASSUME Work, NEW r \in Routines, NEW n, Fresh(n), Continues(r, n), UNCHANGED server,
           \A c \in late' : c.user \in Staff
    PROVE  Work'
  <1>1. Sound(n, remote', filed')
    BY FreshIsSound
  <1>2. Later(remote, filed, remote', filed')
    BY SameIsLater DEF server
  <1> QED
    BY <1>1, <1>2, WorkStays DEF Continues

\* A thing is marked as sent for a true answer to the call about it.
LEMMA HearsCreateKnows ==
    ASSUME KnowledgeInv, NEW r \in Routines, NEW answer, HearsCreate(r, answer),
           UNCHANGED <<user, server>>, answer \in {routines[r].answer, "lost"}
    PROVE  Types' /\ TillKnowsTheServer' /\ \E n : Fresh(n) /\ Continues(r, n)
  <1>1. Sound(routines[r], remote, filed) /\ routines[r].at = "create"
    BY DEF KnowledgeInv, Work, HearsCreate
  <1>2. /\ routines[r].id \in Shifts /\ WellFormed(routines[r]) /\ routines[r].user \in Staff
        /\ answer = "ok" => remote[routines[r].id].owner # None
    BY <1>1 DEF Sound, Signed, Told
  <1>3. shift' = IF answer = "ok" THEN [id |-> routines[r].id, synced |-> TRUE] ELSE shift
    BY DEF HearsCreate
  <1>4. Types'
    BY <1>2, <1>3 DEF KnowledgeInv, Types, HearsCreate, server
  <1>5. TillKnowsTheServer'
    BY <1>2, <1>3 DEF KnowledgeInv, TillKnowsTheServer, HearsCreate, server
  <1>6. Fresh(FlushCloses(routines[r])) /\ Continues(r, FlushCloses(routines[r]))
    BY <1>2, FlushClosesFresh DEF HearsCreate
  <1> QED
    BY <1>4, <1>5, <1>6

LEMMA HearsCreateClosedKnows ==
    ASSUME KnowledgeInv, NEW r \in Routines, NEW answer, HearsCreateClosed(r, answer),
           UNCHANGED <<user, server>>
    PROVE  Types' /\ TillKnowsTheServer' /\ \E n : Fresh(n) /\ Continues(r, n)
  <1>1. WellFormed(routines[r]) /\ routines[r].user \in Staff
    BY DEF KnowledgeInv, Work, HearsCreateClosed, Sound, Signed
  <1>2. Types'
    BY DEF KnowledgeInv, Types, HearsCreateClosed, storage, server
  <1>3. TillKnowsTheServer'
    BY SameIsLater, KnowledgeStays DEF KnowledgeInv, HearsCreateClosed, server
  <1>4. /\ Fresh(Calls(routines[r], "close", routines[r].id))
        /\ Continues(r, Calls(routines[r], "close", routines[r].id))
    BY <1>1, CallsFresh DEF HearsCreateClosed
  <1> QED
    BY <1>2, <1>3, <1>4

LEMMA HearsCloseKnows ==
    ASSUME KnowledgeInv, NEW r \in Routines, NEW answer, HearsClose(r, answer),
           UNCHANGED <<user, server>>, answer \in {routines[r].answer, "lost"}
    PROVE  Types' /\ TillKnowsTheServer' /\ \E n : Fresh(n) /\ Continues(r, n)
  <1> DEFINE state == ClosedAfter(answer)
             rest == [routines[r] EXCEPT !.closes = Tail(@)]
             next == IF state = "due" THEN AfterCloses(rest) ELSE NextClose(rest)
             id == routines[r].id
  <1>1. Sound(routines[r], remote, filed) /\ routines[r].at \in {"close", "createClosed"}
    BY DEF KnowledgeInv, Work, HearsClose
  <1>2. /\ WellFormed(routines[r]) /\ routines[r].user \in Staff
        /\ state = "synced" /\ id \in Shifts => remote[id].owner # None /\ ~remote[id].open
    BY <1>1 DEF Sound, Signed, Told, HearsClose, ClosedAfter
  <1>3. state \in {"due", "refused", "synced"}
    BY DEF ClosedAfter
  <1>4. Continues(r, next) /\ (IF state = "due" THEN UNCHANGED history ELSE MarkClose(id, state))
        /\ UNCHANGED <<shift, rung, sales>>
    BY DEF HearsClose
  <1>5. Fresh(next)
    <2>1. WellFormed(rest) /\ rest.user \in Staff
      BY <1>2 DEF WellFormed
    <2> QED
      BY <2>1, AfterClosesFresh, NextCloseFresh
  <1> HIDE DEF state, next, rest
  <1>6. CASE state = "due"
    <2>1. UNCHANGED storage
      BY <1>4, <1>6 DEF storage
    <2>2. Types' /\ TillKnowsTheServer'
      BY <2>1, SameIsLater, KnowledgeStays DEF KnowledgeInv, Types, storage, server
    <2> QED
      BY <1>4, <1>5, <2>2
  <1>7. CASE state # "due"
    <2>1. history \in Seq(Closed) /\ MarkClose(id, state)
      BY <1>4, <1>7 DEF KnowledgeInv, Types
    <2>2. /\ history' \in Seq(Closed)
          /\ Len(history') = Len(history)
          /\ \A i \in 1..Len(history) :
                /\ history'[i].id = history[i].id
                /\ history'[i].synced = history[i].synced
                /\ history'[i].close = IF history[i].id = id THEN state ELSE history[i].close
      BY <1>3, <2>1, MarkType
    <2>3. Types'
      BY <1>4, <2>2 DEF KnowledgeInv, Types, server
    <2>4. \A i \in 1..Len(history) : history[i].id \in Shifts
      <3>1. \A i \in 1..Len(history) : history[i] \in Closed
        BY <2>1
      <3> QED
        BY <3>1 DEF Closed
    <2>5. TillKnowsTheServer'
      BY <1>2, <1>4, <2>2, <2>4 DEF KnowledgeInv, TillKnowsTheServer, server
    <2> QED
      BY <1>4, <1>5, <2>3, <2>5
  <1> QED
    BY <1>6, <1>7

LEMMA HearsSaleKnows ==
    ASSUME KnowledgeInv, NEW r \in Routines, NEW answer, HearsSale(r, answer),
           UNCHANGED <<user, server>>, answer \in {routines[r].answer, "lost"}
    PROVE  Types' /\ TillKnowsTheServer' /\ \E n : Fresh(n) /\ Continues(r, n)
  <1> DEFINE id == routines[r].id
             next == IF answer = "lost" THEN Idle ELSE NextSale(routines[r])
  <1>1. Sound(routines[r], remote, filed) /\ routines[r].at = "sale"
    BY DEF KnowledgeInv, Work, HearsSale
  <1>2. /\ WellFormed(routines[r]) /\ routines[r].user \in Staff
        /\ answer = "ok" /\ id \in Sales => filed[id] # None
    BY <1>1 DEF Sound, Signed, Told
  <1>3. /\ sales' = CASE answer = "ok" -> [sales EXCEPT ![id].state = "synced"]
                      [] answer = "refused" -> [sales EXCEPT ![id].state = "refused"]
                      [] OTHER -> sales
        /\ UNCHANGED <<shift, history, rung>> /\ Continues(r, next)
    BY DEF HearsSale
  <1>4. Fresh(next)
    BY <1>2, NextSaleFresh, IdleFresh
  <1> HIDE DEF next
  <1>5. Types'
    BY ZenonT(60), <1>3 DEF KnowledgeInv, Types, server
  <1>6. TillKnowsTheServer'
    BY <1>2, <1>3 DEF KnowledgeInv, Types, TillKnowsTheServer, server
  <1> QED
    BY <1>3, <1>4, <1>5, <1>6

LEMMA ReactsKeeps ==
    ASSUME KnowledgeInv, NEW r \in Routines, NEW answer, Reacts(r, answer),
           answer \in {routines[r].answer, "lost"}, \A c \in late' : c.user \in Staff
    PROVE  KnowledgeInv'
  <1>1. Types' /\ TillKnowsTheServer' /\ \E n : Fresh(n) /\ Continues(r, n)
    BY HearsCreateKnows, HearsCreateClosedKnows, HearsCloseKnows, HearsSaleKnows DEF Reacts
  <1>2. Work'
    BY <1>1, ContinuesWork DEF Reacts, KnowledgeInv
  <1> QED
    BY <1>1, <1>2 DEF KnowledgeInv
-----------------------------------------------------------------------------
LEMMA StepKnows == KnowledgeInv /\ [Next]_vars => KnowledgeInv'
  <1> SUFFICES ASSUME KnowledgeInv, [Next]_vars
               PROVE  KnowledgeInv'
    OBVIOUS
  <1>1. Asides \subseteq Routines /\ Loop \in Routines
    BY DEF Routines
  <1>2. CASE People
    <2>1. ASSUME NEW r \in Asides, NEW u \in Staff, HandOver(r, u)
          PROVE  KnowledgeInv'
      BY <1>1, <2>1, StartKeeps DEF HandOver
    <2> QED
      BY <1>1, <1>2, <2>1, OpenKeeps, RetryCloseKeeps, CloseShiftKeeps, CompleteSaleKeeps, RetrySaleKeeps
         DEF People
  <1>3. CASE BackOnline
    BY <1>1, <1>3, StartKeeps DEF BackOnline, KnowledgeInv, Types
  <1>4. CASE Timer
    BY <1>1, <1>4, StartKeeps DEF Timer, BackOnline, KnowledgeInv, Types
  <1>5. CASE Restart
    BY <1>5, RestartKeeps
  <1>6. ASSUME NEW r \in Routines, Answer(r) \/ HearsAnswer(r) \/ Loses(r)
        PROVE  KnowledgeInv'
    <2>1. CASE Answer(r)
      BY <2>1, AnswerKeeps
    <2>2. CASE HearsAnswer(r)
      BY <2>2, ReactsKeeps DEF HearsAnswer, KnowledgeInv, Work
    <2>3. CASE Loses(r)
      <3>1. Waits(r) => CallOf(r).user \in Staff
        BY DEF KnowledgeInv, Work, Sound, Signed, Waits, CallOf
      <3>2. \A c \in late' : c.user \in Staff
        BY <2>3, <3>1 DEF Loses, KnowledgeInv, Work
      <3> QED
        BY <2>3, <3>2, ReactsKeeps DEF Loses
    <2> QED
      BY <1>6, <2>1, <2>2, <2>3
  <1>7. ASSUME NEW c \in late, ArrivesLate(c)
        PROVE  KnowledgeInv'
    BY <1>7, ArrivesLateKeeps
  <1>8. ASSUME NEW id \in Shifts, OtherCloses(id)
        PROVE  KnowledgeInv'
    BY <1>8, OtherClosesKeeps
  <1>9. CASE UNCHANGED vars
    BY <1>9, ServerKeeps, SameIsLater DEF vars, storage, KnowledgeInv, Types
  <1> QED
    BY <1>2, <1>3, <1>4, <1>5, <1>6, <1>7, <1>8, <1>9 DEF Next

LEMMA AlwaysKnows == Spec => []KnowledgeInv
  BY InitKnows, StepKnows, PTL DEF Spec

\* A sale shown as sent is filed, a shift marked as sent is on the server and a
\* close marked as sent was made, whatever is lost, repeated or late
\* (syncShift, flushShiftCloses, useSalesSync).
THEOREM TillAlwaysKnowsTheServer == Spec => []TillKnowsTheServer
  <1>1. KnowledgeInv => TillKnowsTheServer
    BY DEF KnowledgeInv
  <1> QED
    BY <1>1, AlwaysKnows, PTL

\* The server takes nothing back, whoever acts.
LEMMA StepLater ==
    ASSUME KnowledgeInv, [Next]_vars
    PROVE  Later(remote, filed, remote', filed')
  <1>1. CASE UNCHANGED server
    BY <1>1, SameIsLater DEF server
  <1>2. ASSUME NEW r \in Routines, Answer(r)
        PROVE  Later(remote, filed, remote', filed')
    <2>1. CallOf(r).user \in Staff
      BY <1>2 DEF KnowledgeInv, Work, Sound, Signed, Answer, Waits, CallOf
    <2> QED
      BY <1>2, <2>1, HandleIsTrue DEF Answer, KnowledgeInv, Types
  <1>3. ASSUME NEW c \in late, ArrivesLate(c), ~UNCHANGED server
        PROVE  Later(remote, filed, remote', filed')
    BY <1>3, HandleIsTrue DEF ArrivesLate, KnowledgeInv, Types, Work
  <1>4. ASSUME NEW id \in Shifts, OtherCloses(id)
        PROVE  Later(remote, filed, remote', filed')
    BY <1>4 DEF KnowledgeInv, Types, OtherCloses, ServerShifts, Later
  <1>5. People \/ BackOnline \/ Timer \/ Restart \/ UNCHANGED vars => UNCHANGED server
    BY DEF People, OpenShift, RetryClose, HandOver, CloseShift, CompleteSale, RetrySale,
          Timer, BackOnline, Restart, vars, server
  <1>6. \A r \in Routines : HearsAnswer(r) \/ Loses(r) => UNCHANGED server
    BY DEF HearsAnswer, Loses, Reacts
  <1> QED
    BY <1>1, <1>2, <1>3, <1>4, <1>5, <1>6 DEF Next

\* A shift on the server keeps its owner and, once closed, stays closed, whatever
\* is sent twice or late (POST /shifts, PATCH /shifts/:id/close).
THEOREM ClosedStaysClosed == Spec => ClosedIsFinal
  <1>1. KnowledgeInv /\ [Next]_vars =>
            [\A s \in Shifts :
                remote[s].owner # None =>
                   /\ remote'[s].owner = remote[s].owner
                   /\ ~remote[s].open => ~remote'[s].open]_vars
    BY StepLater DEF Later
  <1> QED
    BY <1>1, AlwaysKnows, PTL DEF Spec, ClosedIsFinal

-----------------------------------------------------------------------------
(* What the snapshots contain. *)

\* Closes of which the server knows the shift wherever they say so.
Known(shifts) == {c \in Closed : c.synced => shifts[c.id].owner # None}

\* A routine that has yet to be told its next call.
Ready(n, shifts) == n \in Routine /\ n.user \in Staff /\ n.closes \in Seq(Known(shifts))

Placed(n, shifts) ==
    /\ n \in Routine /\ n.closes \in Seq(Known(shifts))
    /\ n.at = "idle" <=> n.id = None
    /\ n.at # "idle" => n.user \in Staff
    /\ n.at \in {"create", "createClosed", "close"} => n.id \in Shifts
    /\ n.at = "sale" => n.id \in Sales
    /\ n.at \in {"close", "createClosed"} => n.closes # <<>>
    /\ n.at = "close" => shifts[n.id].owner # None
    /\ n.at = "createClosed" /\ n.answer = "ok" => shifts[n.id].owner # None

Placements ==
    /\ routines \in [Routines -> Routine]
    /\ \A r \in Routines : Placed(routines[r], remote)

Lists == rung \in Seq(Sales) /\ opened \subseteq Shifts /\ late \subseteq Call

PlaceInv == KnowledgeInv /\ Placements /\ Lists

LEMMA NoneIsNothing ==
    /\ None \notin Shifts \cup Sales \cup Staff
    /\ \A x \in Shifts \cup Sales : x # None
BY TillAssumption DEF None

LEMMA KnownAreClosed ==
    ASSUME NEW shifts, NEW list \in Seq(Known(shifts))
    PROVE  list \in Seq(Closed)
<1>1. Known(shifts) \subseteq Closed
    BY DEF Known
<1> QED
    BY <1>1, SeqMonotonic

LEMMA EmptyIsKnown == ASSUME NEW shifts PROVE <<>> \in Seq(Known(shifts))
OBVIOUS

LEMMA IdlePlaced ==
    ASSUME NEW shifts
    PROVE  Placed(Idle, shifts) /\ Idle \in Routine
<1>1. <<>> \in Seq(Closed) /\ <<>> \in Seq(Sales)
    OBVIOUS
<1>2. Idle \in Routine
    BY <1>1 DEF Idle, Routine
<1> QED
    BY <1>2, EmptyIsKnown DEF Placed, Idle

LEMMA CallsPlaced ==
    ASSUME NEW shifts, NEW n, Ready(n, shifts), NEW at \in Kinds, NEW id \in Shifts \cup Sales,
           at \in {"create", "createClosed", "close"} => id \in Shifts,
           at = "sale" => id \in Sales,
           at \in {"close", "createClosed"} => n.closes # <<>>,
           at = "close" => shifts[id].owner # None
    PROVE  Placed(Calls(n, at, id), shifts)
<1> DEFINE m == Calls(n, at, id)
<1>1. /\ m \in Routine /\ m.at = at /\ m.id = id /\ m.answer = None
      /\ m.closes = n.closes /\ m.user = n.user
    BY DEF Ready, Routine, Calls
<1>2. m.id # None /\ m.at # "idle"
    BY <1>1, NoneIsNothing DEF Kinds
<1> HIDE DEF m
<1>3. Placed(m, shifts)
    BY <1>1, <1>2 DEF Placed, Ready, None
<1> QED
    BY <1>3 DEF m

LEMMA NextSalePlaced ==
    ASSUME NEW shifts, NEW n, Ready(n, shifts)
    PROVE  Placed(NextSale(n), shifts)
<1> DEFINE left == Kept(n.sending, {s \in Sales : sales'[s].state # "synced"})
           m == Calls(n, "sale", Head(left))
<1>1. left \in Seq(Sales)
  <2>1. n.sending \in Seq(Sales)
      BY DEF Ready, Routine
  <2>2. left \in Seq(Sales \cap {s \in Sales : sales'[s].state # "synced"})
      BY <2>1, KeptType
  <2>3. Sales \cap {s \in Sales : sales'[s].state # "synced"} \subseteq Sales
      OBVIOUS
  <2> QED
      BY <2>2, <2>3, SeqMonotonic
<1>2. NextSale(n) = IF left = <<>> THEN Idle ELSE [m EXCEPT !.sending = Tail(left)]
    BY DEF NextSale
<1> HIDE DEF left
<1>3. CASE left = <<>>
    BY <1>2, <1>3, IdlePlaced
<1>4. CASE left # <<>>
  <2>1. Head(left) \in Sales /\ Tail(left) \in Seq(Sales)
      BY <1>1, <1>4
  <2>2. Placed(m, shifts)
      BY <2>1, CallsPlaced DEF Kinds
  <2> HIDE DEF m
  <2>3. Placed([m EXCEPT !.sending = Tail(left)], shifts)
    <3> DEFINE k == [m EXCEPT !.sending = Tail(left)]
    <3>1. /\ k \in Routine /\ k.at = m.at /\ k.id = m.id /\ k.answer = m.answer
          /\ k.closes = m.closes /\ k.user = m.user
        BY <2>1, <2>2 DEF Placed, Routine
    <3> HIDE DEF k
    <3>2. Placed(k, shifts)
        BY <2>2, <3>1 DEF Placed
    <3> QED
        BY <3>2 DEF k
  <2> QED
      BY <1>2, <1>4, <2>3
<1> QED
    BY <1>3, <1>4

LEMMA AfterClosesPlaced ==
    ASSUME NEW shifts, NEW n, Ready(n, shifts), rung' \in Seq(Sales)
    PROVE  Placed(AfterCloses(n), shifts)
<1> DEFINE m == [n EXCEPT !.closes = <<>>, !.sending = PendingSales]
<1>1. PendingSales \in Seq(Sales)
  <2>1. PendingSales \in Seq(Sales \cap {s \in Sales : sales'[s].state = "pending"})
      BY KeptType DEF PendingSales
  <2>2. Sales \cap {s \in Sales : sales'[s].state = "pending"} \subseteq Sales
      OBVIOUS
  <2> QED
      BY <2>1, <2>2, SeqMonotonic
<1>2. Ready(m, shifts)
  <2>1. <<>> \in Seq(Closed) /\ <<>> \in Seq(Known(shifts))
      OBVIOUS
  <2> QED
      BY <1>1, <2>1 DEF Ready, Routine
<1>3. AfterCloses(n) = IF n.sells THEN NextSale(m) ELSE Idle
    BY DEF AfterCloses
<1> HIDE DEF m
<1> QED
    BY <1>2, <1>3, NextSalePlaced, IdlePlaced

LEMMA NextClosePlaced ==
    ASSUME NEW shifts, NEW n, Ready(n, shifts), rung' \in Seq(Sales)
    PROVE  Placed(NextClose(n), shifts)
<1>1. CASE n.closes = <<>>
    BY <1>1, AfterClosesPlaced DEF NextClose
<1>2. CASE n.closes # <<>>
  <2> DEFINE c == Head(n.closes)
  <2>1. c \in Known(shifts)
      BY <1>2 DEF Ready
  <2>2. c.id \in Shifts /\ (c.synced => shifts[c.id].owner # None)
      BY <2>1 DEF Known, Closed
  <2> HIDE DEF c
  <2>3. Placed(Calls(n, FirstCall(c), c.id), shifts)
    <3>1. CASE c.synced
        BY <1>2, <2>2, <3>1, CallsPlaced DEF FirstCall, Kinds
    <3>2. CASE ~c.synced
        BY <1>2, <2>2, <3>2, CallsPlaced DEF FirstCall, Kinds
    <3> QED
        BY <3>1, <3>2
  <2> QED
      BY <1>2, <2>3 DEF NextClose, c
<1> QED
    BY <1>1, <1>2

LEMMA FlushClosesPlaced ==
    ASSUME NEW shifts, NEW n, Ready(n, shifts), rung' \in Seq(Sales), history' \in Seq(Known(shifts))
    PROVE  Placed(FlushCloses(n), shifts)
<1> DEFINE m == [n EXCEPT !.closes = DueCloses]
<1>1. DueCloses \in Seq(Known(shifts))
  <2>1. DueCloses \in Seq(Known(shifts) \cap {c \in Closed : c.close = "due"})
      BY KeptType DEF DueCloses
  <2>2. Known(shifts) \cap {c \in Closed : c.close = "due"} \subseteq Known(shifts)
      OBVIOUS
  <2> QED
      BY <2>1, <2>2, SeqMonotonic
<1>2. Ready(m, shifts)
    BY <1>1, KnownAreClosed DEF Ready, Routine
<1>3. FlushCloses(n) = IF n.flushes THEN NextClose(m) ELSE Idle
    BY DEF FlushCloses
<1> HIDE DEF m
<1> QED
    BY <1>2, <1>3, NextClosePlaced, IdlePlaced

LEMMA EnsureShiftPlaced ==
    ASSUME NEW shifts, NEW n, Ready(n, shifts), rung' \in Seq(Sales), history' \in Seq(Known(shifts)),
           shift' \in [id : Shifts, synced : BOOLEAN] \cup {NoShift}
    PROVE  Placed(EnsureShift(n), shifts)
<1>1. CASE shift' # NoShift /\ ~shift'.synced
  <2>1. shift'.id \in Shifts
      BY <1>1
  <2>2. Placed(Calls(n, "create", shift'.id), shifts)
      BY <2>1, CallsPlaced DEF Kinds
  <2> QED
      BY <1>1, <2>2 DEF EnsureShift
<1>2. CASE ~(shift' # NoShift /\ ~shift'.synced)
    BY <1>2, FlushClosesPlaced DEF EnsureShift
<1> QED
    BY <1>1, <1>2

\* What the server knows, it goes on knowing.
LEMMA PlacedStays ==
    ASSUME NEW n, NEW shifts, NEW book, NEW shifts2, NEW book2,
           Placed(n, shifts), Later(shifts, book, shifts2, book2)
    PROVE  Placed(n, shifts2)
<1>0. ASSUME NEW id \in Shifts, shifts[id].owner # None
      PROVE  shifts2[id].owner # None
    BY <1>0 DEF Later
<1>1. Known(shifts) \subseteq Known(shifts2)
  <2>1. \A c \in Closed : c.id \in Shifts
      BY DEF Closed
  <2> QED
      BY <1>0, <2>1 DEF Known
<1>2. n.closes \in Seq(Known(shifts2))
    BY <1>1, SeqMonotonic DEF Placed
<1> QED
    BY <1>0, <1>2 DEF Placed

LEMMA HistoryKnown ==
    ASSUME KnowledgeInv
    PROVE  history \in Seq(Known(remote))
<1>1. history \in Seq(Closed) /\ \A i \in 1..Len(history) : history[i].synced => remote[history[i].id].owner # None
    BY DEF KnowledgeInv, Types, TillKnowsTheServer
<1>2. \A i \in 1..Len(history) : history[i] \in Known(remote)
    BY <1>1 DEF Known
<1> QED
    BY <1>1, <1>2

LEMMA HistoryWillBeKnown ==
    ASSUME KnowledgeInv'
    PROVE  history' \in Seq(Known(remote'))
<1>1. history' \in Seq(Closed) /\ \A i \in 1..Len(history') : history'[i].synced => remote'[history'[i].id].owner # None
    BY DEF KnowledgeInv, Types, TillKnowsTheServer
<1>2. \A i \in 1..Len(history') : history'[i] \in Known(remote')
    BY <1>1 DEF Known
<1> QED
    BY <1>1, <1>2

LEMMA OnePlaced ==
    ASSUME PlaceInv, Later(remote, filed, remote', filed'), NEW r \in Routines, NEW n, Placed(n, remote'),
           routines' = [routines EXCEPT ![r] = n]
    PROVE  Placements'
<1>1. \A q \in Routines : Placed(routines[q], remote')
    BY PlacedStays DEF PlaceInv, Placements
<1>2. n \in Routine
    BY DEF Placed
<1> QED
    BY <1>1, <1>2 DEF PlaceInv, Placements

LEMMA AllPlaced ==
    ASSUME PlaceInv, Later(remote, filed, remote', filed'), UNCHANGED routines
    PROVE  Placements'
BY PlacedStays DEF PlaceInv, Placements

LEMMA StartsPlaced ==
    ASSUME PlaceInv, KnowledgeInv', NEW r \in Routines, NEW flushes \in BOOLEAN, Starts(r, flushes),
           rung' \in Seq(Sales), Later(remote, filed, remote', filed')
    PROVE  Placements'
<1> DEFINE m == [Idle EXCEPT !.user = user, !.flushes = flushes, !.sells = (r = Loop)]
<1>1. Ready(m, remote')
  <2>1. <<>> \in Seq(Closed) /\ <<>> \in Seq(Sales) /\ <<>> \in Seq(Known(remote'))
      OBVIOUS
  <2>2. user \in Staff /\ (r = Loop) \in BOOLEAN
      BY DEF PlaceInv, KnowledgeInv, Types
  <2> QED
      BY <2>1, <2>2 DEF Ready, Idle, Routine
<1>2. routines' = [routines EXCEPT ![r] = EnsureShift(m)]
    BY DEF Starts
<1> HIDE DEF m
<1>3. Placed(EnsureShift(m), remote')
    BY <1>1, HistoryWillBeKnown, EnsureShiftPlaced DEF KnowledgeInv, Types
<1> QED
    BY <1>2, <1>3, OnePlaced

LEMMA StartsSyncPlaced ==
    ASSUME PlaceInv, KnowledgeInv', StartsSync,
           rung' \in Seq(Sales), Later(remote, filed, remote', filed')
    PROVE  Placements'
BY StartsPlaced, AllPlaced DEF StartsSync, Routines

LEMMA CallIsCall ==
    ASSUME PlaceInv, NEW r \in Routines, Waits(r)
    PROVE  CallOf(r) \in Call
<1>1. Placed(routines[r], remote)
    BY DEF PlaceInv, Placements
<1> QED
    BY <1>1 DEF Placed, Routine, Waits, CallOf, Call, Kinds

LEMMA AnswerPlaced ==
    ASSUME PlaceInv, NEW r \in Routines, Answer(r), Later(remote, filed, remote', filed')
    PROVE  Placements'
<1>1. PICK answer \in {"ok", "conflict", "forbidden", "refused"} :
         /\ Handle(CallOf(r), answer)
         /\ routines' = [routines EXCEPT ![r].answer = answer]
    BY DEF Answer
<1> DEFINE n == [routines[r] EXCEPT !.answer = answer]
<1>2. Placed(routines[r], remote')
    BY PlacedStays DEF PlaceInv, Placements
<1>3. /\ n \in Routine /\ n.at = routines[r].at /\ n.id = routines[r].id /\ n.user = routines[r].user
      /\ n.closes = routines[r].closes /\ n.answer = answer
    BY <1>2 DEF Placed, Routine
<1>4. ASSUME n.at = "createClosed", answer = "ok"
      PROVE  remote'[n.id].owner # None
  <2>1. n.id \in Shifts /\ n.user \in Staff
      BY <1>2, <1>3, <1>4 DEF Placed
  <2>2. CreatesOnce(CallOf(r))
      BY <1>1, <1>3, <1>4 DEF Handle, HandleCreate, HandleClose, HandleSale, CallOf
  <2>3. CallOf(r).id = n.id /\ CallOf(r).user = n.user
      BY <1>3 DEF CallOf
  <2>4. remote \in ServerShifts
      BY DEF PlaceInv, KnowledgeInv, Types
  <2> QED
      BY <2>1, <2>2, <2>3, <2>4, NoneIsNothing DEF CreatesOnce, ServerShifts
<1>5. routines' = [routines EXCEPT ![r] = n]
    BY <1>1 DEF PlaceInv, Placements
<1> HIDE DEF n
<1>6. Placed(n, remote')
    BY <1>2, <1>3, <1>4 DEF Placed
<1> QED
    BY <1>5, <1>6, OnePlaced

LEMMA ReactsPlaced ==
    ASSUME PlaceInv, KnowledgeInv', NEW r \in Routines, NEW answer, Reacts(r, answer),
           answer \in {routines[r].answer, "lost"}, Later(remote, filed, remote', filed')
    PROVE  Placements' /\ rung' = rung
<1>1. rung' = rung
    BY DEF Reacts, HearsCreate, HearsCreateClosed, HearsClose, HearsSale, storage
<1>2. Placed(routines[r], remote') /\ rung' \in Seq(Sales) /\ history' \in Seq(Known(remote'))
    BY <1>1, PlacedStays, HistoryWillBeKnown DEF PlaceInv, Placements, Lists
<1>3. routines[r].at # "idle" => Ready(routines[r], remote')
    BY <1>2 DEF Placed, Ready
<1>4. CASE HearsCreate(r, answer)
  <2>1. Placed(FlushCloses(routines[r]), remote')
      BY <1>2, <1>3, <1>4, FlushClosesPlaced DEF HearsCreate
  <2> QED
      BY <1>1, <1>4, <2>1, OnePlaced DEF HearsCreate, Continues
<1>5. CASE HearsCreateClosed(r, answer)
  <2>1. /\ routines[r].at = "createClosed" /\ routines[r].answer = "ok"
      BY <1>5 DEF HearsCreateClosed
  <2>2. /\ routines[r].id \in Shifts /\ routines[r].closes # <<>>
        /\ remote'[routines[r].id].owner # None
      BY <1>2, <2>1 DEF Placed
  <2>3. Placed(Calls(routines[r], "close", routines[r].id), remote')
      BY <1>3, <2>1, <2>2, CallsPlaced DEF Kinds
  <2> QED
      BY <1>1, <1>5, <2>3, OnePlaced DEF HearsCreateClosed, Continues
<1>6. CASE HearsClose(r, answer)
  <2> DEFINE rest == [routines[r] EXCEPT !.closes = Tail(@)]
  <2>1. routines[r].at \in {"close", "createClosed"}
      BY <1>6 DEF HearsClose
  <2>2. routines[r].closes # <<>> /\ Ready(routines[r], remote')
      BY <1>2, <1>3, <2>1 DEF Placed
  <2>3. Tail(routines[r].closes) \in Seq(Known(remote'))
      BY <2>2 DEF Ready
  <2>4. Ready(rest, remote')
      BY <2>2, <2>3, KnownAreClosed DEF Ready, Routine
  <2>5. \E state : routines' = [routines EXCEPT ![r] = IF state = "due" THEN AfterCloses(rest) ELSE NextClose(rest)]
      BY <1>6 DEF HearsClose, Continues
  <2> HIDE DEF rest
  <2>6. Placed(AfterCloses(rest), remote') /\ Placed(NextClose(rest), remote')
      BY <1>2, <2>4, AfterClosesPlaced, NextClosePlaced
  <2> QED
      BY <1>1, <2>5, <2>6, OnePlaced
<1>7. CASE HearsSale(r, answer)
  <2>1. Placed(NextSale(routines[r]), remote') /\ Placed(Idle, remote')
      BY <1>3, <1>7, NextSalePlaced, IdlePlaced DEF HearsSale
  <2> QED
      BY <1>1, <1>7, <2>1, OnePlaced DEF HearsSale, Continues
<1> QED
    BY <1>4, <1>5, <1>6, <1>7 DEF Reacts

LEMMA InitPlaced == Init => PlaceInv
<1> SUFFICES ASSUME Init PROVE PlaceInv
    OBVIOUS
<1>1. KnowledgeInv
    BY InitKnows
<1>2. Placements
    BY IdlePlaced DEF Init, Placements
<1>3. Lists
    BY DEF Init, Lists
<1> QED
    BY <1>1, <1>2, <1>3 DEF PlaceInv

LEMMA StepPlaced == PlaceInv /\ [Next]_vars => PlaceInv'
<1> SUFFICES ASSUME PlaceInv, [Next]_vars PROVE PlaceInv'
    OBVIOUS
<1>1. KnowledgeInv /\ KnowledgeInv' /\ Later(remote, filed, remote', filed') /\ Lists
    BY StepKnows, StepLater DEF PlaceInv
<1>2. Asides \subseteq Routines /\ Loop \in Routines /\ TRUE \in BOOLEAN /\ FALSE \in BOOLEAN
    BY DEF Routines
<1>3. ASSUME NEW r \in Asides, NEW id \in Shifts, OpenShift(r, id)
      PROVE  Placements' /\ Lists'
  <2>1. Lists'
      BY <1>1, <1>3 DEF OpenShift, Lists
  <2> QED
      BY <1>1, <1>2, <1>3, <2>1, StartsPlaced DEF OpenShift, Lists
<1>4. ASSUME NEW r \in Asides, NEW id \in Shifts, RetryClose(r, id)
      PROVE  Placements' /\ Lists'
  <2> DEFINE m == [Idle EXCEPT !.user = user, !.flushes = TRUE]
  <2>1. Lists'
      BY <1>1, <1>4 DEF RetryClose, Lists
  <2>2. Ready(m, remote')
    <3>1. <<>> \in Seq(Closed) /\ <<>> \in Seq(Sales) /\ <<>> \in Seq(Known(remote'))
        OBVIOUS
    <3>2. user \in Staff
        BY <1>1 DEF KnowledgeInv, Types
    <3> QED
        BY <3>1, <3>2 DEF Ready, Idle, Routine
  <2>3. routines' = [routines EXCEPT ![r] = FlushCloses(m)]
      BY <1>4 DEF RetryClose
  <2> HIDE DEF m
  <2>4. Placed(FlushCloses(m), remote')
      BY <1>1, <2>1, <2>2, HistoryWillBeKnown, FlushClosesPlaced DEF Lists
  <2> QED
      BY <1>1, <1>2, <2>1, <2>3, <2>4, OnePlaced
<1>5. ASSUME NEW r \in Asides, NEW u \in Staff, HandOver(r, u)
      PROVE  Placements' /\ Lists'
  <2>1. Lists'
      BY <1>1, <1>5 DEF HandOver, storage, Lists
  <2> QED
      BY <1>1, <1>2, <1>5, <2>1, StartsPlaced DEF HandOver, Lists
<1>6. ASSUME NEW r \in Asides, CloseShift(r)
      PROVE  Placements' /\ Lists'
  <2>1. Lists'
      BY <1>1, <1>6 DEF CloseShift, Lists
  <2> QED
      BY <1>1, <1>2, <1>6, <2>1, StartsPlaced DEF CloseShift, Lists
<1>7. ASSUME NEW s \in Sales, CompleteSale(s) \/ RetrySale(s)
      PROVE  Placements' /\ Lists'
  <2>1. Lists'
      BY SMTT(30), <1>1, <1>7 DEF CompleteSale, RetrySale, Lists
  <2> QED
      BY <1>1, <1>7, <2>1, StartsSyncPlaced DEF CompleteSale, RetrySale, Lists
<1>8. CASE BackOnline \/ Timer
  <2>1. Lists' /\ Starts(Loop, TRUE)
      BY <1>1, <1>8 DEF BackOnline, Timer, storage, Lists
  <2> QED
      BY <1>1, <1>2, <2>1, StartsPlaced DEF PlaceInv, Lists
<1>9. CASE Restart
  <2>1. Lists'
      BY <1>1, <1>9, CallIsCall DEF Restart, storage, Lists
  <2>2. Placements'
      BY <1>9, IdlePlaced DEF Restart, Placements
  <2> QED
      BY <1>1, <2>1, <2>2 DEF PlaceInv
<1>10. ASSUME NEW r \in Routines, Answer(r)
       PROVE  Placements' /\ Lists'
    BY <1>1, <1>10, AnswerPlaced DEF Answer, storage, Lists
<1>11. ASSUME NEW r \in Routines, HearsAnswer(r) \/ Loses(r)
       PROVE  Placements' /\ Lists'
  <2>1. PICK answer \in {routines[r].answer, "lost"} : Reacts(r, answer)
      BY <1>11 DEF HearsAnswer, Loses
  <2>2. Placements' /\ rung' = rung
      BY <1>1, <2>1, ReactsPlaced
  <2>3. opened' = opened
      BY <2>1 DEF Reacts
  <2>4. late' \subseteq Call
      BY <1>1, <1>11, CallIsCall DEF HearsAnswer, Loses, Lists
  <2> QED
      BY <1>1, <2>2, <2>3, <2>4 DEF Lists
<1>12. ASSUME NEW c \in late, ArrivesLate(c)
       PROVE  Placements' /\ Lists'
    BY <1>1, <1>12, AllPlaced DEF ArrivesLate, storage, Lists
<1>13. ASSUME NEW id \in Shifts, OtherCloses(id)
       PROVE  Placements' /\ Lists'
    BY <1>1, <1>13, AllPlaced DEF OtherCloses, storage, Lists
<1>14. CASE UNCHANGED vars
    BY <1>1, <1>14, AllPlaced DEF vars, Lists, PlaceInv
<1> QED
    BY <1>1, <1>3, <1>4, <1>5, <1>6, <1>7, <1>8, <1>9, <1>10, <1>11, <1>12, <1>13, <1>14
       DEF Next, People, PlaceInv

LEMMA AlwaysPlaced == Spec => []PlaceInv
    BY InitPlaced, StepPlaced, PTL DEF Spec

\* What the till has stored, what its routines hold and what is still on the
\* wire keep their shape, however they interleave (shiftSync, useSalesSync).
THEOREM TillTypes == Spec => []TypeOK
<1>1. PlaceInv => TypeOK
    BY DEF PlaceInv, KnowledgeInv, Types, Placements, Placed, Lists, TypeOK, ServerShifts, ServerSales
<1> QED
    BY <1>1, AlwaysPlaced, PTL

\* A close goes out only for a shift that the server has, whoever closes it and
\* whatever was lost before (flushShiftCloses).
THEOREM CloseAlwaysFindsItsShift == Spec => []CloseFindsItsShift
<1>1. PlaceInv => CloseFindsItsShift
    BY DEF PlaceInv, Placements, Placed, CloseFindsItsShift
<1> QED
    BY <1>1, AlwaysPlaced, PTL
=============================================================================

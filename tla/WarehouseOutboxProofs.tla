------------------------ MODULE WarehouseOutboxProofs ------------------------
(***************************************************************************)
(* A command is carried out at most once, for any number of commands, of   *)
(* copies at work at once, of places and of goods: first for clients that   *)
(* send what they like, then for the outbox, which is one of them.          *)
(*                                                                         *)
(* The argument is the transaction's.  Whatever was carried out has its key *)
(* in the table; whoever is past the key has found it free and is alone     *)
(* there with it until he settles.                                          *)
(*                                                                         *)
(* Then the queue: no command is lost, and what is carried out is carried   *)
(* out in the order it was given.  The queue is at any time what is left of *)
(* the commands given, behind those that left it.  What left it was carried *)
(* out or discarded; nothing that is behind its head is on its way.         *)
(***************************************************************************)
EXTENDS WarehouseOutbox, CollectionsProofs

-----------------------------------------------------------------------------
(* Copies and their keys. *)

CommandsNamed ==
    \A s \in Slots : ~At(s, "free") => attempts[s].command \in Commands

AppliedIsKeyed == \A i \in 1..Len(applied) : applied[i] \in keys

ClaimedIsNew == \A s \in Slots : At(s, "claimed") => attempts[s].command \notin keys

OneClaimEach ==
    \A s, t \in Slots :
        At(s, "claimed") /\ At(t, "claimed") /\ attempts[s].command = attempts[t].command
        => s = t

OnceInv ==
    /\ ServerTypeOK
    /\ CommandsNamed
    /\ AppliedIsKeyed
    /\ ClaimedIsNew
    /\ OneClaimEach
    /\ AppliedOnce

LEMMA FreeType == Free \in Attempt
  BY DEF Free, Attempt

LEMMA InitOnce == ServerInit => OnceInv
  <1> SUFFICES ASSUME ServerInit
               PROVE  OnceInv
    OBVIOUS
  <1>1. Opening \in [Places -> Nat]
    BY ServerAssumption
  <1>2. ServerTypeOK
    BY <1>1, FreeType DEF ServerInit, ServerTypeOK
  <1>3. AppliedIsKeyed /\ AppliedOnce
    BY DEF ServerInit, AppliedIsKeyed, AppliedOnce
  <1>4. CommandsNamed /\ ClaimedIsNew /\ OneClaimEach
    BY DEF ServerInit, CommandsNamed, ClaimedIsNew, OneClaimEach, At, Free
  <1> QED
    BY <1>2, <1>3, <1>4 DEF OnceInv

\* The goods of a place stay a number when a covered unit leaves it.
LEMMA GoodsAfterType ==
    ASSUME goods \in [Places -> Nat], NEW c \in Commands, Covered(c)
    PROVE  GoodsAfter(c) \in [Places -> Nat]
  BY DEF GoodsAfter, Covered

\* An attempt that does not enter "claimed" and keeps its command disturbs
\* nothing.
LEMMA OtherPhase ==
    ASSUME OnceInv, UNCHANGED <<keys, applied>>, goods' \in [Places -> Nat],
           NEW s \in Slots, NEW a \in Attempt,
           attempts' = [attempts EXCEPT ![s] = a],
           a.phase # "free" => a.command \in Commands,
           a.phase = "claimed" => At(s, "claimed") /\ a.command = attempts[s].command
    PROVE  OnceInv'
  <1>1. ServerTypeOK'
    BY DEF OnceInv, ServerTypeOK
  <1>2. \A t \in Slots : attempts'[t] = IF t = s THEN a ELSE attempts[t]
    BY DEF OnceInv, ServerTypeOK
  <1>3. CommandsNamed'
    BY <1>2 DEF OnceInv, CommandsNamed, At
  <1>4. ClaimedIsNew'
    BY <1>2 DEF OnceInv, ClaimedIsNew, At
  <1>5. OneClaimEach'
    BY <1>2 DEF OnceInv, OneClaimEach, At
  <1>6. AppliedIsKeyed' /\ AppliedOnce'
    BY DEF OnceInv, AppliedIsKeyed, AppliedOnce
  <1> QED
    BY <1>1, <1>3, <1>4, <1>5, <1>6 DEF OnceInv

LEMMA AnsweredKeeps ==
    ASSUME OnceInv, UNCHANGED <<goods, keys, applied>>,
           NEW s \in Slots, NEW answer \in {"ok", "refused"},
           ~At(s, "free"), Answers(s, answer)
    PROVE  OnceInv'
  <1> DEFINE a == IF attempts[s].awaited
                  THEN [attempts[s] EXCEPT !.phase = "answered", !.answer = answer]
                  ELSE Free
  <1>1. a \in Attempt
    BY FreeType DEF OnceInv, ServerTypeOK, Attempt
  <1>2. attempts' = [attempts EXCEPT ![s] = a]
    BY DEF Answers, OnceInv, ServerTypeOK
  <1>3. /\ a.phase # "free" => a.command \in Commands
        /\ a.phase # "claimed"
    BY DEF OnceInv, ServerTypeOK, CommandsNamed, Attempt, At, Free
  <1> QED
    BY <1>1, <1>2, <1>3, OtherPhase DEF OnceInv, ServerTypeOK

LEMMA CheckKeeps ==
    ASSUME OnceInv, NEW s \in Slots, Check(s)
    PROVE  OnceInv'
  <1>1. CASE Answers(s, "refused")
    BY <1>1, AnsweredKeeps DEF Check, At
  <1>2. CASE Moves(s, "checked")
    <2> DEFINE a == [attempts[s] EXCEPT !.phase = "checked"]
    <2>1. a \in Attempt /\ a.command \in Commands /\ a.phase = "checked"
      BY DEF Check, OnceInv, ServerTypeOK, CommandsNamed, Attempt, At
    <2>2. attempts' = [attempts EXCEPT ![s] = a]
      BY <1>2 DEF Moves, OnceInv, ServerTypeOK
    <2> QED
      BY <2>1, <2>2, OtherPhase DEF Check, OnceInv, ServerTypeOK
  <1> QED
    BY <1>1, <1>2 DEF Check

\* The row of the key lets one copy through at a time, and none after a commit.
LEMMA ClaimKeeps ==
    ASSUME OnceInv, NEW s \in Slots, Claim(s)
    PROVE  OnceInv'
  <1>1. CASE KeyTaken(attempts[s].command)
    BY <1>1, AnsweredKeeps DEF Claim, At
  <1>2. CASE ~KeyTaken(attempts[s].command)
    <2> DEFINE a == [attempts[s] EXCEPT !.phase = "claimed"]
    <2>1. a \in Attempt /\ a.command \in Commands /\ a.command = attempts[s].command
          /\ a.phase = "claimed"
      BY DEF Claim, OnceInv, ServerTypeOK, CommandsNamed, Attempt, At
    <2>2. \A t \in Slots : attempts'[t] = IF t = s THEN a ELSE attempts[t]
      BY <1>2 DEF Claim, Moves, OnceInv, ServerTypeOK
    <2>3. ServerTypeOK'
      <3>1. attempts' = [attempts EXCEPT ![s] = a]
        BY <1>2 DEF Claim, Moves, OnceInv, ServerTypeOK
      <3> QED
        BY <2>1, <3>1 DEF Claim, OnceInv, ServerTypeOK
    <2>4. CommandsNamed'
      BY <2>1, <2>2 DEF OnceInv, CommandsNamed, At
    <2>5. ClaimedIsNew'
      BY <1>2, <2>1, <2>2 DEF Claim, OnceInv, ClaimedIsNew, KeyTaken, At
    <2>6. OneClaimEach'
      <3>1. \A t \in Slots : t # s /\ At(t, "claimed") => attempts[t].command # attempts[s].command
        BY DEF Claim, WaitsForKey
      <3>2. \A t \in Slots : t # s => attempts'[t] = attempts[t]
        BY <2>2
      <3>3. attempts'[s] = a
        BY <2>2
      <3> HIDE DEF a
      <3> QED
        BY <2>1, <3>1, <3>2, <3>3 DEF OnceInv, OneClaimEach, At
    <2>7. AppliedIsKeyed' /\ AppliedOnce'
      BY DEF Claim, OnceInv, AppliedIsKeyed, AppliedOnce
    <2> QED
      BY <2>3, <2>4, <2>5, <2>6, <2>7 DEF OnceInv
  <1> QED
    BY <1>1, <1>2

\* The commit writes a command that nothing written before it names.
LEMMA WorkKeeps ==
    ASSUME OnceInv, NEW s \in Slots, Work(s)
    PROVE  OnceInv'
  <1> DEFINE c == attempts[s].command
             a == IF attempts[s].awaited
                  THEN [attempts[s] EXCEPT !.phase = "answered", !.answer = "ok"]
                  ELSE Free
  <1>1. c \in Commands /\ c \notin keys
    BY DEF Work, OnceInv, CommandsNamed, ClaimedIsNew, At
  <1>2. a \in Attempt /\ a.phase # "claimed" /\ (a.phase # "free" => a.command \in Commands)
    BY <1>1, FreeType DEF OnceInv, ServerTypeOK, Attempt, Free
  <1>3. \A t \in Slots : attempts'[t] = IF t = s THEN a ELSE attempts[t]
    BY DEF Work, Answers, OnceInv, ServerTypeOK
  <1>4. /\ applied' = Append(applied, c)
        /\ applied \in Seq(Commands)
        /\ keys' = keys \cup {c}
    BY DEF Work, OnceInv, ServerTypeOK
  <1>5. ServerTypeOK'
    <2>1. goods' \in [Places -> Nat]
      BY <1>1, GoodsAfterType DEF Work, OnceInv, ServerTypeOK
    <2>2. attempts' \in [Slots -> Attempt]
      BY <1>2 DEF Work, Answers, OnceInv, ServerTypeOK
    <2>3. keys' \subseteq Commands /\ applied' \in Seq(Commands)
      BY <1>1, <1>4 DEF OnceInv, ServerTypeOK
    <2> QED
      BY <2>1, <2>2, <2>3 DEF ServerTypeOK
  <1>6. CommandsNamed'
    BY <1>2, <1>3 DEF OnceInv, CommandsNamed, At
  <1>7. AppliedIsKeyed'
    BY <1>1, <1>4 DEF OnceInv, AppliedIsKeyed
  <1>8. ClaimedIsNew'
    BY <1>2, <1>3, <1>4 DEF Work, OnceInv, ClaimedIsNew, OneClaimEach, At
  <1>9. OneClaimEach'
    BY <1>2, <1>3 DEF OnceInv, OneClaimEach, At
  <1>10. AppliedOnce'
    BY <1>1, <1>4 DEF OnceInv, AppliedIsKeyed, AppliedOnce
  <1> QED
    BY <1>5, <1>6, <1>7, <1>8, <1>9, <1>10 DEF OnceInv

LEMMA FreedKeeps ==
    ASSUME OnceInv, UNCHANGED <<goods, keys, applied>>, NEW s \in Slots,
           attempts' = [attempts EXCEPT ![s] = Free]
    PROVE  OnceInv'
  BY FreeType, OtherPhase DEF OnceInv, ServerTypeOK, Free

LEMMA GivesUpKeeps ==
    ASSUME OnceInv, NEW s \in Slots, GivesUp(s)
    PROVE  OnceInv'
  <1>1. CASE At(s, "answered")
    BY <1>1, FreedKeeps DEF GivesUp, OnceInv, ServerTypeOK
  <1>2. CASE ~At(s, "answered")
    <2> DEFINE a == [attempts[s] EXCEPT !.awaited = FALSE]
    <2>1. a \in Attempt /\ a.phase = attempts[s].phase /\ a.command = attempts[s].command
      BY DEF OnceInv, ServerTypeOK, Attempt
    <2>2. attempts' = [attempts EXCEPT ![s] = a]
      BY <1>2 DEF GivesUp, OnceInv, ServerTypeOK
    <2> QED
      BY <2>1, <2>2, OtherPhase DEF GivesUp, OnceInv, ServerTypeOK, CommandsNamed, At
  <1> QED
    BY <1>1, <1>2

LEMMA SendsKeeps ==
    ASSUME OnceInv, NEW s \in Slots, NEW c \in Commands, Sends(s, c)
    PROVE  OnceInv'
  <1> DEFINE a == [command |-> c, phase |-> "sent", answer |-> "none", awaited |-> TRUE]
  <1>1. a \in Attempt
    BY DEF Attempt
  <1> QED
    BY <1>1, OtherPhase DEF Sends, OnceInv, ServerTypeOK

LEMMA StepOnce == OnceInv /\ [ServerNext]_serverVars => OnceInv'
  <1> SUFFICES ASSUME OnceInv, [ServerNext]_serverVars
               PROVE  OnceInv'
    OBVIOUS
  <1>1. CASE OthersTrade
    <2>1. goods' \in [Places -> Nat]
      BY <1>1, ServerAssumption DEF OthersTrade, OnceInv, ServerTypeOK
    <2> QED
      BY <1>1, <2>1 DEF OthersTrade, OnceInv, ServerTypeOK, CommandsNamed, AppliedIsKeyed,
            ClaimedIsNew, OneClaimEach, AppliedOnce, At
  <1>2. ASSUME NEW s \in Slots, ServerStep(s)
        PROVE  OnceInv'
    <2>1. CASE RollBack(s)
      BY <2>1, AnsweredKeeps DEF RollBack, At
    <2>2. CASE Dies(s)
      BY <2>2, FreedKeeps DEF Dies
    <2> QED
      BY <1>2, <2>1, <2>2, CheckKeeps, ClaimKeeps, WorkKeeps DEF ServerStep
  <1>3. ASSUME NEW s \in Slots, AnyClient(s)
        PROVE  OnceInv'
    BY <1>3, SendsKeeps, GivesUpKeeps, FreedKeeps DEF AnyClient, Takes
  <1>4. CASE UNCHANGED serverVars
    BY <1>4 DEF serverVars, OnceInv, ServerTypeOK, CommandsNamed, AppliedIsKeyed,
          ClaimedIsNew, OneClaimEach, AppliedOnce, At
  <1> QED
    BY <1>1, <1>2, <1>3, <1>4 DEF ServerNext

\* Whatever clients send, as often as they like and without waiting for
\* answers, the server carries out each command at most once (runIdempotent).
THEOREM ServerAppliesOnce == ServerSpec => []AppliedOnce
  <1>1. OnceInv => AppliedOnce
    BY DEF OnceInv
  <1> QED
    BY <1>1, InitOnce, StepOnce, PTL DEF ServerSpec

-----------------------------------------------------------------------------
(* The outbox is such a client. *)

WaitingKnown == waiting \in Slots \cup {NoSlot}

LEMMA StepWaiting == WaitingKnown /\ [Next]_vars => WaitingKnown'
  BY DEF WaitingKnown, Next, vars, Server, Device, deviceVars, GiveCommand, SendNext, LoopEnds,
        HearsOk, HearsRefusal, Hears, HearsNothing, GoesOffline, GoesOnline, Restart, Retry, Discard

LEMMA StepIsServed ==
    ASSUME WaitingKnown, [Next]_vars
    PROVE  [ServerNext]_serverVars
  <1>1. CASE Server
    BY <1>1 DEF Server, ServerNext
  <1>2. ASSUME NEW s \in Slots, SendNext(s) \/ HearsOk(s) \/ HearsRefusal(s) \/ HearsNothing(s)
        PROVE  ServerNext
    BY <1>2 DEF ServerNext, AnyClient, SendNext, HearsOk, HearsRefusal, Hears, HearsNothing
  <1>3. CASE Restart
    BY <1>3 DEF Restart, WaitingKnown, ServerNext, AnyClient
  <1>4. CASE \/ \E c \in Commands : GiveCommand(c)
             \/ LoopEnds \/ GoesOffline \/ GoesOnline \/ Retry \/ Discard
    BY <1>4 DEF GiveCommand, LoopEnds, GoesOffline, GoesOnline, Retry, Discard, serverVars
  <1>5. CASE UNCHANGED vars
    BY <1>5 DEF vars, serverVars
  <1> QED
    BY <1>1, <1>2, <1>3, <1>4, <1>5 DEF Next, Device

\* The server sees of the outbox what it may see of any client.
THEOREM OutboxIsAClient == Spec => ServerSpec
  <1>1. Init => ServerInit /\ WaitingKnown
    BY DEF Init, WaitingKnown
  <1> QED
    BY <1>1, StepWaiting, StepIsServed, PTL DEF Spec, ServerSpec

\* A warehouse command is carried out at most once, whatever answers are lost,
\* however often the app restarts and however often a person retries.
THEOREM OutboxAppliesOnce == Spec => []AppliedOnce
  BY OutboxIsAClient, ServerAppliesOnce

-----------------------------------------------------------------------------
(* Where the queue has got to. *)

Applied == Fn!Range(applied)

\* The queue is what is left of the commands given, after those that left it.
Gone == Len(given) - Len(queue)
Left == {given[n] : n \in 1..Gone}
Reached == {given[n] : n \in {k \in 1..Len(given) : k <= Gone + 1}}

QueueIsTheRest ==
    /\ Len(queue) <= Len(given)
    /\ \A n \in 1..Len(queue) : queue[n].command = given[Gone + n]

GivenOnce == \A m, n \in 1..Len(given) : given[m] = given[n] => m = n

LeftIsSettled == Left \subseteq discarded \cup Applied

\* Nothing goes out, or is discarded, before the queue has got to it.
SentIsReached == \A s \in Slots : ~At(s, "free") => attempts[s].command \in Reached
InItsTurn == Applied \subseteq Reached /\ discarded \subseteq Left

\* The table of keys, and the answers, tell of the documents.
KeysTell ==
    /\ keys \subseteq Applied
    /\ \A s \in Slots :
          At(s, "answered") /\ attempts[s].answer = "ok" => attempts[s].command \in keys

\* The loop waits to hear about the head of the queue.
WaitsForHead ==
    waiting \in Slots =>
        /\ ~At(waiting, "free") /\ attempts[waiting].awaited
        /\ queue # <<>> /\ ~queue[1].refused
        /\ attempts[waiting].command = queue[1].command

\* Whatever was carried out was preceded by all that was given before it.
Ordered ==
    \A m, n \in 1..Len(given) : \A j \in 1..Len(applied) :
        m < n /\ given[n] = applied[j] /\ given[m] \notin discarded
        => \E i \in 1..(j - 1) : applied[i] = given[m]

QueueInv ==
    /\ OnceInv /\ TypeOK
    /\ QueueIsTheRest /\ GivenOnce /\ LeftIsSettled
    /\ SentIsReached /\ InItsTurn /\ KeysTell /\ WaitsForHead /\ Ordered

LEMMA ListFacts ==
    ASSUME TypeOK
    PROVE  /\ Len(queue) \in Nat /\ Len(given) \in Nat /\ Len(applied) \in Nat
           /\ Gone \in Int
           /\ \A n \in 1..Len(queue) : queue[n] \in Entry /\ queue[n].command \in Commands
           /\ \A n \in 1..Len(given) : given[n] \in Commands
           /\ Applied = {applied[j] : j \in 1..Len(applied)}
           /\ Fn!Range(given) = {given[n] : n \in 1..Len(given)}
<1>1. applied \in Seq(Commands) /\ queue \in Seq(Entry) /\ given \in Seq(Commands)
    BY DEF TypeOK, ServerTypeOK
<1>2. Len(queue) \in Nat /\ Len(given) \in Nat /\ Len(applied) \in Nat
    BY <1>1
<1>3. \A n \in 1..Len(queue) : queue[n] \in Entry
    BY <1>1
<1>4. \A n \in 1..Len(given) : given[n] \in Commands
    BY <1>1
<1>5. \A e \in Entry : e.command \in Commands
    BY DEF Entry
<1>6. Applied = {applied[j] : j \in 1..Len(applied)}
    BY <1>1 DEF Applied, Fn!Range
<1>7. Fn!Range(given) = {given[n] : n \in 1..Len(given)}
    BY <1>1 DEF Fn!Range
<1> QED
    BY <1>2, <1>3, <1>4, <1>5, <1>6, <1>7 DEF Gone

LEMMA QueueFacts ==
    ASSUME QueueInv
    PROVE  /\ Gone \in Nat /\ Gone + Len(queue) = Len(given)
           /\ Left \subseteq Reached /\ Reached \subseteq Commands
           /\ queue = <<>> => Gone = Len(given)
           /\ queue # <<>> => /\ Len(queue) > 0 /\ Gone < Len(given)
                              /\ Head(queue) = queue[1]
                              /\ queue[1].command = given[Gone + 1]
                              /\ Reached = Left \cup {given[Gone + 1]}
                              /\ given[Gone + 1] \notin Left
<1>1. TypeOK /\ QueueIsTheRest /\ GivenOnce
    BY DEF QueueInv
<1>2. Gone \in Nat /\ Gone + Len(queue) = Len(given)
    BY <1>1, ListFacts DEF QueueIsTheRest, Gone
<1>3. Left \subseteq Reached /\ Reached \subseteq Commands
    BY <1>1, <1>2, ListFacts DEF Left, Reached
<1>4. queue = <<>> => Gone = Len(given)
    BY <1>1, <1>2, ListFacts
<1>5. ASSUME queue # <<>>
      PROVE  /\ Len(queue) > 0 /\ Gone < Len(given)
             /\ Head(queue) = queue[1]
             /\ queue[1].command = given[Gone + 1]
  <2>1. queue \in Seq(Entry)
      BY <1>1 DEF TypeOK
  <2>2. Len(queue) > 0 /\ Head(queue) = queue[1]
      BY <1>5, <2>1
  <2>3. 1 \in 1..Len(queue)
      BY <1>1, <2>2, ListFacts
  <2> QED
      BY <1>1, <1>2, <2>2, <2>3, ListFacts DEF QueueIsTheRest
<1>6. ASSUME queue # <<>>
      PROVE  /\ Reached = Left \cup {given[Gone + 1]}
             /\ given[Gone + 1] \notin Left
    BY <1>1, <1>2, <1>5, <1>6, ListFacts DEF Left, Reached, GivenOnce
<1> QED
    BY <1>2, <1>3, <1>4, <1>5, <1>6

-----------------------------------------------------------------------------
(* What the server does with a copy. *)

Moved(s) ==
    /\ ~At(s, "free")
    /\ \A t \in Slots \ {s} : attempts'[t] = attempts[t]
    /\ attempts'[s].phase # "free" => attempts'[s].command = attempts[s].command
    /\ attempts[s].awaited => attempts'[s].phase # "free" /\ attempts'[s].awaited
    /\ attempts'[s].phase = "answered" /\ attempts'[s].answer = "ok"
       => attempts[s].command \in keys'
    /\ \/ UNCHANGED <<keys, applied>>
       \/ /\ attempts[s].command \notin keys
          /\ keys' = keys \cup {attempts[s].command}
          /\ applied' = Append(applied, attempts[s].command)

LEMMA ServerStepMoves ==
    ASSUME OnceInv, NEW s \in Slots, ServerStep(s)
    PROVE  Moved(s)
<1>1. attempts \in [Slots -> Attempt] /\ attempts[s] \in Attempt
    BY DEF OnceInv, ServerTypeOK
<1>2. ASSUME NEW answer \in {"ok", "refused"}, Answers(s, answer)
      PROVE  /\ \A t \in Slots \ {s} : attempts'[t] = attempts[t]
             /\ attempts'[s].phase # "free" => attempts'[s].command = attempts[s].command
             /\ attempts[s].awaited => attempts'[s].phase # "free" /\ attempts'[s].awaited
             /\ attempts'[s].phase = "answered" => attempts'[s].answer = answer
    BY <1>1, <1>2 DEF Answers, Attempt, Free
<1>3. ASSUME NEW phase \in {"checked", "claimed"}, Moves(s, phase)
      PROVE  /\ \A t \in Slots \ {s} : attempts'[t] = attempts[t]
             /\ attempts'[s].command = attempts[s].command
             /\ attempts'[s].phase = phase
             /\ attempts'[s].awaited = attempts[s].awaited
    BY <1>1, <1>3 DEF Moves, Attempt
<1>4. CASE Check(s)
  <2>1. CASE Answers(s, "refused")
      BY <1>2, <1>4, <2>1 DEF Check, Moved, At
  <2>2. CASE Moves(s, "checked")
      BY <1>3, <1>4, <2>2 DEF Check, Moved, At
  <2> QED
      BY <1>4, <2>1, <2>2 DEF Check
<1>5. CASE Claim(s)
  <2>1. CASE KeyTaken(attempts[s].command) /\ Answers(s, "ok")
      BY <1>2, <1>5, <2>1 DEF Claim, KeyTaken, Moved, At
  <2>2. CASE Moves(s, "claimed")
      BY <1>3, <1>5, <2>2 DEF Claim, Moved, At
  <2> QED
      BY <1>5, <2>1, <2>2 DEF Claim
<1>6. CASE Work(s)
  <2>1. attempts[s].command \notin keys
      BY <1>6 DEF Work, OnceInv, ClaimedIsNew
  <2> QED
      BY <1>2, <1>6, <2>1 DEF Work, Moved, At
<1>7. CASE RollBack(s)
    BY <1>2, <1>7 DEF RollBack, Moved, At
<1>8. CASE Dies(s)
  <2>1. /\ attempts'[s].phase = "free"
        /\ \A t \in Slots \ {s} : attempts'[t] = attempts[t]
      BY <1>1, <1>8 DEF Dies, Free
  <2> QED
      BY <1>8, <2>1 DEF Dies, Moved
<1> QED
    BY <1>4, <1>5, <1>6, <1>7, <1>8 DEF ServerStep

LEMMA StillOrdered ==
    ASSUME QueueInv, UNCHANGED <<given, applied>>, discarded \subseteq discarded'
    PROVE  Ordered'
BY DEF QueueInv, Ordered

\* A document written now comes after those of all that was given before.
LEMMA WrittenInOrder ==
    ASSUME QueueInv, NEW c \in Reached, applied' = Append(applied, c),
           UNCHANGED <<given, discarded>>
    PROVE  Ordered'
<1>0. TypeOK /\ Ordered /\ LeftIsSettled /\ GivenOnce /\ QueueIsTheRest
    BY DEF QueueInv
<1>1. applied \in Seq(Commands) /\ c \in Commands
    BY <1>0, QueueFacts DEF TypeOK, ServerTypeOK
<1>2. /\ Len(applied') = Len(applied) + 1 /\ Len(applied) \in Nat
      /\ \A j \in 1..Len(applied) : applied'[j] = applied[j]
      /\ applied'[Len(applied) + 1] = c
    BY <1>1
<1>3. given' = given /\ discarded' = discarded
    OBVIOUS
<1>4. SUFFICES ASSUME NEW m \in 1..Len(given), NEW n \in 1..Len(given), NEW j \in 1..Len(applied'),
                      m < n, given[n] = applied'[j], given[m] \notin discarded
               PROVE  \E i \in 1..(j - 1) : applied'[i] = given[m]
    BY <1>3, SMTT(30) DEF Ordered
<1>5. CASE j \in 1..Len(applied)
  <2>1. PICK i \in 1..(j - 1) : applied[i] = given[m]
      BY <1>0, <1>2, <1>4, <1>5 DEF Ordered
  <2>2. i \in 1..Len(applied)
      BY <1>2, <1>5
  <2> QED
      BY <1>2, <2>1, <2>2
<1>6. CASE j \notin 1..Len(applied)
  <2>1. j = Len(applied) + 1 /\ given[n] = c
      BY <1>2, <1>4, <1>6
  <2>2. PICK k \in 1..Len(given) : k <= Gone + 1 /\ given[k] = c
      BY DEF Reached
  <2>3. k = n
      BY <1>0, <2>1, <2>2 DEF GivenOnce
  <2>4. m \in 1..Gone
      BY <1>0, <1>4, <2>2, <2>3, ListFacts
  <2>5. given[m] \in Applied
      BY <1>0, <1>4, <2>4 DEF LeftIsSettled, Left
  <2>6. PICK i \in 1..Len(applied) : applied[i] = given[m]
      BY <1>0, <2>5, ListFacts
  <2>7. i \in 1..(j - 1) /\ applied'[i] = applied[i]
      BY <1>2, <2>1
  <2> QED
      BY <2>6, <2>7
<1> QED
    BY <1>5, <1>6

LEMMA ServerStepKeeps ==
    ASSUME QueueInv, NEW s \in Slots, ServerStep(s), UNCHANGED deviceVars
    PROVE  QueueInv'
<1>0. OnceInv' /\ Moved(s)
  <2>1. [ServerNext]_serverVars
      BY DEF ServerNext
  <2> QED
      BY <2>1, StepOnce, ServerStepMoves DEF QueueInv
<1>1. TypeOK'
    BY <1>0 DEF QueueInv, TypeOK, OnceInv, deviceVars
<1>2. /\ UNCHANGED <<Gone, Left, Reached>>
      /\ QueueIsTheRest' /\ GivenOnce'
    BY DEF QueueInv, deviceVars, Gone, Left, Reached, QueueIsTheRest, GivenOnce
<1>3. SentIsReached'
    BY <1>0, <1>2 DEF QueueInv, SentIsReached, Moved, At
<1>4. attempts[s].command \in Reached
    BY <1>0 DEF QueueInv, SentIsReached, Moved
<1>5. \/ UNCHANGED <<keys, applied>> /\ Applied' = Applied
      \/ /\ keys' = keys \cup {attempts[s].command}
         /\ Applied' = Applied \cup {attempts[s].command}
         /\ applied' = Append(applied, attempts[s].command)
  <2>1. CASE UNCHANGED <<keys, applied>>
      BY <2>1 DEF Applied
  <2>2. CASE /\ keys' = keys \cup {attempts[s].command}
             /\ applied' = Append(applied, attempts[s].command)
    <3> DEFINE c == attempts[s].command
    <3>1. applied \in Seq(Commands) /\ c \in Commands /\ TypeOK
        BY <1>4, QueueFacts DEF QueueInv, TypeOK, ServerTypeOK
    <3>2. /\ Len(applied') = Len(applied) + 1 /\ Len(applied) \in Nat
          /\ \A j \in 1..Len(applied) : applied'[j] = applied[j]
          /\ applied'[Len(applied) + 1] = c
        BY <2>2, <3>1
    <3>3. Applied' = {applied'[j] : j \in 1..Len(applied')}
        BY <1>1, ListFacts DEF Applied, Fn!Range, TypeOK, ServerTypeOK
    <3>4. Applied' = Applied \cup {c}
      <4>1. Applied = {applied[j] : j \in 1..Len(applied)}
          BY <3>1, ListFacts
      <4>2. \A j \in 1..Len(applied') : j \in 1..Len(applied) \/ j = Len(applied) + 1
          BY <3>2
      <4>3. (1..Len(applied)) \subseteq 1..Len(applied') /\ Len(applied) + 1 \in 1..Len(applied')
          BY <3>2
      <4> HIDE DEF c
      <4> QED
          BY <3>2, <3>3, <4>1, <4>2, <4>3
    <3> QED
        BY <2>2, <3>4
  <2> QED
      BY <1>0, <2>1, <2>2 DEF Moved
<1>6. LeftIsSettled' /\ InItsTurn'
    BY <1>2, <1>4, <1>5 DEF QueueInv, LeftIsSettled, InItsTurn, deviceVars
<1>7. KeysTell'
    BY <1>0, <1>5 DEF QueueInv, KeysTell, Moved, At
<1>8. WaitsForHead'
    BY <1>0 DEF QueueInv, WaitsForHead, Moved, deviceVars, At
<1>9. Ordered'
  <2>1. given' = given /\ discarded' = discarded
      BY DEF deviceVars
  <2>2. CASE applied' = applied
      BY <2>1, <2>2, StillOrdered
  <2>3. CASE applied' = Append(applied, attempts[s].command)
      BY <1>4, <2>1, <2>3, WrittenInOrder
  <2> QED
      BY <1>5, <2>2, <2>3
<1> QED
    BY <1>0, <1>1, <1>2, <1>3, <1>6, <1>7, <1>8, <1>9 DEF QueueInv

-----------------------------------------------------------------------------
(* What the device does with its queue. *)

LEMMA OnceGoesOn ==
    ASSUME QueueInv, Next
    PROVE  OnceInv'
<1>1. WaitingKnown
    BY DEF QueueInv, TypeOK, WaitingKnown
<1> QED
    BY <1>1, StepIsServed, StepOnce DEF QueueInv

\* A queue that keeps its commands stands where it stood.
LEMMA QueueStands ==
    ASSUME QueueInv, Len(queue') = Len(queue), UNCHANGED given,
           \A n \in 1..Len(queue) : queue'[n].command = queue[n].command
    PROVE  /\ UNCHANGED <<Gone, Left, Reached>>
           /\ QueueIsTheRest' /\ GivenOnce'
BY DEF QueueInv, Gone, Left, Reached, QueueIsTheRest, GivenOnce

\* The head leaves the queue, and nothing else does.
LEMMA HeadLeaves ==
    ASSUME QueueInv, queue # <<>>, queue' = Without(queue[1].command), UNCHANGED given
    PROVE  /\ queue' \in Seq(Entry)
           /\ Len(queue') = Len(queue) - 1
           /\ Gone' = Gone + 1 /\ Left' = Reached /\ Reached \subseteq Reached'
           /\ QueueIsTheRest' /\ GivenOnce'
<1> DEFINE others == {e \in Entry : e.command # queue[1].command}
<1>0. TypeOK /\ QueueIsTheRest /\ GivenOnce
    BY DEF QueueInv
<1>1. queue \in Seq(Entry) /\ Len(queue) \in Nat /\ Len(queue) >= 1
    BY <1>0, QueueFacts, ListFacts DEF TypeOK
<1>2. ASSUME NEW n \in 1..Len(queue)
      PROVE  queue[n] \in others <=> n > 1
  <2>1. queue[n] \in Entry
      BY <1>0, ListFacts
  <2>2. queue[n].command = given[Gone + n] /\ queue[1].command = given[Gone + 1]
      BY <1>0, <1>1 DEF QueueIsTheRest
  <2>3. Gone + n \in 1..Len(given) /\ Gone + 1 \in 1..Len(given) /\ Gone \in Nat
      BY <1>0, <1>1, QueueFacts, ListFacts
  <2>4. given[Gone + n] = given[Gone + 1] <=> n = 1
      BY <1>0, <2>3 DEF GivenOnce
  <2> QED
      BY <2>1, <2>2, <2>4
<1>3. queue' = Kept(queue, others)
    BY DEF Without
<1> HIDE DEF others
<1>4. /\ queue' \in Seq(Entry)
      /\ Len(queue') = Len(queue) - 1
      /\ \A n \in 1..(Len(queue) - 1) : queue'[n] = queue[1 + n]
    BY <1>1, <1>2, <1>3, KeptBehind
<1>5. given' = given /\ Gone \in Nat /\ Gone + Len(queue) = Len(given) /\ Len(given) \in Nat
    BY <1>0, QueueFacts, ListFacts
<1>6. Gone' = Gone + 1 /\ Gone' <= Len(given)
    BY <1>1, <1>4, <1>5 DEF Gone
<1>7. Left' = Reached
    BY <1>5, <1>6 DEF Left, Reached
<1>8. Reached \subseteq Reached'
    BY <1>5, <1>6 DEF Reached
<1>9. QueueIsTheRest'
  <2>1. ASSUME NEW n \in 1..Len(queue')
        PROVE  queue'[n].command = given[Gone' + n]
    <3>1. n \in 1..(Len(queue) - 1) /\ 1 + n \in 1..Len(queue)
        BY <1>1, <1>4
    <3>2. queue'[n].command = given[Gone + (1 + n)]
        BY <1>0, <1>4, <3>1 DEF QueueIsTheRest
    <3> QED
        BY <1>5, <1>6, <3>1, <3>2
  <2>2. Len(queue') <= Len(given')
      BY <1>1, <1>4, <1>5
  <2> QED
      BY <1>5, <2>1, <2>2 DEF QueueIsTheRest
<1>10. GivenOnce'
    BY <1>0, <1>5 DEF GivenOnce
<1> QED
    BY <1>4, <1>6, <1>7, <1>8, <1>9, <1>10

LEMMA RefusalType ==
    ASSUME queue \in Seq(Entry), NEW c, NEW refused \in BOOLEAN,
           queue' = WithRefusal(c, refused)
    PROVE  /\ queue' \in Seq(Entry) /\ Len(queue') = Len(queue)
           /\ \A n \in 1..Len(queue) : queue'[n].command = queue[n].command
<1>1. \A n \in 1..Len(queue) : queue[n] \in Entry
    OBVIOUS
<1>2. queue' = [n \in 1..Len(queue) |->
                  IF queue[n].command = c THEN [queue[n] EXCEPT !.refused = refused] ELSE queue[n]]
    BY DEF WithRefusal
<1>3. \A n \in 1..Len(queue) : queue'[n] \in Entry /\ queue'[n].command = queue[n].command
    BY <1>1, <1>2 DEF Entry
<1>4. Len(queue) \in Nat /\ DOMAIN queue' = 1..Len(queue)
    BY <1>2
<1> QED
    BY <1>2, <1>3, <1>4

\* A copy that is let go of, or no longer waited for, tells nothing new.
Loosened(s) ==
    /\ UNCHANGED <<keys, applied>>
    /\ \A t \in Slots \ {s} : attempts'[t] = attempts[t]
    /\ \/ attempts'[s].phase = "free"
       \/ /\ attempts'[s].phase = attempts[s].phase
          /\ attempts'[s].answer = attempts[s].answer
          /\ attempts'[s].command = attempts[s].command

LEMMA GivingUpLoosens ==
    ASSUME OnceInv, NEW s \in Slots, GivesUp(s) \/ (\E answer : Takes(s, answer))
    PROVE  Loosened(s)
BY DEF OnceInv, ServerTypeOK, Attempt, GivesUp, Takes, Loosened, Free, At

LEMMA LoosenedCopies ==
    ASSUME QueueInv, NEW s \in Slots, Loosened(s), Reached \subseteq Reached'
    PROVE  SentIsReached' /\ KeysTell' /\ Applied' = Applied
<1>1. Applied' = Applied
    BY DEF Loosened, Applied
<1>2. SentIsReached'
    BY DEF QueueInv, SentIsReached, Loosened, At
<1>3. KeysTell'
    BY <1>1 DEF QueueInv, KeysTell, Loosened, At
<1> QED
    BY <1>1, <1>2, <1>3

LEMMA SameCopies ==
    ASSUME QueueInv, UNCHANGED <<keys, applied, attempts>>, Reached \subseteq Reached'
    PROVE  SentIsReached' /\ KeysTell' /\ Applied' = Applied
<1>1. Applied' = Applied
    BY DEF Applied
<1> QED
    BY <1>1 DEF QueueInv, SentIsReached, KeysTell, At

\* Nothing that is refused is waited for.
LEMMA BlockedWaitsNot ==
    ASSUME QueueInv, IsBlocked
    PROVE  waiting = NoSlot
<1>1. waiting \notin Slots
    BY QueueFacts DEF QueueInv, IsBlocked, WaitsForHead
<1> QED
    BY <1>1 DEF QueueInv, TypeOK

-----------------------------------------------------------------------------
(* One action after the other. *)

LEMMA InitQueue == Init => QueueInv
<1> SUFFICES ASSUME Init PROVE QueueInv
    OBVIOUS
<1>1. OnceInv
    BY InitOnce DEF Init
<1>2. TypeOK
  <2>1. queue \in Seq(Entry) /\ given \in Seq(Commands)
      BY DEF Init
  <2> QED
      BY <1>1, <2>1 DEF Init, TypeOK, OnceInv
<1>3. Gone = 0 /\ Left = {} /\ Reached = {} /\ Applied = {}
    BY DEF Init, ServerInit, Gone, Left, Reached, Applied, Fn!Range
<1>4. QueueIsTheRest /\ GivenOnce /\ LeftIsSettled /\ InItsTurn /\ Ordered
    BY <1>3 DEF Init, QueueIsTheRest, GivenOnce, LeftIsSettled, InItsTurn, Ordered
<1>5. SentIsReached /\ KeysTell
    BY DEF Init, ServerInit, SentIsReached, KeysTell, At, Free
<1>6. WaitsForHead
    BY SlotAssumption DEF Init, WaitsForHead
<1> QED
    BY <1>1, <1>2, <1>4, <1>5, <1>6 DEF QueueInv

LEMMA TradeKeeps == ASSUME QueueInv, OthersTrade, UNCHANGED deviceVars PROVE QueueInv'
<1>1. OnceInv' /\ UNCHANGED <<keys, applied, attempts>>
    BY OnceGoesOn DEF OthersTrade, Next, Server
<1>2. TypeOK'
    BY <1>1 DEF QueueInv, TypeOK, OnceInv, deviceVars
<1>3. UNCHANGED <<Gone, Left, Reached>> /\ QueueIsTheRest' /\ GivenOnce'
    BY QueueStands DEF deviceVars
<1>4. SentIsReached' /\ KeysTell' /\ Applied' = Applied
    BY <1>1, <1>3, SameCopies
<1>5. LeftIsSettled' /\ InItsTurn' /\ Ordered'
    BY <1>1, <1>3, <1>4, StillOrdered DEF QueueInv, LeftIsSettled, InItsTurn, deviceVars
<1>6. WaitsForHead'
    BY <1>1 DEF QueueInv, WaitsForHead, deviceVars, At
<1> QED
    BY <1>1, <1>2, <1>3, <1>4, <1>5, <1>6 DEF QueueInv

LEMMA GiveKeeps == ASSUME QueueInv, NEW c \in Commands, GiveCommand(c) PROVE QueueInv'
<1> DEFINE new == [command |-> c, refused |-> FALSE]
<1>0. TypeOK /\ QueueIsTheRest /\ GivenOnce
    BY DEF QueueInv
<1>1. OnceInv' /\ UNCHANGED <<keys, applied, attempts, discarded, waiting>>
    BY OnceGoesOn DEF GiveCommand, Next, Device
<1>2. new \in Entry /\ new.command = c
    BY DEF Entry
<1>3. /\ queue' = Append(queue, new) /\ queue \in Seq(Entry)
      /\ given' = Append(given, c) /\ given \in Seq(Commands)
      /\ c \notin Fn!Range(given)
    BY <1>0 DEF GiveCommand, TypeOK
<1> HIDE DEF new
<1>4. /\ queue' \in Seq(Entry) /\ given' \in Seq(Commands)
      /\ Len(queue') = Len(queue) + 1 /\ Len(given') = Len(given) + 1
      /\ \A n \in 1..Len(queue) : queue'[n] = queue[n]
      /\ \A n \in 1..Len(given) : given'[n] = given[n]
      /\ queue'[Len(queue) + 1] = new /\ given'[Len(given) + 1] = c
    BY <1>2, <1>3
<1>5. /\ Len(queue) \in Nat /\ Len(given) \in Nat
      /\ Gone \in Nat /\ Gone + Len(queue) = Len(given)
      /\ Fn!Range(given) = {given[n] : n \in 1..Len(given)}
    BY <1>0, QueueFacts, ListFacts
<1>6. Gone' = Gone
    BY <1>4, <1>5 DEF Gone
<1>7. Left' = Left /\ Reached \subseteq Reached'
  <2>1. \A n \in 1..Gone : n \in 1..Len(given)
      BY <1>5
  <2>2. \A n \in 1..Len(given) : n \in 1..Len(given')
      BY <1>4, <1>5
  <2> QED
      BY <1>4, <1>6, <2>1, <2>2 DEF Left, Reached
<1>8. TypeOK'
    BY <1>0, <1>1, <1>4 DEF TypeOK, OnceInv, GiveCommand
<1>9. QueueIsTheRest'
  <2>1. ASSUME NEW n \in 1..Len(queue')
        PROVE  queue'[n].command = given'[Gone + n]
    <3>1. CASE n \in 1..Len(queue)
      <4>1. Gone + n \in 1..Len(given)
          BY <1>5, <3>1
      <4> QED
          BY <1>0, <1>4, <3>1, <4>1 DEF QueueIsTheRest
    <3>2. CASE n = Len(queue) + 1
      <4>1. Gone + n = Len(given) + 1
          BY <1>5, <3>2
      <4> QED
          BY <1>2, <1>4, <3>2, <4>1
    <3> QED
        BY <1>4, <1>5, <2>1, <3>1, <3>2
  <2> QED
      BY <1>4, <1>5, <1>6, <2>1 DEF QueueIsTheRest
<1>10. GivenOnce'
  <2>1. \A n \in 1..Len(given) : given[n] # c
      BY <1>3, <1>5
  <2>2. \A n \in 1..Len(given') : n \in 1..Len(given) \/ n = Len(given) + 1
      BY <1>4, <1>5
  <2> QED
      BY <1>0, <1>4, <2>1, <2>2 DEF GivenOnce
<1>11. SentIsReached' /\ KeysTell' /\ Applied' = Applied
    BY <1>1, <1>7, SameCopies
<1>12. LeftIsSettled' /\ InItsTurn'
    BY <1>1, <1>7, <1>11 DEF QueueInv, LeftIsSettled, InItsTurn
<1>13. WaitsForHead'
  <2>1. SUFFICES ASSUME waiting' \in Slots PROVE WaitsForHead'
      BY DEF WaitsForHead
  <2>2. WaitsForHead /\ waiting = waiting' /\ queue # <<>> /\ Len(queue) > 0
      BY <1>1, <2>1, QueueFacts DEF QueueInv, WaitsForHead
  <2>3. queue'[1] = queue[1] /\ queue' # <<>>
      BY <1>3, <1>4, <1>5, <2>2
  <2> QED
      BY <1>1, <2>2, <2>3 DEF WaitsForHead, At
<1>14. Ordered'
  <2>1. SUFFICES ASSUME NEW m \in 1..Len(given'), NEW n \in 1..Len(given'), NEW j \in 1..Len(applied),
                        m < n, given'[n] = applied[j], given'[m] \notin discarded
                 PROVE  \E i \in 1..(j - 1) : applied[i] = given'[m]
      BY <1>1 DEF Ordered
  <2>2. applied[j] \in Reached
      BY <1>0, ListFacts DEF QueueInv, InItsTurn
  <2>3. PICK k \in 1..Len(given) : given[k] = applied[j]
      BY <2>2 DEF Reached
  <2>4. n \in 1..Len(given)
    <3>1. given[k] # c
        BY <1>3, <1>5
    <3>2. given'[Len(given) + 1] = c
        BY <1>4
    <3>3. Len(given') = Len(given) + 1 /\ Len(given) \in Nat
        BY <1>4, <1>5
    <3>4. n \in 1..Len(given) \/ n = Len(given) + 1
        BY <3>3
    <3> QED
        BY <2>1, <2>3, <3>1, <3>2, <3>4
  <2>5. m \in 1..Len(given) /\ given'[m] = given[m] /\ given'[n] = given[n]
      BY <1>4, <1>5, <2>1, <2>4
  <2> QED
      BY ZenonT(60), <2>1, <2>4, <2>5 DEF QueueInv, Ordered
<1> QED
    BY <1>1, <1>8, <1>9, <1>10, <1>11, <1>12, <1>13, <1>14 DEF QueueInv

LEMMA SendKeeps == ASSUME QueueInv, NEW s \in Slots, SendNext(s) PROVE QueueInv'
<1>1. OnceInv' /\ UNCHANGED <<keys, applied, queue, given, discarded>> /\ waiting' = s
    BY OnceGoesOn DEF SendNext, Sends, Next, Device
<1>2. queue # <<>> /\ ~queue[1].refused
    BY QueueFacts DEF SendNext, NextPending
<1>3. NextPending[1] = queue[1]
    BY <1>2, QueueFacts DEF SendNext, NextPending
<1>4. Sends(s, queue[1].command) /\ queue[1].command \in Reached
    BY <1>2, <1>3, QueueFacts DEF SendNext
<1>5. TypeOK'
    BY <1>1 DEF QueueInv, TypeOK, OnceInv, SendNext
<1>6. UNCHANGED <<Gone, Left, Reached>> /\ QueueIsTheRest' /\ GivenOnce' /\ Applied' = Applied
    BY <1>1, QueueStands DEF Applied
<1>7. /\ \A t \in Slots \ {s} : attempts'[t] = attempts[t]
      /\ attempts'[s] = [command |-> queue[1].command, phase |-> "sent", answer |-> "none", awaited |-> TRUE]
    BY <1>4 DEF QueueInv, OnceInv, ServerTypeOK, Sends
<1>8. SentIsReached' /\ KeysTell' /\ WaitsForHead'
    BY <1>1, <1>2, <1>4, <1>6, <1>7 DEF QueueInv, SentIsReached, KeysTell, WaitsForHead, At
<1>9. LeftIsSettled' /\ InItsTurn' /\ Ordered'
    BY <1>1, <1>6, StillOrdered DEF QueueInv, LeftIsSettled, InItsTurn
<1> QED
    BY <1>1, <1>5, <1>6, <1>8, <1>9 DEF QueueInv

\* The head leaves when it is known to be carried out, or is discarded.
LEMMA RemovalKeeps ==
    ASSUME QueueInv, OnceInv', queue # <<>>, queue' = Without(queue[1].command),
           queue[1].command \in discarded' \cup Applied,
           discarded' \subseteq discarded \cup {queue[1].command}, discarded \subseteq discarded',
           UNCHANGED <<keys, applied, given>>, waiting' = NoSlot, draining' \in BOOLEAN, UNCHANGED online,
           (\E s \in Slots : Loosened(s)) \/ UNCHANGED attempts
    PROVE  QueueInv'
<1>1. /\ queue' \in Seq(Entry)
      /\ Left' = Reached /\ Reached \subseteq Reached'
      /\ QueueIsTheRest' /\ GivenOnce'
    BY HeadLeaves
<1>2. SentIsReached' /\ KeysTell' /\ Applied' = Applied
    BY <1>1, LoosenedCopies, SameCopies
<1>3. Reached = Left \cup {queue[1].command} /\ Reached \subseteq Commands
    BY QueueFacts
<1>4. TypeOK'
    BY <1>1, <1>3 DEF QueueInv, TypeOK, OnceInv
<1>5. LeftIsSettled' /\ InItsTurn'
    BY <1>1, <1>2, <1>3 DEF QueueInv, LeftIsSettled, InItsTurn
<1>6. WaitsForHead'
    BY SlotAssumption DEF WaitsForHead
<1>7. Ordered'
    BY StillOrdered
<1> QED
    BY <1>1, <1>2, <1>4, <1>5, <1>6, <1>7 DEF QueueInv

LEMMA HearsOkKeeps == ASSUME QueueInv, NEW s \in Slots, HearsOk(s) PROVE QueueInv'
<1>1. OnceInv' /\ UNCHANGED <<keys, applied, given, discarded, draining, online>>
    BY OnceGoesOn DEF HearsOk, Hears, Takes, Next, Device
<1>2. waiting = s /\ waiting' = NoSlot /\ Takes(s, "ok")
    BY DEF HearsOk, Hears
<1>3. queue # <<>> /\ attempts[s].command = queue[1].command
    BY <1>2 DEF QueueInv, WaitsForHead
<1>4. queue' = Without(queue[1].command)
    BY <1>3 DEF HearsOk
<1>5. queue[1].command \in Applied
    BY <1>2, <1>3 DEF QueueInv, KeysTell, Takes
<1>6. Loosened(s)
    BY <1>2, GivingUpLoosens DEF QueueInv
<1>7. draining' \in BOOLEAN
    BY <1>1 DEF QueueInv, TypeOK
<1> QED
    BY <1>1, <1>2, <1>3, <1>4, <1>5, <1>6, <1>7, RemovalKeeps

LEMMA DiscardKeeps == ASSUME QueueInv, Discard PROVE QueueInv'
<1>1. OnceInv' /\ UNCHANGED <<keys, applied, attempts, given, waiting, online>> /\ draining' = TRUE
    BY OnceGoesOn DEF Discard, Next, Device
<1>2. queue # <<>> /\ Head(queue) = queue[1] /\ waiting = NoSlot
    BY BlockedWaitsNot, QueueFacts DEF Discard, IsBlocked
<1>3. queue' = Without(queue[1].command) /\ discarded' = discarded \cup {queue[1].command}
    BY <1>2 DEF Discard
<1> QED
    BY <1>1, <1>2, <1>3, RemovalKeeps

\* The queue keeps its commands, whatever becomes of its marks.
LEMMA StandingKeeps ==
    ASSUME QueueInv, OnceInv', queue' \in Seq(Entry), Len(queue') = Len(queue),
           \A n \in 1..Len(queue) : queue'[n].command = queue[n].command,
           UNCHANGED <<keys, applied, given, discarded>>, waiting' \in Slots \cup {NoSlot},
           draining' \in BOOLEAN, online' \in BOOLEAN, WaitsForHead',
           (\E s \in Slots : Loosened(s)) \/ UNCHANGED attempts
    PROVE  QueueInv'
<1>1. UNCHANGED <<Gone, Left, Reached>> /\ QueueIsTheRest' /\ GivenOnce'
    BY QueueStands
<1>2. SentIsReached' /\ KeysTell' /\ Applied' = Applied
    BY <1>1, LoosenedCopies, SameCopies
<1>3. TypeOK'
    BY DEF QueueInv, TypeOK, OnceInv
<1>4. LeftIsSettled' /\ InItsTurn'
    BY <1>1, <1>2 DEF QueueInv, LeftIsSettled, InItsTurn
<1>5. Ordered'
    BY StillOrdered
<1> QED
    BY <1>1, <1>2, <1>3, <1>4, <1>5 DEF QueueInv

LEMMA HearsRefusalKeeps == ASSUME QueueInv, NEW s \in Slots, HearsRefusal(s) PROVE QueueInv'
<1>1. OnceInv' /\ UNCHANGED <<keys, applied, given, discarded, online>> /\ draining' = FALSE
    BY OnceGoesOn DEF HearsRefusal, Hears, Takes, Next, Device
<1>2. waiting' = NoSlot /\ Takes(s, "refused")
    BY DEF HearsRefusal, Hears
<1>3. Loosened(s)
    BY <1>2, GivingUpLoosens DEF QueueInv
<1>4. /\ queue' \in Seq(Entry) /\ Len(queue') = Len(queue)
      /\ \A n \in 1..Len(queue) : queue'[n].command = queue[n].command
    BY RefusalType DEF HearsRefusal, QueueInv, TypeOK
<1>5. WaitsForHead'
    BY <1>2, SlotAssumption DEF WaitsForHead
<1>6. online' \in BOOLEAN
    BY <1>1 DEF QueueInv, TypeOK
<1> QED
    BY <1>1, <1>2, <1>3, <1>4, <1>5, <1>6, StandingKeeps

LEMMA RetryKeeps == ASSUME QueueInv, Retry PROVE QueueInv'
<1>1. OnceInv' /\ UNCHANGED <<keys, applied, attempts, given, discarded, waiting, online>> /\ draining' = TRUE
    BY OnceGoesOn DEF Retry, Next, Device
<1>2. waiting = NoSlot
    BY BlockedWaitsNot DEF Retry
<1>4. /\ queue' \in Seq(Entry) /\ Len(queue') = Len(queue)
      /\ \A n \in 1..Len(queue) : queue'[n].command = queue[n].command
    BY RefusalType DEF Retry, QueueInv, TypeOK
<1>5. WaitsForHead'
    BY <1>1, <1>2, SlotAssumption DEF WaitsForHead
<1>6. online' \in BOOLEAN
    BY <1>1 DEF QueueInv, TypeOK
<1> QED
    BY <1>1, <1>2, <1>4, <1>5, <1>6, StandingKeeps

\* A restart, a failure, and what the browser says of the network.
LEMMA QueueUntouched ==
    ASSUME QueueInv, LoopEnds \/ GoesOffline \/ GoesOnline \/ Restart \/ \E s \in Slots : HearsNothing(s)
    PROVE  QueueInv'
<1>1. OnceInv'
    BY OnceGoesOn DEF Next, Device
<1>2. UNCHANGED <<keys, applied, queue, given, discarded>>
    BY DEF LoopEnds, GoesOffline, GoesOnline, Restart, HearsNothing, GivesUp, serverVars
<1>3. /\ queue' \in Seq(Entry) /\ Len(queue') = Len(queue)
      /\ \A n \in 1..Len(queue) : queue'[n].command = queue[n].command
    BY <1>2 DEF QueueInv, TypeOK
<1>4. draining' \in BOOLEAN /\ online' \in BOOLEAN
    BY DEF QueueInv, TypeOK, LoopEnds, GoesOffline, GoesOnline, Restart, HearsNothing
<1>5. CASE UNCHANGED <<attempts, waiting>>
  <2>1. WaitsForHead' /\ waiting' \in Slots \cup {NoSlot}
      BY <1>2, <1>5 DEF QueueInv, TypeOK, WaitsForHead, At
  <2> QED
      BY <1>1, <1>2, <1>3, <1>4, <1>5, <2>1, StandingKeeps
<1>6. CASE waiting' = NoSlot /\ (UNCHANGED attempts \/ \E s \in Slots : GivesUp(s))
  <2>1. WaitsForHead'
      BY <1>6, SlotAssumption DEF WaitsForHead
  <2>2. (\E s \in Slots : Loosened(s)) \/ UNCHANGED attempts
      BY <1>6, GivingUpLoosens DEF QueueInv
  <2> QED
      BY <1>1, <1>2, <1>3, <1>4, <1>6, <2>1, <2>2, StandingKeeps
<1>7. CASE Restart
  <2>1. waiting \in Slots \cup {NoSlot}
      BY DEF QueueInv, TypeOK
  <2> QED
      BY <1>6, <1>7, <2>1 DEF Restart, serverVars
<1>8. CASE \E s \in Slots : HearsNothing(s)
    BY <1>6, <1>8 DEF HearsNothing
<1> QED
    BY <1>5, <1>7, <1>8 DEF LoopEnds, GoesOffline, GoesOnline

LEMMA StepQueue == QueueInv /\ [Next]_vars => QueueInv'
<1> SUFFICES ASSUME QueueInv, [Next]_vars PROVE QueueInv'
    OBVIOUS
<1>1. CASE Server
    BY <1>1, ServerStepKeeps, TradeKeeps DEF Server
<1>2. CASE Device
    BY <1>2, GiveKeeps, SendKeeps, HearsOkKeeps, HearsRefusalKeeps, RetryKeeps, DiscardKeeps,
       QueueUntouched DEF Device
<1>3. CASE UNCHANGED vars
  <2>1. [ServerNext]_serverVars
      BY <1>3 DEF vars, serverVars
  <2>2. OnceInv'
      BY <2>1, StepOnce DEF QueueInv
  <2>3. WaitsForHead'
      BY <1>3 DEF vars, QueueInv, WaitsForHead, At
  <2> QED
      BY <1>3, <2>2, <2>3, StandingKeeps DEF vars, QueueInv, TypeOK
<1> QED
    BY <1>1, <1>2, <1>3 DEF Next

LEMMA QueueAlways == Spec => []QueueInv
    BY InitQueue, StepQueue, PTL DEF Spec

-----------------------------------------------------------------------------
\* The state of the device and of the server keeps its shape, and the server
\* never counts below nothing (applyStockDelta, saveOutbox).
THEOREM OutboxTypes == Spec => []TypeOK
<1>1. QueueInv => TypeOK
    BY DEF QueueInv
<1> QED
    BY <1>1, QueueAlways, PTL

\* A command that is neither in the queue nor discarded was carried out,
\* whatever was lost, restarted or cut off (markSent, discardCommand).
THEOREM NoCommandLost == Spec => []NoneLost
<1>1. ASSUME QueueInv, NEW c \in Fn!Range(given) \ discarded
      PROVE  c \in Queued \cup Fn!Range(applied)
  <2>1. /\ TypeOK /\ QueueIsTheRest /\ LeftIsSettled
        /\ Gone \in Nat /\ Gone + Len(queue) = Len(given)
      BY <1>1, QueueFacts DEF QueueInv
  <2>2. PICK n \in 1..Len(given) : given[n] = c
      BY <1>1, <2>1, ListFacts
  <2>3. CASE n \in 1..Gone
      BY <1>1, <2>1, <2>2, <2>3 DEF LeftIsSettled, Left, Applied
  <2>4. CASE n \notin 1..Gone
    <3>1. n - Gone \in 1..Len(queue) /\ Gone + (n - Gone) = n
        BY <2>1, <2>2, <2>4, ListFacts
    <3> QED
        BY <2>1, <2>2, <3>1 DEF QueueIsTheRest, Queued
  <2> QED
      BY <2>3, <2>4
<1>2. QueueInv => NoneLost
    BY <1>1 DEF NoneLost
<1> QED
    BY <1>2, QueueAlways, PTL

\* Of two commands that were carried out, the one given first was first,
\* unless a person had discarded it (nextPending).
THEOREM OrderAlwaysKept == Spec => []OrderKept
<1>1. ASSUME QueueInv, NEW c \in Fn!Range(given) \ discarded, NEW d \in Fn!Range(given),
             Before(c, d, given), d \in Fn!Range(applied)
      PROVE  Before(c, d, applied)
  <2>1. TypeOK /\ Ordered
      BY <1>1 DEF QueueInv
  <2>2. PICK m \in 1..Len(given), n \in 1..Len(given) : m < n /\ given[m] = c /\ given[n] = d
      BY <1>1 DEF Before
  <2>3. PICK j \in 1..Len(applied) : applied[j] = d
      BY <1>1, <2>1, ListFacts DEF Applied
  <2>4. PICK i \in 1..(j - 1) : applied[i] = c
      BY <1>1, <2>1, <2>2, <2>3 DEF Ordered
  <2>5. i \in 1..Len(applied) /\ i < j
      BY <2>1, ListFacts
  <2> QED
      BY <2>3, <2>4, <2>5 DEF Before
<1>2. QueueInv => OrderKept
    BY <1>1 DEF OrderKept
<1> QED
    BY <1>2, QueueAlways, PTL

\* What stands behind a refused command is not carried out by anything that
\* happens (nextPending, isBlocked).
THEOREM RefusalAlwaysFreezes == Spec => RefusalFreezes
<1> DEFINE Frozen == \A c \in Queued :
                        IsBlocked /\ c # Head(queue).command
                        => (c \in Fn!Range(applied) <=> c \in Fn!Range(applied'))
<1>1. ASSUME QueueInv, [Next]_vars
      PROVE  [Frozen]_vars
  <2>1. CASE \E s \in Slots : ServerStep(s) /\ UNCHANGED deviceVars
    <3>1. PICK s \in Slots : ServerStep(s) /\ UNCHANGED deviceVars
        BY <2>1
    <3>2. Moved(s) /\ TypeOK /\ QueueIsTheRest /\ GivenOnce
        BY <1>1, <3>1, ServerStepMoves DEF QueueInv
    <3>3. attempts[s].command \in Reached /\ TypeOK'
        BY <1>1, <3>1, <3>2, ServerStepKeeps DEF QueueInv, SentIsReached, Moved
    <3>4. ASSUME NEW c \in Queued, IsBlocked, c # Head(queue).command
          PROVE  c \notin Reached
      <4>1. queue # <<>> /\ c # queue[1].command
          BY <1>1, <3>4, QueueFacts DEF IsBlocked
      <4>2. PICK n \in 1..Len(queue) : c = queue[n].command
          BY DEF Queued
      <4>3. /\ n > 1 /\ c = given[Gone + n] /\ Gone \in Nat
            /\ Gone + n \in 1..Len(given) /\ Gone + n > Gone + 1
          BY <1>1, <3>2, <4>1, <4>2, QueueFacts, ListFacts DEF QueueIsTheRest
      <4> QED
          BY <3>2, <4>3 DEF Reached, GivenOnce
    <3>5. Applied' \subseteq Applied \cup {attempts[s].command} /\ Applied \subseteq Applied'
      <4>1. CASE UNCHANGED applied
          BY <4>1 DEF Applied
      <4>2. CASE applied' = Append(applied, attempts[s].command)
        <5>1. applied \in Seq(Commands) /\ attempts[s].command \in Commands
            BY <1>1, <3>2, <3>3, QueueFacts DEF TypeOK, ServerTypeOK
        <5>2. /\ Len(applied') = Len(applied) + 1 /\ Len(applied) \in Nat
              /\ \A j \in 1..Len(applied) : applied'[j] = applied[j]
              /\ applied'[Len(applied) + 1] = attempts[s].command
              /\ DOMAIN applied' = 1..Len(applied') /\ DOMAIN applied = 1..Len(applied)
            BY <4>2, <5>1
        <5>3. \A j \in 1..Len(applied') : j \in 1..Len(applied) \/ j = Len(applied) + 1
            BY <5>2
        <5>4. \A j \in 1..Len(applied) : j \in 1..Len(applied')
            BY <5>2
        <5> QED
            BY <5>2, <5>3, <5>4 DEF Applied, Fn!Range
      <4> QED
          BY <3>2, <4>1, <4>2 DEF Moved
    <3> QED
        BY <3>3, <3>4, <3>5 DEF Applied
  <2>2. CASE UNCHANGED applied
      BY <2>2
  <2>3. CASE Device
    <3>1. UNCHANGED applied
        BY <2>3 DEF Device, GiveCommand, LoopEnds, SendNext, Sends, HearsOk, HearsRefusal, Hears, Takes,
           HearsNothing, GivesUp, GoesOffline, GoesOnline, Restart, serverVars, Retry, Discard
    <3> QED
        BY <2>2, <3>1
  <2> QED
      BY <1>1, <2>1, <2>2, <2>3 DEF Next, Server, OthersTrade, vars
<1>2. QueueInv /\ [Next]_vars => [Frozen]_vars
    BY <1>1
<1>3. RefusalFreezes <=> [][Frozen]_vars
    BY DEF RefusalFreezes
<1> QED
    BY <1>2, <1>3, QueueAlways, PTL DEF Spec

-----------------------------------------------------------------------------
(* The queue as a list of commands to carry out. *)

Todo == Kept(given, Commands \ (discarded \cup Applied))
Dropped == discarded \ Applied

\* The first of the commands given that is still to be carried out: the head of
\* the queue, or the one after it when its answer is still awaited or was lost.
Done == IF queue # <<>> /\ queue[1].command \in Applied THEN Gone + 1 ELSE Gone

RestIsTodo ==
    /\ Done \in 0..Len(given)
    /\ Todo \in Seq(Commands) /\ Len(Todo) = Len(given) - Done
    /\ \A n \in 1..(Len(given) - Done) : Todo[n] = given[Done + n]

LEMMA TodoIsTheRest == QueueInv => RestIsTodo
<1> SUFFICES ASSUME QueueInv PROVE RestIsTodo
    OBVIOUS
<1>1. TypeOK /\ GivenOnce /\ LeftIsSettled /\ InItsTurn
    BY DEF QueueInv
<1>2. Gone \in Nat /\ Gone <= Len(given) /\ Len(given) \in Nat /\ given \in Seq(Commands)
    BY <1>1, QueueFacts, ListFacts DEF TypeOK
<1>3. Done \in 0..Len(given)
    BY <1>1, <1>2, QueueFacts, ListFacts DEF Done
<1>4. ASSUME NEW n \in 1..Len(given)
      PROVE  given[n] \in Commands \ (discarded \cup Applied) <=> n > Done
  <2>1. given[n] \in Commands
      BY <1>1, ListFacts
  <2>2. given[n] \in Left <=> n <= Gone
      BY <1>1, <1>2 DEF Left, GivenOnce
  <2>3. given[n] \in Reached <=> n <= Gone + 1
      BY <1>1, <1>2 DEF Reached, GivenOnce
  <2>4. CASE n <= Gone
      BY <1>1, <1>2, <2>2, <2>4 DEF LeftIsSettled, Done
  <2>5. CASE n = Gone + 1
    <3>1. queue # <<>> /\ given[n] = queue[1].command
        BY <1>2, <2>5, QueueFacts
    <3>2. given[n] \notin discarded
        BY <1>1, <1>2, <2>2, <2>5 DEF InItsTurn
    <3> QED
        BY <1>2, <2>1, <2>5, <3>1, <3>2 DEF Done
  <2>6. CASE n > Gone + 1
    <3>1. given[n] \notin discarded \cup Applied
        BY <1>1, <1>2, <2>2, <2>3, <2>6 DEF InItsTurn
    <3> QED
        BY <1>2, <2>1, <2>6, <3>1 DEF Done
  <2> QED
      BY <1>2, <2>4, <2>5, <2>6
<1> DEFINE S == Commands \ (discarded \cup Applied)
<1>5. /\ Kept(given, S) \in Seq(Commands) /\ Len(Kept(given, S)) = Len(given) - Done
      /\ \A n \in 1..(Len(given) - Done) : Kept(given, S)[n] = given[Done + n]
  <2> HIDE DEF S
  <2>1. \A n \in 1..Len(given) : given[n] \in S <=> n > Done
      BY <1>4 DEF S
  <2> QED
      BY ZenonT(60), <1>2, <1>3, <2>1, KeptBehind
<1> QED
    BY <1>3, <1>5 DEF Todo, RestIsTodo

LEMMA TodoWillBeTheRest == QueueInv' => RestIsTodo'
    BY TodoIsTheRest, PTL

\* The list of what is to be done, when one more of the commands is settled.
LEMMA OneMoreDone ==
    ASSUME QueueInv, QueueInv', UNCHANGED given, Done' = Done + 1
    PROVE  /\ Todo # <<>> /\ Head(Todo) = given[Done + 1]
           /\ Todo' = Tail(Todo)
<1>1. /\ Todo \in Seq(Commands) /\ Todo' \in Seq(Commands)
      /\ Len(Todo) = Len(given) - Done /\ Len(Todo') = Len(given) - (Done + 1)
      /\ \A n \in 1..(Len(given) - Done) : Todo[n] = given[Done + n]
      /\ \A n \in 1..(Len(given) - (Done + 1)) : Todo'[n] = given[(Done + 1) + n]
      /\ Done \in Nat /\ Done + 1 <= Len(given) /\ Len(given) \in Nat
  <2>1. given' = given /\ Len(given) \in Nat
      BY ListFacts DEF QueueInv
  <2>2. /\ Todo' \in Seq(Commands) /\ Len(Todo') = Len(given') - Done'
        /\ \A n \in 1..(Len(given') - Done') : Todo'[n] = given'[Done' + n]
        /\ Done' \in 0..Len(given')
      BY TodoWillBeTheRest DEF RestIsTodo
  <2> QED
      BY <2>1, <2>2, TodoIsTheRest DEF RestIsTodo
<1>2. Todo # <<>> /\ Head(Todo) = given[Done + 1]
    BY <1>1
<1>3. /\ Tail(Todo) \in Seq(Commands) /\ Len(Tail(Todo)) = Len(Todo) - 1
      /\ \A n \in 1..(Len(Todo) - 1) : Tail(Todo)[n] = Todo[n + 1]
    BY <1>1, <1>2, HeadTailProperties
<1>4. Len(Todo') = Len(Tail(Todo)) /\ Len(Todo') \in Nat
    BY <1>1, <1>3
<1>5. \A n \in 1..Len(Todo') : Todo'[n] = Tail(Todo)[n]
  <2> TAKE n \in 1..Len(Todo')
  <2>1. n \in 1..(Len(Todo) - 1) /\ n + 1 \in 1..(Len(given) - Done) /\ Done + (n + 1) = (Done + 1) + n
        /\ n \in 1..(Len(given) - (Done + 1))
      BY <1>1, <1>4
  <2> QED
      BY <1>1, <1>3, <2>1
<1> QED
    BY <1>1, <1>2, <1>3, <1>4, <1>5, SeqEqual

LEMMA NoneMoreDone ==
    ASSUME QueueInv, QueueInv', UNCHANGED given, Done' = Done
    PROVE  Todo' = Todo
<1>1. /\ Todo \in Seq(Commands) /\ Todo' \in Seq(Commands)
      /\ Len(Todo) = Len(given) - Done /\ Len(Todo') = Len(given) - Done
      /\ \A n \in 1..(Len(given) - Done) : Todo[n] = given[Done + n]
      /\ \A n \in 1..(Len(given) - Done) : Todo'[n] = given[Done + n]
  <2>1. given' = given
      OBVIOUS
  <2>2. /\ Todo' \in Seq(Commands) /\ Len(Todo') = Len(given') - Done'
        /\ \A n \in 1..(Len(given') - Done') : Todo'[n] = given'[Done' + n]
      BY TodoWillBeTheRest DEF RestIsTodo
  <2> QED
      BY <2>1, <2>2, TodoIsTheRest DEF RestIsTodo
<1> QED
    BY <1>1, SeqEqual

\* A command that is written down: it was the first of the list, or had been
\* taken off it.
LEMMA WorkIsDone ==
    ASSUME QueueInv, QueueInv', NEW s \in Slots, ServerStep(s), UNCHANGED deviceVars, applied' # applied
    PROVE  Book!Do \/ Book!DoLate
<1> DEFINE c == attempts[s].command
<1>1. Moved(s) /\ given' = given /\ discarded' = discarded /\ queue' = queue
    BY ServerStepMoves DEF QueueInv, deviceVars
<1>2. /\ c \notin keys /\ applied' = Append(applied, c) /\ c \in Reached
    BY <1>1 DEF Moved, QueueInv, SentIsReached
<1>3. c \notin Applied /\ c \in Commands
  <2>1. Applied \subseteq keys
      BY ListFacts DEF QueueInv, OnceInv, AppliedIsKeyed
  <2> QED
      BY <1>2, <2>1, QueueFacts
<1>4. Applied' = Applied \cup {c}
  <2>1. applied \in Seq(Commands)
      BY DEF QueueInv, TypeOK, ServerTypeOK
  <2>2. /\ Len(applied') = Len(applied) + 1 /\ Len(applied) \in Nat
        /\ \A j \in 1..Len(applied) : applied'[j] = applied[j]
        /\ applied'[Len(applied) + 1] = c
        /\ DOMAIN applied' = 1..Len(applied') /\ DOMAIN applied = 1..Len(applied)
      BY <1>2, <1>3, <2>1
  <2>3. \A j \in 1..Len(applied') : j \in 1..Len(applied) \/ j = Len(applied) + 1
      BY <2>2
  <2>4. (\A j \in 1..Len(applied) : j \in 1..Len(applied')) /\ Len(applied) + 1 \in 1..Len(applied')
      BY <2>2
  <2> HIDE DEF c
  <2> QED
      BY <2>2, <2>3, <2>4 DEF Applied, Fn!Range
<1>5. Gone' = Gone
    BY <1>1 DEF Gone
<1> HIDE DEF c
<1>6. CASE c \in discarded
  <2>1. queue # <<>> => queue[1].command \in Applied' <=> queue[1].command \in Applied
      BY <1>4, <1>6, QueueFacts DEF QueueInv, InItsTurn
  <2>2. Done' = Done
      BY <1>1, <1>5, <2>1 DEF Done
  <2>3. Todo' = Todo
      BY <1>1, <2>2, NoneMoreDone
  <2>4. c \in Dropped /\ Dropped' = Dropped \ {c}
      BY <1>1, <1>3, <1>4, <1>6 DEF Dropped
  <2> QED
      BY <1>2, <2>3, <2>4 DEF Book!DoLate, Todo, Dropped, Applied
<1>7. CASE c \notin discarded
  <2>1. c \notin Left
      BY <1>3, <1>7 DEF QueueInv, LeftIsSettled
  <2>2. queue # <<>>
    <3>1. CASE queue = <<>>
      <4>1. Reached = Left
          BY <3>1, QueueFacts, ListFacts DEF QueueInv, Reached, Left
      <4> QED
          BY <1>2, <2>1, <4>1
    <3> QED
        BY <3>1
  <2>3. c = given[Gone + 1] /\ c = queue[1].command
      BY <1>2, <2>1, <2>2, QueueFacts
  <2>4. Done = Gone /\ Done' = Gone + 1
      BY <1>1, <1>3, <1>4, <1>5, <2>2, <2>3 DEF Done
  <2>5. Todo # <<>> /\ Head(Todo) = c /\ Todo' = Tail(Todo)
      BY <1>1, <2>3, <2>4, OneMoreDone
  <2>6. Dropped' = Dropped
      BY <1>1, <1>4, <1>7 DEF Dropped
  <2> QED
      BY <1>2, <2>5, <2>6 DEF Book!Do, Todo, Dropped, Applied
<1> QED
    BY <1>6, <1>7

LEMMA GiveIsGiven ==
    ASSUME QueueInv, QueueInv', NEW c \in Commands, GiveCommand(c)
    PROVE  Book!Give(c)
<1>1. /\ given' = Append(given, c) /\ given \in Seq(Commands) /\ c \notin Fn!Range(given)
      /\ queue' = Append(queue, [command |-> c, refused |-> FALSE]) /\ queue \in Seq(Entry)
      /\ Len(queue) \in Nat /\ Len(given) \in Nat
      /\ UNCHANGED <<applied, discarded>> /\ Applied' = Applied
    BY ListFacts DEF GiveCommand, QueueInv, TypeOK, Applied
<1>2. Len(queue') = Len(queue) + 1 /\ Len(given') = Len(given) + 1 /\ Gone' = Gone
  <2>1. [command |-> c, refused |-> FALSE] \in Entry
      BY DEF Entry
  <2>2. Len(queue') = Len(queue) + 1
      BY <1>1, <2>1
  <2>3. Len(given') = Len(given) + 1
      BY <1>1
  <2> QED
      BY <1>1, <2>2, <2>3 DEF Gone
<1>3. Applied \cup discarded \subseteq Fn!Range(given)
  <2>1. TypeOK /\ InItsTurn
      BY DEF QueueInv
  <2> QED
      BY <2>1, QueueFacts, ListFacts DEF InItsTurn, Left, Reached
<1>4. Done' = Done
  <2>1. CASE queue = <<>>
    <3>1. queue'[1].command = c
        BY <1>1, <2>1
    <3>2. c \notin Applied
        BY <1>1, <1>3
    <3> QED
        BY <1>1, <1>2, <2>1, <3>1, <3>2 DEF Done
  <2>2. CASE queue # <<>>
    <3>1. queue'[1] = queue[1] /\ queue' # <<>>
        BY <1>1, <2>2
    <3> QED
        BY <1>1, <1>2, <2>2, <3>1 DEF Done
  <2> QED
      BY <2>1, <2>2
<1>5. /\ Done \in Nat /\ Done <= Len(given)
      /\ Todo \in Seq(Commands) /\ Len(Todo) = Len(given) - Done
      /\ \A n \in 1..(Len(given) - Done) : Todo[n] = given[Done + n]
    BY <1>1, TodoIsTheRest DEF RestIsTodo
<1>6. /\ Todo' \in Seq(Commands) /\ Len(Todo') = (Len(given) + 1) - Done
      /\ \A n \in 1..((Len(given) + 1) - Done) : Todo'[n] = given'[Done + n]
    BY <1>2, <1>4, TodoWillBeTheRest DEF RestIsTodo
<1>7. Todo' = Append(Todo, c)
  <2>1. /\ Append(Todo, c) \in Seq(Commands) /\ Len(Append(Todo, c)) = Len(Todo) + 1
        /\ \A n \in 1..Len(Todo) : Append(Todo, c)[n] = Todo[n]
        /\ Append(Todo, c)[Len(Todo) + 1] = c
      BY <1>5, AppendProperties
  <2>2. /\ \A n \in 1..Len(given) : given'[n] = given[n]
        /\ given'[Len(given) + 1] = c
      BY <1>1
  <2>3. Len(Todo') = Len(Append(Todo, c))
      BY <1>1, <1>5, <1>6, <2>1
  <2>4. \A n \in 1..Len(Todo') : Todo'[n] = Append(Todo, c)[n]
    <3> TAKE n \in 1..Len(Todo')
    <3>1. CASE n \in 1..Len(Todo)
      <4>1. n \in 1..(Len(given) - Done) /\ n \in 1..((Len(given) + 1) - Done) /\ Done + n \in 1..Len(given)
          BY <1>1, <1>5, <3>1
      <4> QED
          BY <1>5, <1>6, <2>1, <2>2, <3>1, <4>1
    <3>2. CASE n = Len(Todo) + 1
      <4>1. n \in 1..((Len(given) + 1) - Done) /\ Done + n = Len(given) + 1
          BY <1>1, <1>5, <3>2
      <4> QED
          BY <1>6, <2>1, <2>2, <3>2, <4>1
    <3>3. Len(Todo) \in Nat /\ n \in 1..(Len(Todo) + 1)
        BY <1>5, <2>1, <2>3
    <3> QED
        BY <3>1, <3>2, <3>3
  <2> QED
      BY <1>6, <2>1, <2>3, <2>4, SeqEqual
<1>8. Fn!Range(Todo) \subseteq Fn!Range(given)
  <2>1. \A n \in 1..Len(Todo) : n \in 1..(Len(given) - Done) /\ Done + n \in 1..Len(given)
      BY <1>1, <1>5
  <2>2. Fn!Range(given) = {given[n] : n \in 1..Len(given)}
      BY ListFacts DEF QueueInv
  <2>3. Fn!Range(Todo) = {Todo[n] : n \in 1..Len(Todo)}
      BY <1>5 DEF Fn!Range
  <2> QED
      BY <1>5, <2>1, <2>2, <2>3
<1>9. c \notin Fn!Range(Todo) \cup Dropped \cup Applied
    BY <1>1, <1>3, <1>8 DEF Dropped
<1>10. UNCHANGED <<Dropped, applied>>
    BY <1>1 DEF Dropped
<1> QED
    BY <1>7, <1>9, <1>10 DEF Book!Give, Todo, Dropped, Applied, Book!Fn!Range, Fn!Range

\* The head leaves the queue carried out, or is dropped.
LEMMA HeadGoes ==
    ASSUME QueueInv, QueueInv', queue # <<>>, queue' = Without(queue[1].command),
           discarded' \subseteq discarded \cup {queue[1].command}, discarded \subseteq discarded',
           queue[1].command \in discarded' \cup Applied,
           UNCHANGED <<applied, given>>
    PROVE  Book!Drop \/ UNCHANGED <<Todo, Dropped, applied>>
<1> DEFINE h == queue[1].command
<1>1. Gone' = Gone + 1 /\ Gone \in Nat
    BY HeadLeaves, QueueFacts
<1>2. Applied' = Applied
    BY DEF Applied
<1>3. Done' = Gone + 1
  <2>1. queue' # <<>> => queue'[1].command \notin Applied'
    <3> SUFFICES ASSUME queue' # <<>> PROVE queue'[1].command \notin Applied
        BY <1>2
    <3>1. /\ QueueIsTheRest' /\ Len(queue') = Len(queue) - 1 /\ queue' \in Seq(Entry)
        BY HeadLeaves
    <3>2. 1 \in 1..Len(queue') /\ Len(queue) \in Nat
        BY <3>1, ListFacts DEF QueueInv
    <3>3. queue'[1].command = given[Gone + 2]
        BY <1>1, <3>1, <3>2 DEF QueueIsTheRest
    <3>4. Gone + 2 \in 1..Len(given)
        BY <1>1, <3>1, <3>2, QueueFacts, ListFacts DEF QueueInv
    <3>5. given[Gone + 2] \notin Reached
        BY <1>1, <3>4 DEF QueueInv, GivenOnce, Reached
    <3> QED
        BY <3>3, <3>5 DEF QueueInv, InItsTurn
  <2> QED
      BY <1>1, <2>1 DEF Done
<1>4. h = given[Gone + 1]
    BY QueueFacts
<1>5. CASE h \in Applied
  <2>1. Done = Gone + 1
      BY <1>5 DEF Done
  <2>2. Todo' = Todo
      BY <1>3, <2>1, NoneMoreDone
  <2>3. Dropped' = Dropped
      BY <1>2, <1>5 DEF Dropped
  <2> QED
      BY <2>2, <2>3
<1>6. CASE h \notin Applied
  <2>1. Done = Gone
      BY <1>6 DEF Done
  <2>2. Todo # <<>> /\ Head(Todo) = h /\ Todo' = Tail(Todo)
      BY <1>1, <1>3, <1>4, <2>1, OneMoreDone
  <2>3. Dropped' = Dropped \cup {h}
      BY <1>2, <1>6 DEF Dropped
  <2> QED
      BY <2>2, <2>3 DEF Book!Drop, Todo, Dropped, Applied
<1> QED
    BY <1>5, <1>6

\* Whatever else happens, the list stays as it is.
LEMMA ListStands ==
    ASSUME QueueInv, QueueInv', UNCHANGED <<given, discarded, applied>>, Len(queue') = Len(queue),
           \A n \in 1..Len(queue) : queue'[n].command = queue[n].command
    PROVE  UNCHANGED <<Todo, Dropped, applied>>
<1>1. Applied' = Applied
    BY DEF Applied
<1> QED
    BY <1>1 DEF Todo, Dropped

LEMMA StepIsBooked ==
    ASSUME QueueInv, QueueInv', [Next]_vars
    PROVE  Book!Next \/ UNCHANGED <<Todo, Dropped, applied>>
<1>1. ASSUME NEW s \in Slots, ServerStep(s), UNCHANGED deviceVars
      PROVE  Book!Next \/ UNCHANGED <<Todo, Dropped, applied>>
  <2>1. CASE applied' = applied
      BY <1>1, <2>1, ListStands DEF deviceVars
  <2> QED
      BY <1>1, <2>1, WorkIsDone DEF Book!Next
<1>2. ASSUME NEW c \in Commands, GiveCommand(c)
      PROVE  Book!Next
    BY <1>2, GiveIsGiven DEF Book!Next
<1>3. ASSUME NEW s \in Slots, HearsOk(s)
      PROVE  Book!Next \/ UNCHANGED <<Todo, Dropped, applied>>
  <2>1. waiting = s /\ Takes(s, "ok") /\ UNCHANGED <<applied, given, discarded>>
      BY <1>3 DEF HearsOk, Hears, Takes
  <2>2. queue # <<>> /\ attempts[s].command = queue[1].command
      BY <2>1 DEF QueueInv, WaitsForHead
  <2>3. queue' = Without(queue[1].command)
      BY <1>3, <2>2 DEF HearsOk
  <2>4. queue[1].command \in Applied
      BY <2>1, <2>2 DEF QueueInv, KeysTell, Takes
  <2> QED
      BY <2>1, <2>2, <2>3, <2>4, HeadGoes DEF Book!Next
<1>4. CASE Discard
  <2>1. queue # <<>> /\ Head(queue) = queue[1] /\ UNCHANGED <<applied, given>>
      BY <1>4, QueueFacts DEF Discard, IsBlocked
  <2>2. queue' = Without(queue[1].command) /\ discarded' = discarded \cup {queue[1].command}
      BY <1>4, <2>1 DEF Discard
  <2> QED
      BY <2>1, <2>2, HeadGoes DEF Book!Next
<1>5. CASE Retry \/ \E s \in Slots : HearsRefusal(s)
  <2>1. UNCHANGED <<given, discarded, applied>>
      BY <1>5 DEF Retry, HearsRefusal, Hears, Takes
  <2>2. Len(queue') = Len(queue) /\ \A n \in 1..Len(queue) : queue'[n].command = queue[n].command
      BY <1>5, RefusalType DEF Retry, HearsRefusal, QueueInv, TypeOK
  <2> QED
      BY <2>1, <2>2, ListStands
<1>6. CASE UNCHANGED <<given, discarded, applied, queue>>
    BY <1>6, ListStands
<1>7. CASE LoopEnds \/ GoesOffline \/ GoesOnline \/ Restart \/ \E s \in Slots : SendNext(s) \/ HearsNothing(s)
    BY <1>6, <1>7 DEF LoopEnds, GoesOffline, GoesOnline, Restart, SendNext, Sends, HearsNothing, GivesUp, serverVars
<1>8. CASE OthersTrade /\ UNCHANGED deviceVars
    BY <1>6, <1>8 DEF OthersTrade, deviceVars
<1> QED
    BY <1>1, <1>2, <1>3, <1>4, <1>5, <1>6, <1>7, <1>8 DEF Next, Server, Device, vars

\* The device and the server together do what a list of commands does that is
\* carried out from its head, each command once.
THEOREM BookAlwaysKept == Spec => KeepsTheBook
<1>1. Init => Book!Init
  <2> SUFFICES ASSUME Init PROVE Book!Init
      OBVIOUS
  <2>1. QueueInv /\ Len(given) = 0 /\ applied = <<>>
      BY InitQueue DEF Init, ServerInit
  <2>2. Todo \in Seq(Commands) /\ Len(Todo) = 0
      BY <2>1, TodoIsTheRest DEF RestIsTodo
  <2>3. Todo = <<>>
      BY <2>2
  <2>4. Dropped = {}
      BY DEF Init, Dropped
  <2> QED
      BY <2>1, <2>3, <2>4 DEF Book!Init, Todo, Dropped, Applied
<1>2. QueueInv /\ QueueInv' /\ [Next]_vars => [Book!Next]_(Book!vars)
    BY StepIsBooked DEF Book!vars, Todo, Dropped, Applied
<1> QED
    BY <1>1, <1>2, QueueAlways, PTL DEF Spec, KeepsTheBook, Book!Spec
=============================================================================

-------------------------- MODULE FiscalQueueProofs --------------------------
(***************************************************************************)
(* However many passes of the worker overlap, die or hear nothing, and     *)
(* whatever is typed in beside them: a receipt is filed under one key at   *)
(* most, and one shown as fiscalised was filed or comes off a slip.  For   *)
(* any number of points, passes, tries and receipts.                       *)
(*                                                                         *)
(* What a pass has in its list is not asked there: the argument needs only *)
(* that the key is made of the receipt alone, and that a pass which has a  *)
(* number in hand has it for the receipt at the head of its list.  How     *)
(* often a receipt is tried does depend on the lists; the second           *)
(* invariant, below, is about them.                                        *)
(***************************************************************************)
EXTENDS FiscalQueue, CollectionsProofs

\* Nothing is said of how often a receipt was tried, nor of what is in a list.
Receipt(r) ==
    r \in [at : {r.at}, status : {r.status}, attempts : {r.attempts},
           rested : {r.rested}, number : {r.number}]
Pass(p) == p \in [pc : {p.pc}, list : {p.list}, answer : {p.answer}]

Shapes ==
    /\ Len(queue) \in Nat /\ queue = [i \in 1..Len(queue) |-> queue[i]]
    /\ \A i \in 1..Len(queue) : Receipt(queue[i])
    /\ pass = [d \in Drains |-> pass[d]] /\ \A d \in Drains : Pass(pass[d])

\* Every key the provider knows is the key of a receipt, whichever try it was.
KeysAreReceipts == \A k \in filed : k = <<k[1], 0>>

\* A pass that was told a number was told it for what it is about to write.
ToldIsFiled ==
    \A d \in Drains :
        pass[d].pc = "answered" /\ pass[d].answer = "ok" => KeyOf(Head(pass[d].list)) \in filed

FilingInv == Shapes /\ KeysAreReceipts /\ ToldIsFiled /\ RegisteredIsFiled

LEMMA InitFiles == FiscalInit => FilingInv
<1> SUFFICES ASSUME FiscalInit PROVE FilingInv
    OBVIOUS
<1>1. Shapes
    BY DEF FiscalInit, Shapes, Pass, Idle
<1> QED
    BY <1>1 DEF FiscalInit, FilingInv, KeysAreReceipts, ToldIsFiled, RegisteredIsFiled, Idle

-----------------------------------------------------------------------------
(* One step. *)

\* Where a pass stands after a receipt, it has no answer in hand.
LEMMA GoesOnType == ASSUME NEW p PROVE Pass(GoesOn(p)) /\ GoesOn(p).pc # "answered"
BY DEF GoesOn, Idle, Pass

LEMMA QueuesKeeps == ASSUME FilingInv, NEW p \in Points, QueuesReceipt(p) PROVE FilingInv'
<1> DEFINE new == [at |-> p, status |-> "pending", attempts |-> 0,
                   rested |-> FALSE, number |-> "none"]
<1>1. queue' = Append(queue, new) /\ UNCHANGED <<pass, filed>>
    BY DEF QueuesReceipt
<1>2. Len(queue) \in Nat /\ queue = [i \in 1..Len(queue) |-> queue[i]]
    BY DEF FilingInv, Shapes
<1>3. queue' = [i \in 1..(Len(queue) + 1) |-> IF i = Len(queue) + 1 THEN new ELSE queue[i]]
    BY <1>1, <1>2
<1>4. Receipt(new)
    BY DEF Receipt
<1> HIDE DEF new
<1>5. Len(queue') = Len(queue) + 1
    BY <1>2, <1>3
<1>6. Shapes'
    BY <1>1, <1>2, <1>3, <1>4, <1>5 DEF FilingInv, Shapes
<1>7. RegisteredIsFiled'
    BY <1>1, <1>2, <1>3 DEF FilingInv, RegisteredIsFiled, new
<1> QED
    BY <1>1, <1>6, <1>7 DEF FilingInv, KeysAreReceipts, ToldIsFiled

\* A receipt that a step rewrites keeps the shapes.
LEMMA RewrittenShapes ==
    ASSUME Shapes, NEW i, NEW r, Receipt(r), queue' = [queue EXCEPT ![i] = r],
           pass' = [d \in Drains |-> pass'[d]], \A d \in Drains : Pass(pass'[d])
    PROVE  Shapes'
<1>1. DOMAIN queue = 1..Len(queue) /\ DOMAIN queue' = DOMAIN queue
    BY DEF Shapes
<1>2. queue' = [j \in 1..Len(queue) |-> queue'[j]] /\ Len(queue) \in Nat
    BY <1>1 DEF Shapes
<1>3. Len(queue') = Len(queue)
    BY <1>1, <1>2
<1>4. \A j \in 1..Len(queue) : queue'[j] = IF j = i THEN r ELSE queue[j]
    BY DEF Shapes
<1> QED
    BY <1>2, <1>3, <1>4 DEF Shapes

LEMMA RestsKeeps == ASSUME FilingInv, NEW i, Rests(i) PROVE FilingInv'
<1>1. /\ queue' = [queue EXCEPT ![i] = [queue[i] EXCEPT !.rested = TRUE]]
      /\ i \in 1..Len(queue) /\ UNCHANGED <<pass, filed>>
    BY DEF Rests, FilingInv, Shapes
<1>2. Receipt([queue[i] EXCEPT !.rested = TRUE])
    BY <1>1 DEF FilingInv, Shapes, Receipt
<1>3. Shapes'
    BY <1>1, <1>2, RewrittenShapes DEF FilingInv, Shapes
<1>4. RegisteredIsFiled'
    BY <1>1 DEF FilingInv, Shapes, RegisteredIsFiled, Receipt
<1> QED
    BY <1>1, <1>3, <1>4 DEF FilingInv, KeysAreReceipts, ToldIsFiled

\* Starting, looking up and dying leave no answer in hand.
LEMMA PassKeeps ==
    ASSUME FilingInv, NEW d \in Drains, Starts(d) \/ LooksUp(d) \/ Dies(d)
    PROVE  FilingInv'
<1>1. UNCHANGED <<queue, filed>>
    BY DEF Starts, LooksUp, Dies
<1>2. PICK p : pass' = [pass EXCEPT ![d] = p] /\ Pass(p) /\ p.pc # "answered"
  <2>1. CASE Starts(d)
    <3> DEFINE p == [pc |-> "listed", answer |-> "none",
                     list |-> [n \in DOMAIN DueNow |->
                                 [i |-> DueNow[n], attempts |-> queue[DueNow[n]].attempts]]]
    <3>1. pass' = [pass EXCEPT ![d] = p]
        BY <2>1 DEF Starts
    <3>2. Pass(p) /\ p.pc # "answered"
        BY DEF Pass
    <3> HIDE DEF p
    <3> QED
        BY <3>1, <3>2
  <2>2. CASE LooksUp(d)
    <3>1. Pass([pass[d] EXCEPT !.pc = "sending"])
        BY DEF FilingInv, Shapes, Pass
    <3>2. [pass[d] EXCEPT !.pc = "sending"].pc = "sending"
        BY DEF FilingInv, Shapes, Pass
    <3> QED
        BY <2>2, <3>1, <3>2, GoesOnType DEF LooksUp
  <2>3. CASE Dies(d)
    <3>1. Pass(Idle) /\ Idle.pc # "answered"
        BY DEF Pass, Idle
    <3> QED
        BY <2>3, <3>1 DEF Dies
  <2> QED
      BY <2>1, <2>2, <2>3
<1>3. Shapes' /\ ToldIsFiled'
    BY <1>1, <1>2 DEF FilingInv, Shapes, ToldIsFiled
<1> QED
    BY <1>1, <1>3 DEF FilingInv, KeysAreReceipts, RegisteredIsFiled

LEMMA SendsKeeps == ASSUME FilingInv, NEW d \in Drains, Sends(d) PROVE FilingInv'
<1> DEFINE key == KeyOf(Head(pass[d].list))
<1>1. PICK answer \in Answers :
          /\ \/ answer \in {"ok", "lost"} /\ filed' = filed \cup {key}
             \/ answer # "ok" /\ filed' = filed
          /\ pass' = [pass EXCEPT ![d].pc = "answered", ![d].answer = answer]
    BY DEF Sends
<1>2. UNCHANGED queue /\ filed \subseteq filed' /\ (answer = "ok" => key \in filed')
    BY <1>1 DEF Sends
<1>3. key = <<key[1], 0>>
    BY DEF KeyOf
<1>4. KeysAreReceipts'
    BY <1>1, <1>3 DEF FilingInv, KeysAreReceipts
<1> HIDE DEF key
<1>5. /\ pass' = [e \in Drains |-> pass'[e]] /\ Pass(pass'[d])
      /\ pass'[d].list = pass[d].list /\ pass'[d].answer = answer
      /\ \A e \in Drains \ {d} : pass'[e] = pass[e]
    BY <1>1 DEF FilingInv, Shapes, Pass
<1>6. Shapes'
    BY <1>2, <1>5 DEF FilingInv, Shapes
<1>7. ToldIsFiled'
    BY <1>2, <1>5 DEF FilingInv, ToldIsFiled, key
<1> QED
    BY <1>2, <1>4, <1>6, <1>7 DEF FilingInv, RegisteredIsFiled

\* Only an answer with a number makes a receipt registered.
LEMMA RecordsKeeps == ASSUME FilingInv, NEW d \in Drains, Records(d) PROVE FilingInv'
<1> DEFINE job == Head(pass[d].list)
           told == pass[d].answer
           outcome == IF Usable(told) THEN "registered"
                      ELSE IF ShouldRetry(job.attempts + 1, told) THEN "pending" ELSE "failed"
           written == [queue[job.i] EXCEPT !.status = outcome, !.attempts = job.attempts + 1,
                          !.rested = FALSE, !.number = IF Usable(told) THEN "provider" ELSE @]
<1>1. /\ pass[d].pc = "answered" /\ queue' = [queue EXCEPT ![job.i] = written]
      /\ pass' = [pass EXCEPT ![d] = GoesOn(pass[d])] /\ UNCHANGED filed
  <2>1. queue' = [queue EXCEPT ![job.i] = written]
      BY DEF Records
  <2> QED
      BY <2>1 DEF Records
<1>2. /\ pass' = [e \in Drains |-> pass'[e]] /\ \A e \in Drains : Pass(pass'[e])
      /\ pass'[d].pc # "answered" /\ \A e \in Drains \ {d} : pass'[e] = pass[e]
    BY <1>1, GoesOnType DEF FilingInv, Shapes
<1>3. ToldIsFiled' /\ KeysAreReceipts'
    BY <1>1, <1>2 DEF FilingInv, ToldIsFiled, KeysAreReceipts
<1>4. CASE job.i \in 1..Len(queue)
  <2>1. Receipt(written) /\ written.status = outcome
      BY <1>4 DEF FilingInv, Shapes, Receipt
  <2> HIDE DEF written
  <2>2. Shapes'
      BY <1>1, <1>2, <2>1, RewrittenShapes DEF FilingInv
  <2>3. outcome = "registered" => KeyOf(job) \in filed /\ KeyOf(job)[1] = job.i
      BY <1>1 DEF FilingInv, ToldIsFiled, KeyOf, Usable
  <2> HIDE DEF outcome
  <2>4. RegisteredIsFiled'
      BY <1>1, <1>4, <2>1, <2>3 DEF FilingInv, Shapes, RegisteredIsFiled
  <2> QED
      BY <1>3, <2>2, <2>4 DEF FilingInv
<1>5. CASE job.i \notin 1..Len(queue)
  <2> HIDE DEF written
  <2>1. queue' = queue
      BY <1>1, <1>5 DEF FilingInv, Shapes
  <2> QED
      BY ZenonT(60), <1>1, <1>2, <1>3, <2>1 DEF FilingInv, Shapes, RegisteredIsFiled
<1> QED
    BY <1>4, <1>5

\* A number that is typed in comes off a slip.
LEMMA EntryKeeps == ASSUME FilingInv, NEW h \in Typists, EntryWrites(h) PROVE FilingInv'
<1> DEFINE i == typed[h]
           written == [queue[i] EXCEPT !.status = "registered", !.rested = FALSE, !.number = "slip"]
<1>1. queue' = [queue EXCEPT ![i] = written] /\ UNCHANGED <<pass, filed>>
    BY DEF EntryWrites, FilingInv, Shapes
<1>2. KeysAreReceipts' /\ ToldIsFiled'
    BY <1>1 DEF FilingInv, KeysAreReceipts, ToldIsFiled
<1>3. CASE i \in 1..Len(queue)
  <2>1. Receipt(written) /\ written.number = "slip"
      BY <1>3 DEF FilingInv, Shapes, Receipt
  <2> HIDE DEF written
  <2>2. Shapes'
      BY <1>1, <2>1, RewrittenShapes DEF FilingInv, Shapes
  <2>3. RegisteredIsFiled'
      BY <1>1, <1>3, <2>1 DEF FilingInv, Shapes, RegisteredIsFiled
  <2> QED
      BY <1>2, <2>2, <2>3 DEF FilingInv
<1>4. CASE i \notin 1..Len(queue)
  <2> HIDE DEF written
  <2>1. queue' = queue
      BY <1>1, <1>4 DEF FilingInv, Shapes
  <2> QED
      BY <1>1, <1>2, <2>1 DEF FilingInv, Shapes, RegisteredIsFiled
<1> QED
    BY <1>3, <1>4

LEMMA StepFiles == FilingInv /\ [FiscalNext]_fiscalVars => FilingInv'
<1> SUFFICES ASSUME FilingInv, [FiscalNext]_fiscalVars PROVE FilingInv'
    OBVIOUS
<1>1. ASSUME UNCHANGED <<queue, pass, filed>> PROVE FilingInv'
    BY <1>1 DEF FilingInv, Shapes, KeysAreReceipts, ToldIsFiled, RegisteredIsFiled
<1>2. ASSUME NEW p \in Points, Switches(p) PROVE FilingInv'
    BY <1>1, <1>2 DEF Switches
<1>3. ASSUME NEW h \in Typists, EntryReads(h) PROVE FilingInv'
    BY <1>1, <1>3 DEF EntryReads
<1>4. CASE UNCHANGED fiscalVars
    BY <1>1, <1>4 DEF fiscalVars
<1> QED
    BY <1>2, <1>3, <1>4, QueuesKeeps, RestsKeeps, PassKeeps, SendsKeeps, RecordsKeeps, EntryKeeps
       DEF FiscalNext, DrainStep

LEMMA AlwaysFiles == FiscalSpec => []FilingInv
    BY InitFiles, StepFiles, PTL DEF FiscalSpec

-----------------------------------------------------------------------------
\* A receipt shown as fiscalised was filed or carries a number off a slip,
\* whatever was lost, overlapped, died or was typed in (fiscal-worker.ts).
THEOREM RegisteredWasFiled == FiscalSpec => []RegisteredIsFiled
<1>1. FilingInv => RegisteredIsFiled
    BY DEF FilingInv
<1> QED
    BY <1>1, AlwaysFiles, PTL

\* A sale is filed under one key, however often it is tried and by however many
\* passes at once (fiscal-network.ts).
THEOREM AlwaysFiledOnce == FiscalSpec => []FiledOnce
<1>1. ASSUME KeysAreReceipts, NEW i PROVE Cardinality({k \in filed : k[1] = i}) <= 1
  <2>1. {k \in filed : k[1] = i} \subseteq {<<i, 0>>}
      BY <1>1 DEF KeysAreReceipts
  <2> QED
    <3>1. IsFiniteSet({<<i, 0>>}) /\ Cardinality({<<i, 0>>}) = 1
        BY FS_Singleton
    <3> QED
        BY <2>1, <3>1, FS_Subset
<1>2. FilingInv => FiledOnce
    BY <1>1 DEF FilingInv, FiledOnce
<1> QED
    BY <1>2, AlwaysFiles, PTL

-----------------------------------------------------------------------------
(* The tries of a receipt. *)

\* What a pass has listed was tried less often than it may be, and so was
\* whatever still waits: a try written by an overlapping pass can neither
\* take the count over the bound nor bring back a receipt past it.
Job == [i : Nat, attempts : 0..(MaxAttempts - 1)]
PassFits(p) ==
    /\ p \in [pc : {"idle", "listed", "sending", "answered"}, list : Seq(Job),
              answer : Answers \cup {"none"}]
    /\ (p.pc = "idle") <=> (p.list = <<>>)
ReceiptFits(r) == r \in FiscalReceipt /\ (r.status = "pending" => r.attempts < MaxAttempts)

QueueFits ==
    /\ Len(queue) \in 0..MaxReceipts /\ queue = [i \in 1..Len(queue) |-> queue[i]]
    /\ \A i \in 1..Len(queue) : ReceiptFits(queue[i])
PassesFit == pass = [d \in Drains |-> pass[d]] /\ \A d \in Drains : PassFits(pass[d])
EntriesFit == enabled \in [Points -> BOOLEAN] /\ typed \in [Typists -> 0..MaxReceipts]

TriesInv == QueueFits /\ PassesFit /\ EntriesFit

LEMMA InitFits == FiscalInit => TriesInv
<1> SUFFICES ASSUME FiscalInit PROVE TriesInv
    OBVIOUS
<1>1. PassFits(Idle)
    BY DEF PassFits, Idle
<1>2. QueueFits
    BY FiscalBounds DEF FiscalInit, QueueFits
<1>3. PassesFit
    BY <1>1 DEF FiscalInit, PassesFit
<1>4. EntriesFit
    BY FiscalBounds DEF FiscalInit, EntriesFit
<1> QED
    BY <1>2, <1>3, <1>4 DEF TriesInv

\* A receipt that a step rewrites, or a place that is not one.
LEMMA RewrittenFits ==
    ASSUME QueueFits, NEW i, NEW r, i \in 1..Len(queue) => ReceiptFits(r),
           queue' = [queue EXCEPT ![i] = r]
    PROVE  QueueFits'
<1>1. DOMAIN queue' = 1..Len(queue) /\ Len(queue) \in Nat
    BY FiscalBounds DEF QueueFits
<1>2. queue' = [j \in 1..Len(queue) |-> queue'[j]]
    BY <1>1 DEF QueueFits
<1>3. Len(queue') = Len(queue)
    BY <1>1, <1>2
<1>4. \A j \in 1..Len(queue) : queue'[j] = IF j = i THEN r ELSE queue[j]
    BY DEF QueueFits
<1> QED
    BY <1>2, <1>3, <1>4 DEF QueueFits

LEMMA FirstOfType ==
    ASSUME NEW X, NEW s \in Seq(X), NEW n \in Nat PROVE FirstOf(s, n) \in Seq(X)
<1> DEFINE m == IF n < Len(s) THEN n ELSE Len(s)
<1>1. Len(s) \in Nat
    OBVIOUS
<1>2. m \in Int /\ m <= Len(s)
    BY <1>1
<1> HIDE DEF m
<1>3. \A j \in 1..m : s[j] \in X
    BY <1>1, <1>2
<1>4. SubSeq(s, 1, m) \in Seq(X)
    BY <1>2, <1>3, SubSeqProperties
<1> QED
    BY <1>4 DEF FirstOf, m

\* Only receipts that wait are listed.
LEMMA DueNowType ==
    ASSUME QueueFits
    PROVE  DueNow \in Seq({i \in 1..Len(queue) : queue[i].status = "pending"})
<1> DEFINE W == {i \in DOMAIN queue : queue[i].status = "pending"}
           all == [i \in DOMAIN queue |-> i]
           due == {i \in DOMAIN queue : IsDue(queue[i])}
<1>1. Len(queue) \in Nat /\ DOMAIN queue = 1..Len(queue)
    BY FiscalBounds DEF QueueFits
<1>2. all \in Seq(DOMAIN queue)
    BY <1>1
<1>3. Kept(all, W) \in Seq(DOMAIN queue \cap W)
    BY <1>2, KeptType
<1>4. DOMAIN queue \cap W = W
    OBVIOUS
<1>5. Pending \in Seq(W)
    BY <1>3, <1>4 DEF Pending
<1>6. 4 * Limit \in Nat /\ Limit \in Nat
    BY FiscalBounds
<1>7. FirstOf(Pending, 4 * Limit) \in Seq(W)
    BY <1>5, <1>6, FirstOfType
<1> HIDE DEF W, due
<1>8. Kept(FirstOf(Pending, 4 * Limit), due) \in Seq(W \cap due)
    BY <1>7, KeptType
<1>9. FirstOf(Kept(FirstOf(Pending, 4 * Limit), due), Limit) \in Seq(W \cap due)
    BY <1>6, <1>8, FirstOfType
<1>10. DueNow \in Seq(W \cap due)
    BY <1>9 DEF DueNow, due
<1>11. DueNow \in Seq(W)
    BY <1>10
<1> QED
    BY <1>1, <1>11 DEF W

LEMMA GoesOnFits == ASSUME NEW p, PassFits(p) PROVE PassFits(GoesOn(p))
<1>1. CASE Len(p.list) > 1
  <2>1. p.list \in Seq(Job) /\ Len(p.list) \in Nat
      BY DEF PassFits
  <2> DEFINE left == Tail(p.list)
  <2>2. left \in Seq(Job) /\ Len(left) = Len(p.list) - 1
      BY <1>1, <2>1, HeadTailProperties
  <2> HIDE DEF left
  <2>3. left # <<>>
      BY <1>1, <2>1, <2>2
  <2>4. GoesOn(p) = [pc |-> "listed", list |-> left, answer |-> "none"]
      BY <1>1 DEF GoesOn, Idle, left
  <2> QED
      BY <2>2, <2>3, <2>4 DEF PassFits
<1>2. CASE ~(Len(p.list) > 1)
  <2>1. GoesOn(p) = Idle
      BY <1>2 DEF GoesOn
  <2> QED
      BY <2>1 DEF PassFits, Idle
<1> QED
    BY <1>1, <1>2

LEMMA QueuesFits == ASSUME TriesInv, NEW p \in Points, QueuesReceipt(p) PROVE TriesInv'
<1> DEFINE new == [at |-> p, status |-> "pending", attempts |-> 0,
                   rested |-> FALSE, number |-> "none"]
<1>1. queue' = Append(queue, new) /\ Len(queue) < MaxReceipts /\ UNCHANGED <<pass, enabled, typed>>
    BY DEF QueuesReceipt
<1>2. Len(queue) \in Nat /\ queue = [i \in 1..Len(queue) |-> queue[i]]
    BY FiscalBounds DEF TriesInv, QueueFits
<1>3. queue' = [i \in 1..(Len(queue) + 1) |-> IF i = Len(queue) + 1 THEN new ELSE queue[i]]
    BY <1>1, <1>2
<1>4. ReceiptFits(new)
    BY FiscalBounds DEF ReceiptFits, FiscalReceipt
<1> HIDE DEF new
<1>5. Len(queue') = Len(queue) + 1
    BY <1>2, <1>3
<1>6. Len(queue') \in 0..MaxReceipts
    BY <1>1, <1>2, <1>5, FiscalBounds
<1>7. QueueFits'
    BY <1>2, <1>3, <1>4, <1>5, <1>6 DEF TriesInv, QueueFits
<1> QED
    BY <1>1, <1>7 DEF TriesInv, PassesFit, EntriesFit

LEMMA RestsFits == ASSUME TriesInv, NEW i, Rests(i) PROVE TriesInv'
<1>1. /\ queue' = [queue EXCEPT ![i] = [queue[i] EXCEPT !.rested = TRUE]]
      /\ UNCHANGED <<pass, enabled, typed>>
    BY DEF Rests, TriesInv, QueueFits
<1>2. i \in 1..Len(queue) => ReceiptFits([queue[i] EXCEPT !.rested = TRUE])
    BY DEF TriesInv, QueueFits, ReceiptFits, FiscalReceipt
<1>3. QueueFits'
    BY <1>1, <1>2, RewrittenFits DEF TriesInv
<1> QED
    BY <1>1, <1>3 DEF TriesInv, PassesFit, EntriesFit

LEMMA PassStepFits ==
    ASSUME TriesInv, NEW d \in Drains, Starts(d) \/ LooksUp(d) \/ Sends(d) \/ Dies(d)
    PROVE  TriesInv'
<1>1. UNCHANGED <<queue, enabled, typed>>
    BY DEF Starts, LooksUp, Sends, Dies
<1>2. PassFits(pass[d])
    BY DEF TriesInv, PassesFit
<1>3. PICK p : pass' = [pass EXCEPT ![d] = p] /\ PassFits(p)
  <2>1. CASE Starts(d)
    <3> DEFINE line == [n \in DOMAIN DueNow |->
                          [i |-> DueNow[n], attempts |-> queue[DueNow[n]].attempts]]
               p == [pc |-> "listed", answer |-> "none", list |-> line]
    <3>1. pass' = [pass EXCEPT ![d] = p] /\ DueNow # <<>>
        BY <2>1 DEF Starts
    <3>2. DueNow \in Seq({i \in 1..Len(queue) : queue[i].status = "pending"})
        BY DueNowType DEF TriesInv
    <3>3. \A n \in DOMAIN DueNow :
              [i |-> DueNow[n], attempts |-> queue[DueNow[n]].attempts] \in Job
      <4> SUFFICES ASSUME NEW n \in DOMAIN DueNow
                   PROVE  [i |-> DueNow[n], attempts |-> queue[DueNow[n]].attempts] \in Job
          OBVIOUS
      <4>1. DueNow[n] \in 1..Len(queue) /\ queue[DueNow[n]].status = "pending"
          BY <3>2
      <4>2. DueNow[n] \in Nat
          BY <4>1
      <4>3. ReceiptFits(queue[DueNow[n]])
          BY <4>1 DEF TriesInv, QueueFits
      <4>4. queue[DueNow[n]].attempts \in 0..(MaxAttempts - 1)
          BY <4>1, <4>3, FiscalBounds DEF ReceiptFits, FiscalReceipt
      <4> QED
          BY <4>2, <4>4 DEF Job
    <3>4. line \in Seq(Job) /\ line # <<>>
      <4>1. Len(DueNow) \in Nat /\ DOMAIN DueNow = 1..Len(DueNow) /\ Len(DueNow) # 0
          BY <3>1, <3>2
      <4>2. line = [n \in 1..Len(DueNow) |-> line[n]] /\ \A n \in 1..Len(DueNow) : line[n] \in Job
          BY <3>3, <4>1
      <4> HIDE DEF line
      <4>3. Len(line) = Len(DueNow)
          BY <4>1, <4>2
      <4>4. line \in Seq(Job)
          BY <4>1, <4>2
      <4> QED
          BY <4>1, <4>3, <4>4
    <3> HIDE DEF line
    <3>5. PassFits(p)
        BY <3>4 DEF PassFits
    <3> HIDE DEF p
    <3> QED
        BY <3>1, <3>5
  <2>2. CASE LooksUp(d)
    <3>1. pass[d].pc = "listed"
        BY <2>2 DEF LooksUp
    <3>2. PassFits([pass[d] EXCEPT !.pc = "sending"])
        BY <1>2, <3>1 DEF PassFits
    <3> QED
        BY <1>2, <2>2, <3>2, GoesOnFits DEF LooksUp
  <2>3. CASE Sends(d)
    <3>1. PICK answer \in Answers : pass' = [pass EXCEPT ![d].pc = "answered", ![d].answer = answer]
        BY <2>3 DEF Sends
    <3>2. pass[d].pc = "sending"
        BY <2>3 DEF Sends
    <3>3. PassFits([pass[d] EXCEPT !.pc = "answered", !.answer = answer])
        BY <1>2, <3>2 DEF PassFits
    <3>4. pass' = [pass EXCEPT ![d] = [pass[d] EXCEPT !.pc = "answered", !.answer = answer]]
        BY <3>1, <1>2 DEF TriesInv, PassesFit, PassFits
    <3> QED
        BY <3>3, <3>4
  <2>4. CASE Dies(d)
    <3>1. PassFits(Idle)
        BY DEF PassFits, Idle
    <3> QED
        BY <2>4, <3>1 DEF Dies
  <2> QED
      BY <2>1, <2>2, <2>3, <2>4
<1>4. PassesFit'
    BY <1>3 DEF TriesInv, PassesFit
<1> QED
    BY <1>1, <1>4 DEF TriesInv, QueueFits, EntriesFit

LEMMA RecordsFits == ASSUME TriesInv, NEW d \in Drains, Records(d) PROVE TriesInv'
<1> DEFINE job == Head(pass[d].list)
           i == job.i
           tries == job.attempts + 1
           told == pass[d].answer
           outcome == IF Usable(told) THEN "registered"
                      ELSE IF ShouldRetry(tries, told) THEN "pending" ELSE "failed"
           number == IF Usable(told) THEN "provider" ELSE queue[i].number
           written == [queue[i] EXCEPT !.status = outcome, !.attempts = tries,
                                       !.rested = FALSE, !.number = number]
<1>1. queue' = [queue EXCEPT ![i] = written]
    BY DEF Records
<1>2. /\ pass[d].pc = "answered" /\ pass' = [pass EXCEPT ![d] = GoesOn(pass[d])]
      /\ UNCHANGED <<enabled, typed>>
    BY DEF Records
<1>3. PassFits(pass[d])
    BY DEF TriesInv, PassesFit
<1>4. job \in Job
    BY <1>2, <1>3 DEF PassFits
<1> HIDE DEF job
<1>5. tries \in 0..MaxAttempts
    BY <1>4, FiscalBounds DEF Job
<1> HIDE DEF tries
<1>6. outcome \in {"pending", "registered", "failed"}
      /\ (outcome = "pending" => tries < MaxAttempts)
    BY DEF ShouldRetry
<1>7. number \in {"provider", queue[i].number}
    OBVIOUS
<1> HIDE DEF outcome, number, i
<1>8. i \in 1..Len(queue) => ReceiptFits(written)
    BY <1>5, <1>6, <1>7 DEF TriesInv, QueueFits, ReceiptFits, FiscalReceipt
<1> HIDE DEF written
<1>9. QueueFits'
    BY <1>1, <1>8, RewrittenFits DEF TriesInv
<1>10. PassesFit'
    BY <1>2, <1>3, GoesOnFits DEF TriesInv, PassesFit
<1> QED
    BY <1>2, <1>9, <1>10 DEF TriesInv, EntriesFit

LEMMA EntryFits ==
    ASSUME TriesInv, NEW h \in Typists, EntryReads(h) \/ EntryWrites(h) PROVE TriesInv'
<1>1. CASE EntryReads(h)
  <2>1. PICK i \in DOMAIN queue : typed' = [typed EXCEPT ![h] = i]
      BY <1>1 DEF EntryReads
  <2>2. i \in 0..MaxReceipts
      BY FiscalBounds DEF TriesInv, QueueFits
  <2> QED
      BY <1>1, <2>1, <2>2 DEF EntryReads, TriesInv, QueueFits, PassesFit, EntriesFit
<1>2. CASE EntryWrites(h)
  <2> DEFINE i == typed[h]
             written == [queue[i] EXCEPT !.status = "registered", !.rested = FALSE,
                                         !.number = "slip"]
  <2>1. queue' = [queue EXCEPT ![i] = written] /\ UNCHANGED <<pass, enabled>>
        /\ typed' = [typed EXCEPT ![h] = 0]
      BY <1>2 DEF EntryWrites, TriesInv, QueueFits
  <2>2. ASSUME i \in 1..Len(queue) PROVE ReceiptFits(written)
    <3>1. PICK r : r = queue[i]
        OBVIOUS
    <3>2. r \in FiscalReceipt
        BY <2>2, <3>1 DEF TriesInv, QueueFits, ReceiptFits
    <3>3. written = [r EXCEPT !.status = "registered", !.rested = FALSE, !.number = "slip"]
        BY <3>1
    <3> HIDE DEF written
    <3>4. written \in FiscalReceipt /\ written.status = "registered"
        BY <3>2, <3>3 DEF FiscalReceipt
    <3> QED
        BY <3>4 DEF ReceiptFits
  <2> HIDE DEF written
  <2>3. QueueFits'
      BY <2>1, <2>2, RewrittenFits DEF TriesInv
  <2>4. EntriesFit'
      BY <2>1, FiscalBounds DEF TriesInv, EntriesFit
  <2> QED
      BY <2>1, <2>3, <2>4 DEF TriesInv, PassesFit
<1> QED
    BY <1>1, <1>2

LEMMA StepFits == TriesInv /\ [FiscalNext]_fiscalVars => TriesInv'
<1> SUFFICES ASSUME TriesInv, [FiscalNext]_fiscalVars PROVE TriesInv'
    OBVIOUS
<1>1. ASSUME NEW p \in Points, Switches(p) PROVE TriesInv'
    BY <1>1 DEF Switches, TriesInv, QueueFits, PassesFit, EntriesFit
<1>2. CASE UNCHANGED fiscalVars
    BY <1>2 DEF fiscalVars, TriesInv, QueueFits, PassesFit, EntriesFit
<1> QED
    BY <1>1, <1>2, QueuesFits, RestsFits, PassStepFits, RecordsFits, EntryFits
       DEF FiscalNext, DrainStep

\* No receipt is tried more often than it may be, whichever passes overlap
\* and whatever order they write their tries in (fiscal-worker.ts); the rest
\* of the state keeps its shape.
THEOREM TriesAreBounded == FiscalSpec => []FiscalTypeOK
<1>1. TriesInv => FiscalTypeOK
    BY DEF TriesInv, QueueFits, PassesFit, EntriesFit, PassFits, ReceiptFits, FiscalTypeOK
<1> QED
    BY <1>1, InitFits, StepFits, PTL DEF FiscalSpec
=============================================================================

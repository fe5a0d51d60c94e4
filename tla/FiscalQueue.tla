---------------------------- MODULE FiscalQueue ----------------------------
(***************************************************************************)
(* The fiscal queue of fiscal-worker.ts: a sale at a point with a register *)
(* leaves a receipt to file, a scheduler calls the drain, passes may       *)
(* overlap and may die half way, the provider may answer, refuse, answer   *)
(* nonsense or lose the answer, and a cashier may type in a number off a   *)
(* slip (routes/pos.ts).  The provider itself is external; what it owes us *)
(* is that two calls with one key are one filing.                          *)
(***************************************************************************)
EXTENDS Collections

CONSTANTS
    Points,         \* points of sale, each with a register
    Drains,         \* passes of the worker that may be under way at once
    Typists,        \* manual entries under way at once
    MaxReceipts,    \* bound on the sales
    MaxAttempts,    \* MAX_FISCAL_ATTEMPTS, 8 in the code
    Limit,          \* how many receipts one pass takes, 25 in the code
    MaxMishaps      \* bound on crashes, switches flipped and numbers typed in

ASSUME FiscalBounds == MaxReceipts \in Nat /\ MaxAttempts \in Nat \ {0} /\ Limit \in Nat \ {0}

VARIABLES
    queue,      \* the receipts, in the order of their sales
    enabled,    \* whether a point's register is switched on
    pass,       \* what each pass of the worker has in hand
    typed,      \* the receipt a manual entry has read, 0 for none
    filed,      \* the keys the provider has filed a receipt under
    refused,    \* receipts the provider has rejected on their contents
    mishaps     \* crashes, flips and manual entries so far

fiscalVars == <<queue, enabled, pass, typed, filed, refused, mishaps>>

Idle == [pc |-> "idle", list |-> <<>>, answer |-> "none"]
Answers == {"ok", "blank", "lost", "refused"}

FiscalInit ==
    /\ queue = <<>> /\ enabled = [p \in Points |-> TRUE]
    /\ pass = [d \in Drains |-> Idle] /\ typed = [h \in Typists |-> 0]
    /\ filed = {} /\ refused = {} /\ mishaps = 0

QueuesReceipt(p) ==
    /\ enabled[p] /\ Len(queue) < MaxReceipts
    /\ queue' = Append(queue, [at |-> p, status |-> "pending", attempts |-> 0,
                               rested |-> FALSE, number |-> "none"])
    /\ UNCHANGED <<enabled, pass, typed, filed, refused, mishaps>>

Switches(p) ==
    /\ mishaps < MaxMishaps
    /\ mishaps' = mishaps + 1 /\ enabled' = [enabled EXCEPT ![p] = ~@]
    /\ UNCHANGED <<queue, pass, typed, filed, refused>>

-----------------------------------------------------------------------------
\* The delay before another try has run out.
Rests(i) ==
    /\ i \in DOMAIN queue /\ queue[i].status = "pending" /\ queue[i].attempts > 0
    /\ ~queue[i].rested /\ queue' = [queue EXCEPT ![i].rested = TRUE]
    /\ UNCHANGED <<enabled, pass, typed, filed, refused, mishaps>>

IsDueAtFirst(r) == r.attempts = 0
IsDue(r) == r.attempts = 0 \/ r.rested
FirstOf(s, n) == SubSeq(s, 1, IF n < Len(s) THEN n ELSE Len(s))

Pending == Kept([i \in DOMAIN queue |-> i], {i \in DOMAIN queue : queue[i].status = "pending"})
DueNow == FirstOf(Kept(FirstOf(Pending, 4 * Limit), {i \in DOMAIN queue : IsDue(queue[i])}), Limit)

Starts(d) ==
    /\ pass[d].pc = "idle"
    /\ \E due \in {DueNow} \ {<<>>} :
          pass' = [pass EXCEPT ![d] = [pc |-> "listed", answer |-> "none",
              list |-> [n \in DOMAIN due |-> [i |-> due[n], attempts |-> queue[due[n]].attempts]]]]
    /\ UNCHANGED <<queue, enabled, typed, filed, refused, mishaps>>

GoesOn(p) == IF Len(p.list) > 1 THEN [Idle EXCEPT !.pc = "listed", !.list = Tail(p.list)] ELSE Idle

\* The register of the point is looked up for every receipt anew.
LooksUp(d) ==
    /\ pass[d].pc = "listed"
    /\ pass' = [pass EXCEPT ![d] = IF enabled[queue[Head(@.list).i].at]
                                   THEN [@ EXCEPT !.pc = "sending"] ELSE GoesOn(@)]
    /\ UNCHANGED <<queue, enabled, typed, filed, refused, mishaps>>

KeyOfTry(job) == <<job.i, job.attempts>>
KeyOf(job) == <<job.i, 0>>

Sends(d) ==
    LET job == Head(pass[d].list) IN
    /\ pass[d].pc = "sending"
    /\ \E answer \in Answers :
        /\ answer = "refused" => KeyOf(job) \notin filed
        /\ \/ answer \in {"ok", "lost"} /\ filed' = filed \cup {KeyOf(job)}
           \/ answer # "ok" /\ filed' = filed
        /\ refused' = IF answer = "refused" THEN refused \cup {job.i} ELSE refused
        /\ pass' = [pass EXCEPT ![d].pc = "answered", ![d].answer = answer]
    /\ UNCHANGED <<queue, enabled, typed, mishaps>>

UsableIfAnswered(answer) == answer \in {"ok", "blank"}
\* A 200 without a number is thrown as a 502.
Usable(answer) == answer = "ok"
Permanent(answer) == answer = "refused"
ShouldRetryForever(attempts, answer) == ~Permanent(answer)
ShouldRetry(attempts, answer) == ~Permanent(answer) /\ attempts < MaxAttempts

Records(d) ==
    LET job == Head(pass[d].list)
        tries == job.attempts + 1
        told == pass[d].answer
        outcome == IF Usable(told) THEN "registered"
                   ELSE IF ShouldRetry(tries, told) THEN "pending" ELSE "failed"
    IN
    /\ pass[d].pc = "answered"
    /\ queue' = [queue EXCEPT ![job.i] =
                   [queue[job.i] EXCEPT !.status = outcome, !.attempts = tries, !.rested = FALSE,
                             !.number = IF Usable(told) THEN "provider" ELSE @]]
    /\ pass' = [pass EXCEPT ![d] = GoesOn(@)]
    /\ UNCHANGED <<enabled, typed, filed, refused, mishaps>>

Dies(d) ==
    /\ mishaps < MaxMishaps /\ pass[d].pc # "idle"
    /\ mishaps' = mishaps + 1 /\ pass' = [pass EXCEPT ![d] = Idle]
    /\ UNCHANGED <<queue, enabled, typed, filed, refused>>

-----------------------------------------------------------------------------
MayEnter(r) == r.status # "registered"

EntryReads(h) ==
    /\ typed[h] = 0 /\ mishaps < MaxMishaps /\ mishaps' = mishaps + 1
    /\ \E i \in DOMAIN queue : MayEnter(queue[i]) /\ typed' = [typed EXCEPT ![h] = i]
    /\ UNCHANGED <<queue, enabled, pass, filed, refused>>

EntryWrites(h) ==
    /\ typed[h] # 0
    /\ queue' = [queue EXCEPT ![typed[h]].status = "registered", ![typed[h]].rested = FALSE,
                              ![typed[h]].number = "slip"]
    /\ typed' = [typed EXCEPT ![h] = 0]
    /\ UNCHANGED <<enabled, pass, filed, refused, mishaps>>

DrainStep(d) == Starts(d) \/ LooksUp(d) \/ Sends(d) \/ Records(d)

FiscalNext ==
    \/ \E p \in Points : QueuesReceipt(p) \/ Switches(p)
    \/ \E i \in 1..MaxReceipts : Rests(i)
    \/ \E d \in Drains : DrainStep(d) \/ Dies(d)
    \/ \E h \in Typists : EntryReads(h) \/ EntryWrites(h)

(***************************************************************************)
(* The drain is "called on a schedule" (app.ts), so passes keep coming and *)
(* end; time goes by.  Nobody has to sell, to type or to flip a switch.    *)
(***************************************************************************)
FiscalSpec ==
    /\ FiscalInit /\ [][FiscalNext]_fiscalVars
    /\ \A d \in Drains : WF_fiscalVars(DrainStep(d))
    /\ \A i \in 1..MaxReceipts : WF_fiscalVars(Rests(i))

-----------------------------------------------------------------------------
FiscalReceipt ==
    [at : Points, status : {"pending", "registered", "failed"}, attempts : 0..MaxAttempts,
     rested : BOOLEAN, number : {"none", "provider", "slip"}]

\* The shape of the state; no receipt is tried more often than it may be.
FiscalTypeOK ==
    /\ Len(queue) <= MaxReceipts /\ \A i \in DOMAIN queue : queue[i] \in FiscalReceipt
    /\ enabled \in [Points -> BOOLEAN] /\ typed \in [Typists -> 0..MaxReceipts]
    /\ \A d \in Drains : /\ pass[d].pc \in {"idle", "listed", "sending", "answered"}
                         /\ (pass[d].pc = "idle") <=> (pass[d].list = <<>>)

(***************************************************************************)
(* A sale is filed with the tax authority once, whatever answers are lost, *)
(* retried or repeated by an overlapping pass ("fiscalising one sale eight *)
(* times", fiscal-network.ts).                                             *)
(***************************************************************************)
FiledOnce == \A i \in DOMAIN queue : Cardinality({k \in filed : k[1] = i}) <= 1

(***************************************************************************)
(* A receipt shown as fiscalised is one: the provider has it, or a person  *)
(* has typed in a number off a slip.                                       *)
(***************************************************************************)
RegisteredIsFiled ==
    \A i \in DOMAIN queue :
        queue[i].status = "registered" =>
            queue[i].number = "slip" \/ \E k \in filed : k[1] = i

Waits(i) == i \in DOMAIN queue /\ queue[i].status = "pending"

(***************************************************************************)
(* While the registers are on, no receipt waits for ever: passes that      *)
(* overlap, die or meet a silent provider still end with the receipt       *)
(* registered or handed to a person.                                       *)
(***************************************************************************)
QueueMoves ==
    \A i \in 1..MaxReceipts : Waits(i) ~> (~Waits(i) \/ \E p \in Points : ~enabled[p])

(***************************************************************************)
(* The same of a single point: what another point's owner switches off is  *)
(* no reason for this one's receipts to wait ("one that is never retried   *)
(* is a fine", fiscal-worker.ts).                                          *)
(***************************************************************************)
\* (The code does not keep this: README.)
NobodyStarves ==
    \A i \in 1..MaxReceipts : Waits(i) ~> (~Waits(i) \/ ~enabled[queue[i].at])

(***************************************************************************)
(* "Overwriting would replace the number the tax authority has with a      *)
(* different one and leave no trace of the first" (routes/pos.ts, manual   *)
(* entry): a registered receipt keeps its number and its status.           *)
(***************************************************************************)
\* (The code does not keep this: README.)
NumberStays ==
    [][\A i \in DOMAIN queue :
        queue[i].status = "registered" =>
            queue'[i].status = "registered" /\ queue'[i].number = queue[i].number]_fiscalVars

=============================================================================

----------------------------- MODULE ClosingScreen -----------------------------
(***************************************************************************)
(* What the till keeps of its sales, and how much cash it tells the        *)
(* cashier to expect when the shift is closed.                             *)
(*                                                                         *)
(* The browser has room for so many sales; the till forgets what is at the *)
(* server and old, and when there is no room at all, what is at the server *)
(* and new.  At the close it asks the server, which sees the whole drawer, *)
(* and adds what waits here; without an answer it counts what it has.      *)
(* Sales are numbered as they are rung up; each is one unit of cash, and   *)
(* so is each row of cash past a receipt.                                  *)
(***************************************************************************)
EXTENDS Integers, Sequences, FiniteSets, FiniteSetsExt

CONSTANTS
    MaxRung,        \* bound: sales
    MaxOpened,      \* bound: shifts
    MaxQuestions,   \* bound: times the closing screen is opened
    Rows,           \* settlements and returns in cash
    KeepMax,        \* how many sales are kept at most
    KeepOnOverflow, \* how many of the sent ones when there is no room
    MostRoom        \* bound: what the browser may have room for

ASSUME ClosingAssumption ==
    {MaxRung, MaxOpened, MaxQuestions, KeepMax, KeepOnOverflow, MostRoom} \subseteq Nat

VARIABLES
    shiftHere,      \* the open shift, 0 for none
    opens,          \* shifts opened so far
    rungUp,         \* the shift of each sale, in order
    mark,           \* what the till knows of each: "waiting", "refused", "sent"
    stored,         \* the sales in localStorage
    old,            \* those older than three days
    room,           \* how many the browser has room for
    calling,        \* the sale on its way to the server
    atServer,       \* the sales the server has
    rowsAt,         \* the shift of each row at the server, 0 for none
    noted,          \* the rows this till wrote down itself
    questions,      \* what the closing screen asked the server, and the answers
    serverCash      \* the answer the screen goes by

tillVarsHere == <<rungUp, mark, stored, old>>
serverVarsHere == <<atServer, rowsAt, noted>>
screenVars == <<questions, serverCash>>
closingVars == <<shiftHere, opens, tillVarsHere, room, calling, serverVarsHere, screenVars>>

NoCall == [sale |-> 0, answer |-> "none"]
NoAnswer == [shift |-> 0, sales |-> {}, rows |-> {}]
RungUp == DOMAIN rungUp
SalesOf(S, k) == {s \in S : rungUp[s] = k}

ClosingInit ==
    /\ shiftHere = 0 /\ opens = 0
    /\ rungUp = <<>> /\ mark = <<>> /\ stored = {} /\ old = {}
    /\ room \in 1..MostRoom
    /\ calling = NoCall /\ atServer = {}
    /\ rowsAt = [r \in Rows |-> 0] /\ noted = {}
    /\ questions = <<>> /\ serverCash = NoAnswer

-----------------------------------------------------------------------------
(* What is kept. *)

NotSent(S, m) == {s \in S : m[s] # "sent"}
FirstOf(n, S) == {s \in S : Cardinality({t \in S : t < s}) < n}
LastOf(n, S) == {s \in S : Cardinality({t \in S : t > s}) < n}

\* What is unsent or of the open shift stays; of the rest nothing old, and not
\* more than is kept at most.
PruneSales(S) ==
    LET fixed == NotSent(S, mark) \cup SalesOf(S, shiftHere)
        kept == fixed \cup (S \ old)
        excess == Cardinality(kept) - Max({KeepMax, Cardinality(NotSent(S, mark))})
    IN kept \ FirstOf(excess, kept \ fixed)

KeepOnlyUnsent(S, m, n) == NotSent(S, m) \cup LastOf(n, S \ NotSent(S, m))

\* Everything, or what is unsent with a few of the sent, or what is unsent: the
\* first that there is room for, and nothing is written if none is.
Fitting(S, m) ==
    LET tries == <<S, KeepOnlyUnsent(S, m, KeepOnOverflow), KeepOnlyUnsent(S, m, 0)>>
    IN {tries[i] : i \in {j \in 1..3 : /\ Cardinality(tries[j]) <= room
                                       /\ \A k \in 1..(j - 1) : Cardinality(tries[k]) > room}}

\* Other lists of the till share the room.
RoomChanges ==
    /\ \E n \in 1..MostRoom : room' = n
    /\ UNCHANGED <<shiftHere, opens, tillVarsHere, calling, serverVarsHere, screenVars>>

ThreeDaysPass ==
    /\ old' = RungUp
    /\ UNCHANGED <<shiftHere, opens, rungUp, mark, stored, room, calling,
                   serverVarsHere, screenVars>>

-----------------------------------------------------------------------------
(* The day. *)

OpensShift ==
    /\ shiftHere = 0 /\ opens < MaxOpened
    /\ opens' = opens + 1 /\ shiftHere' = opens'
    /\ UNCHANGED <<tillVarsHere, room, calling, serverVarsHere, screenVars>>

\* A receipt that there is no room for does not come about: the cart stays.
RingsUpHere ==
    /\ shiftHere # 0 /\ Len(rungUp) < MaxRung
    /\ LET s == Len(rungUp) + 1
           m == Append(mark, "waiting")
       IN \E kept \in Fitting(PruneSales(stored) \cup {s}, m) :
             stored' = kept /\ mark' = m /\ rungUp' = Append(rungUp, shiftHere)
    /\ UNCHANGED <<shiftHere, opens, old, room, calling, serverVarsHere, screenVars>>

\* Cash past a receipt, taken here and written down when the answer comes, or
\* taken at another till, or here with the answer lost.
MovesCash(r, heard) ==
    /\ shiftHere # 0 /\ rowsAt[r] = 0
    /\ rowsAt' = [rowsAt EXCEPT ![r] = shiftHere]
    /\ noted' = IF heard THEN noted \cup {r} ELSE noted
    /\ UNCHANGED <<shiftHere, opens, tillVarsHere, room, calling, atServer, screenVars>>

ClosesShift ==
    /\ shiftHere # 0
    /\ shiftHere' = 0
    /\ UNCHANGED <<opens, tillVarsHere, room, calling, serverVarsHere, screenVars>>

-----------------------------------------------------------------------------
(* The queue; its order is TillSync's matter. *)

SendsSale(s) ==
    /\ calling = NoCall
    /\ s \in stored /\ mark[s] = "waiting"
    /\ calling' = [sale |-> s, answer |-> "none"]
    /\ UNCHANGED <<shiftHere, opens, tillVarsHere, room, serverVarsHere, screenVars>>

\* What is there already is answered as before.
ServerDecides(answer) ==
    /\ calling # NoCall /\ calling.answer = "none"
    /\ answer = "refused" => calling.sale \notin atServer
    /\ atServer' = IF answer = "sent" THEN atServer \cup {calling.sale} ELSE atServer
    /\ calling' = [calling EXCEPT !.answer = answer]
    /\ UNCHANGED <<shiftHere, opens, tillVarsHere, room, rowsAt, noted, screenVars>>

\* The list is written back with the answer, if there is room for it.
HearsSale ==
    /\ calling.answer # "none"
    /\ LET m == [mark EXCEPT ![calling.sale] = calling.answer]
       IN IF Fitting(stored, m) = {} THEN UNCHANGED <<mark, stored>>
          ELSE mark' = m /\ stored' \in Fitting(stored, m)
    /\ calling' = NoCall
    /\ UNCHANGED <<shiftHere, opens, rungUp, old, room, serverVarsHere, screenVars>>

LosesSale ==
    /\ calling # NoCall
    /\ calling' = NoCall
    /\ UNCHANGED <<shiftHere, opens, tillVarsHere, room, serverVarsHere, screenVars>>

\* A person sends a refused sale once more.
RetriesStuck(s) ==
    /\ s \in stored /\ mark[s] = "refused"
    /\ LET m == [mark EXCEPT ![s] = "waiting"]
       IN stored' \in Fitting(stored, m) /\ mark' = m
    /\ UNCHANGED <<shiftHere, opens, rungUp, old, room, calling,
                   serverVarsHere, screenVars>>

-----------------------------------------------------------------------------
(* The closing screen. *)

DrawerAtServer(k) ==
    [shift |-> k, sales |-> SalesOf(atServer, k), rows |-> {r \in Rows : rowsAt[r] = k}]

\* The answer of before is forgotten and the server asked anew.
OpensClosing ==
    /\ shiftHere # 0 /\ Len(questions) < MaxQuestions
    /\ questions' = Append(questions, [shift |-> shiftHere, at |-> "asked", answer |-> NoAnswer])
    /\ serverCash' = NoAnswer
    /\ UNCHANGED <<shiftHere, opens, tillVarsHere, room, calling, serverVarsHere>>

ServerCounts(q) ==
    /\ questions[q].at = "asked"
    /\ questions' = [questions EXCEPT ![q].at = "answered",
                                      ![q].answer = DrawerAtServer(questions[q].shift)]
    /\ UNCHANGED <<shiftHere, opens, tillVarsHere, room, calling,
                   serverVarsHere, serverCash>>

\* Whatever answer comes last is shown, and a failure is no answer.
HearsCash(q) ==
    /\ questions[q].at # "heard"
    /\ \/ questions[q].at = "answered" /\ serverCash' = questions[q].answer
       \/ serverCash' = NoAnswer
    /\ questions' = [questions EXCEPT ![q].at = "heard", ![q].answer = NoAnswer]
    /\ UNCHANGED <<shiftHere, opens, tillVarsHere, room, calling, serverVarsHere>>

\* The till's own count: all its sales of the shift, refused ones too, and the
\* rows it wrote down.
TallyShift ==
    Cardinality(SalesOf(stored, shiftHere)) + Cardinality({r \in noted : rowsAt[r] = shiftHere})

\* What the till still has to send, refused sales included, on top of the server's.
Queued == NotSent(SalesOf(stored, shiftHere), mark)
DrawerFigures ==
    IF serverCash = NoAnswer THEN TallyShift
    ELSE Cardinality(serverCash.sales) + Cardinality(Queued) + Cardinality(serverCash.rows)

ClosingNext ==
    \/ RoomChanges \/ ThreeDaysPass
    \/ OpensShift \/ RingsUpHere \/ ClosesShift
    \/ \E r \in Rows, heard \in BOOLEAN : MovesCash(r, heard)
    \/ \E s \in RungUp : SendsSale(s) \/ RetriesStuck(s)
    \/ \E answer \in {"sent", "refused"} : ServerDecides(answer)
    \/ HearsSale \/ LosesSale
    \/ OpensClosing
    \/ \E q \in DOMAIN questions : ServerCounts(q) \/ HearsCash(q)

ClosingSpec == ClosingInit /\ [][ClosingNext]_closingVars

-----------------------------------------------------------------------------
\* The shape of the state: a sale on its way is one the till still has, and
\* nothing is at the server that was not rung up.
ClosingTypeOK ==
    /\ shiftHere \in 0..opens /\ opens \in 0..MaxOpened
    /\ rungUp \in [RungUp -> 1..opens]
    /\ mark \in [RungUp -> {"waiting", "refused", "sent"}]
    /\ stored \subseteq RungUp /\ old \subseteq RungUp /\ atServer \subseteq RungUp
    /\ calling # NoCall => calling.sale \in stored
    /\ room \in 1..MostRoom
    /\ rowsAt \in [Rows -> 0..opens] /\ noted \subseteq Rows
    /\ Len(questions) <= MaxQuestions

\* A sale that was rung up is at the server or in the till, whatever is pruned,
\* refused or squeezed out for want of room (sales-retention.ts, storage.ts).
UnsentIsKept == RungUp \subseteq stored \cup atServer

CashIn(k) == Cardinality(SalesOf(RungUp, k)) + Cardinality({r \in Rows : rowsAt[r] = k})

\* With an answer that nothing has overtaken, the screen expects exactly the cash
\* that went through the drawer, refused sales included (shift-tally.ts).
FigureIsTheDrawer ==
    shiftHere # 0 /\ serverCash = DrawerAtServer(shiftHere) /\ Queued \cap atServer = {} =>
        DrawerFigures = CashIn(shiftHere)

\* The till forgets only what is at the server, and of the open shift only when
\* there is no room for the list it would write.
ForgetsOnlySent ==
    [][\A s \in stored \ stored' :
          /\ mark'[s] = "sent" /\ s \in atServer
          /\ rungUp[s] = shiftHere => Cardinality(stored) + 1 > room]_closingVars

\* The screen always says how much cash there is to count.
\* (The code does not keep this: README.)
FigureIsAlwaysTheDrawer ==
    shiftHere # 0 /\ serverCash # NoAnswer =>
        DrawerFigures = CashIn(shiftHere)
=============================================================================

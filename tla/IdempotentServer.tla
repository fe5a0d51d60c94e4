--------------------------- MODULE IdempotentServer ---------------------------
(***************************************************************************)
(* The server's side of a command that is sent again until it is answered. *)
(*                                                                         *)
(* A command carries a key that its client made.  The handler first checks *)
(* what it can outside any transaction; then it opens one, inserts the key, *)
(* does the work and commits both together.  A second copy of the command   *)
(* waits on the unique key until the first one settles, and is then either  *)
(* answered from the stored response or does the work itself.               *)
(*                                                                         *)
(* A command here moves one unit: from a place that has to have it, to a    *)
(* place or out of the shop.  That is a putaway, a write-off, a delivery of  *)
(* marked packs, and as well the sale of a pack, whose code has to be lying  *)
(* in the shop.                                                             *)
(***************************************************************************)
EXTENDS Integers, Sequences

CONSTANTS
    Commands,   \* commands, each with a key of its own
    Early,      \* those whose handler looks at the goods before the key
    Places,     \* where goods are
    From, To,   \* of each command, a place or Outside
    Opening,    \* the goods of each place at the start
    MaxGoods,   \* bound: what others bring to a place
    Slots       \* bound: copies of commands the server handles at once

Outside == "outside"

ASSUME ServerAssumption ==
    /\ Early \subseteq Commands
    /\ Outside \notin Places
    /\ From \in [Commands -> Places \cup {Outside}]
    /\ To \in [Commands -> Places \cup {Outside}]
    /\ MaxGoods \in Nat
    /\ Opening \in [Places -> 0..MaxGoods]

VARIABLES
    goods,      \* units in each place
    keys,       \* keys of committed transactions, table "idempotency_keys"
    applied,    \* the documents written, in order
    attempts    \* the copies of commands on their way, at work or answered

serverVars == <<goods, keys, applied, attempts>>

NoCommand == "no command"

\* awaited: the client still waits for the answer to this copy.
Attempt ==
    [command : Commands \cup {NoCommand},
     phase : {"free", "sent", "checked", "claimed", "answered"},
     answer : {"none", "ok", "refused"},
     awaited : BOOLEAN]

Free == [command |-> NoCommand, phase |-> "free", answer |-> "none", awaited |-> FALSE]

ServerInit ==
    /\ goods = Opening
    /\ keys = {}
    /\ applied = <<>>
    /\ attempts = [s \in Slots |-> Free]

-----------------------------------------------------------------------------
At(s, phase) == attempts[s].phase = phase

Moves(s, phase) == attempts' = [attempts EXCEPT ![s].phase = phase]

\* An answer that nobody waits for any more goes nowhere.
Answers(s, answer) ==
    attempts' = [attempts EXCEPT ![s] =
                    IF @.awaited THEN [@ EXCEPT !.phase = "answered", !.answer = answer]
                    ELSE Free]

\* Goods that nobody counts.
Assumed(c) == TRUE
Covered(c) == From[c] \in Places => goods[From[c]] >= 1

\* One unit out of From, one into To.
GoodsAfter(c) ==
    [p \in Places |-> goods[p] - (IF p = From[c] THEN 1 ELSE 0)
                               + (IF p = To[c] THEN 1 ELSE 0)]

\* The client puts a copy of the command on the wire.
Sends(s, c) ==
    /\ attempts[s] = Free
    /\ attempts' = [attempts EXCEPT ![s] =
                       [command |-> c, phase |-> "sent", answer |-> "none", awaited |-> TRUE]]
    /\ UNCHANGED <<goods, keys, applied>>

\* The checks before the transaction.  A copy of a command that was already
\* done is judged by what that left behind.
Check(s) ==
    LET c == attempts[s].command
    IN /\ At(s, "sent")
       /\ IF c \in Early /\ ~Covered(c) THEN Answers(s, "refused") ELSE Moves(s, "checked")
       /\ UNCHANGED <<goods, keys, applied>>

\* A key table that is asked by nobody.
KeyUnseen(c) == FALSE
KeyTaken(c) == c \in keys

\* A copy that does not wait for the one at work.
WaitsForNobody(s) == TRUE
WaitsForKey(s) ==
    \A t \in Slots \ {s} : At(t, "claimed") => attempts[t].command # attempts[s].command

\* The key row is inserted, or found committed and answered from.
Claim(s) ==
    /\ At(s, "checked")
    /\ WaitsForKey(s)
    /\ IF KeyTaken(attempts[s].command) THEN Answers(s, "ok") ELSE Moves(s, "claimed")
    /\ UNCHANGED <<goods, keys, applied>>

\* The work and the commit.  A guard of an UPDATE that fails rolls everything
\* back, the key too, and is a refusal to the client.
Work(s) ==
    LET c == attempts[s].command
    IN /\ At(s, "claimed")
       /\ Covered(c)
       /\ goods' = GoodsAfter(c)
       /\ keys' = keys \cup {c}
       /\ applied' = Append(applied, c)
       /\ Answers(s, "ok")

RollBack(s) ==
    /\ At(s, "claimed")
    /\ ~Covered(attempts[s].command)
    /\ Answers(s, "refused")
    /\ UNCHANGED <<goods, keys, applied>>

\* The client stops waiting: the connection broke, the app was closed, or the
\* server failed.  An answer on its way back is lost; a copy that is not
\* answered may still be carried out.
GivesUp(s) ==
    /\ attempts' = [attempts EXCEPT ![s] =
                       IF At(s, "answered") THEN Free ELSE [@ EXCEPT !.awaited = FALSE]]
    /\ UNCHANGED <<goods, keys, applied>>

\* The client has the answer.
Takes(s, answer) ==
    /\ At(s, "answered") /\ attempts[s].answer = answer
    /\ attempts' = [attempts EXCEPT ![s] = Free]
    /\ UNCHANGED <<goods, keys, applied>>

\* A copy that nobody waits for and that never got further: it did not reach
\* the server, or the server stopped and its transaction left nothing.
Dies(s) ==
    /\ ~At(s, "free") /\ ~At(s, "answered") /\ ~attempts[s].awaited
    /\ attempts' = [attempts EXCEPT ![s] = Free]
    /\ UNCHANGED <<goods, keys, applied>>

\* The rest of the shop.
OthersTrade ==
    \E p \in Places, n \in 0..MaxGoods :
        /\ goods' = [goods EXCEPT ![p] = n]
        /\ UNCHANGED <<keys, applied, attempts>>

ServerStep(s) == Check(s) \/ Claim(s) \/ Work(s) \/ RollBack(s) \/ Dies(s)

\* Clients that send whatever they like as often as they like.
AnyClient(s) ==
    \/ \E c \in Commands : Sends(s, c)
    \/ \E answer \in {"ok", "refused"} : Takes(s, answer)
    \/ GivesUp(s)

ServerNext == OthersTrade \/ \E s \in Slots : ServerStep(s) \/ AnyClient(s)

ServerSpec == ServerInit /\ [][ServerNext]_serverVars

-----------------------------------------------------------------------------
ServerTypeOK ==
    /\ goods \in [Places -> Nat]
    /\ keys \subseteq Commands
    /\ applied \in Seq(Commands)
    /\ attempts \in [Slots -> Attempt]

\* A command is carried out at most once, however many copies of it arrive,
\* overlap or are cut off (runIdempotent).
AppliedOnce ==
    \A i, j \in 1..Len(applied) : applied[i] = applied[j] => i = j
=============================================================================

------------------------------ MODULE TillPlace ------------------------------
(***************************************************************************)
(* Where the till is: the place it sells at, the grid of goods it shows,   *)
(* the shift it opens and the list of shifts that are open there already.  *)
(*                                                                         *)
(* The place is the one chosen by hand, if the person signed in has it,    *)
(* and otherwise the one the grid is of.  Grids, lists and openings come   *)
(* from the server later than they were asked for, and each call carries   *)
(* what the till knew when it made it.  Places are numbered in the order   *)
(* of their names, which is the order the server lists them in.            *)
(***************************************************************************)
EXTENDS Integers, FiniteSets, FiniteSetsExt

CONSTANTS
    Places,         \* what the company may come to have
    MaxSignIns,     \* bound: sign-ins
    MaxCalls,       \* bound: calls on their way at once
    MaxPlaceSales   \* bound: sales

ASSUME PlaceAssumption ==
    Places \subseteq Nat \ {0} /\ Places # {} /\ {MaxSignIns, MaxCalls, MaxPlaceSales} \subseteq Nat

VARIABLES
    companyPlaces,  \* "locations" at the server
    session,        \* who is signed in, the places they know, the place the grid is of
    signIns,        \* sign-ins so far
    chosen,         \* the place chosen by hand, 0 for none; it survives sign-outs
    switching,      \* whether the screen waits for the grid of another place
    till,           \* the open shift: its place, and the place the server has it at
    calls,          \* calls on their way, with what they carry
    listShown,         \* whose list of open shifts is shown
    listAsked,      \* questions for such a list, and whether the screen still wants them
    soldAs          \* the sales: the shift's place and the sale's

placeVars ==
    <<companyPlaces, session, signIns, chosen, switching, till, calls, listShown, listAsked,
      soldAs>>

Nowhere == [by |-> 0, places |-> {}, grid |-> 0]    \* nobody is signed in
NoTill == [at |-> 0, told |-> 0]
Unasked == [by |-> 0, place |-> 0]

CurrentPlace(s, c) == IF c \in s.places THEN c ELSE s.grid
Here == CurrentPlace(session, chosen)

PlaceInit ==
    /\ companyPlaces \in {{p} : p \in Places}
    /\ session = Nowhere /\ signIns = 0
    /\ chosen = 0 /\ switching = FALSE /\ till = NoTill
    /\ calls = {} /\ listShown = Unasked /\ listAsked = {} /\ soldAs = {}

-----------------------------------------------------------------------------
(* The list of shifts that are open here. *)

\* The question the screen wants answered: none while a shift is open.
ListKey(s, c, t) ==
    IF s = Nowhere \/ t # NoTill THEN Unasked ELSE [by |-> s.by, place |-> CurrentPlace(s, c)]

\* Whenever the till moves, another person signs in or a shift ends, what was
\* asked before is not wanted any more and the question is asked anew.
Follows ==
    LET before == ListKey(session, chosen, till)
        after == ListKey(session', chosen', till')
    IN IF before = after THEN UNCHANGED <<listShown, listAsked>>
       ELSE /\ listShown' = IF after = Unasked THEN Unasked ELSE listShown
            /\ listAsked' = {[q EXCEPT !.wanted = FALSE] : q \in listAsked}
                            \cup (IF after = Unasked THEN {} ELSE {[key |-> after, wanted |-> TRUE]})

\* An answer, or a failure, which leaves an empty list.
HearsList(q) ==
    /\ q \in listAsked
    /\ listAsked' = listAsked \ {q}
    /\ listShown' = IF q.wanted THEN q.key ELSE listShown
    /\ UNCHANGED <<companyPlaces, session, signIns, chosen, switching, till,
                   calls, soldAs>>

-----------------------------------------------------------------------------
(* Signing in and out. *)

\* A new place, or one renamed so that it comes first.
AddsPlace(p) ==
    /\ p \notin companyPlaces
    /\ companyPlaces' = companyPlaces \cup {p}
    /\ UNCHANGED <<session, signIns, chosen, switching, till, calls, listShown,
                   listAsked, soldAs>>

SignsIn ==
    /\ session = Nowhere /\ signIns < MaxSignIns
    /\ signIns' = signIns + 1
    /\ session' = [by |-> signIns', places |-> companyPlaces, grid |-> Min(companyPlaces)]
    /\ UNCHANGED <<companyPlaces, chosen, switching, till, calls, soldAs>>
    /\ Follows

\* By hand, or because the server does not know the session any more.
SignsOut ==
    /\ session # Nowhere
    /\ session' = Nowhere
    /\ UNCHANGED <<companyPlaces, signIns, chosen, switching, till, calls, soldAs>>
    /\ Follows

\* What was on its way is lost with the page; the rest is in localStorage.
Reloads ==
    /\ calls' = {} /\ switching' = FALSE /\ listShown' = Unasked
    /\ LET key == ListKey(session, chosen, till)
       IN listAsked' = IF key = Unasked THEN {} ELSE {[key |-> key, wanted |-> TRUE]}
    /\ UNCHANGED <<companyPlaces, session, signIns, chosen, till, soldAs>>

-----------------------------------------------------------------------------
(* The place and the grid. *)

CallsServer(kind, place) ==
    /\ Cardinality(calls) < MaxCalls
    /\ calls' = calls \cup {[kind |-> kind, place |-> place, session |-> session]}

SwitchesTo(p) ==
    /\ session # Nowhere /\ till = NoTill /\ ~switching
    /\ p \in session.places \ {Here}
    /\ switching' = TRUE
    /\ CallsServer("switch", p)
    /\ UNCHANGED <<companyPlaces, session, signIns, chosen, till, listShown,
                   listAsked, soldAs>>

\* On a timer, when the network is back, and after whatever changes the stock.
RefreshesGrid ==
    /\ session # Nowhere
    /\ CallsServer("refresh", Here)
    /\ UNCHANGED <<companyPlaces, session, signIns, chosen, switching, till,
                   listShown, listAsked, soldAs>>

\* The grid is written into the session as it was when the call was made.
HearsGrid(c) ==
    /\ c \in calls /\ c.kind \in {"switch", "refresh"}
    /\ calls' = calls \ {c}
    /\ session' = [c.session EXCEPT !.grid = c.place]
    /\ IF c.kind = "switch" THEN chosen' = c.place /\ switching' = FALSE
       ELSE UNCHANGED <<chosen, switching>>
    /\ UNCHANGED <<companyPlaces, signIns, till, soldAs>>
    /\ Follows

FailsToAnswer(c) ==
    /\ c \in calls
    /\ calls' = calls \ {c}
    /\ switching' = IF c.kind = "switch" THEN FALSE ELSE switching
    /\ UNCHANGED <<companyPlaces, session, signIns, chosen, till, listShown,
                   listAsked, soldAs>>

-----------------------------------------------------------------------------
(* The shift and its sales. *)

\* The screen lets nobody open a shift while it waits for another place.
OpensTill ==
    /\ session # Nowhere /\ till = NoTill /\ ~switching
    /\ till' = [at |-> Here, told |-> 0]
    /\ UNCHANGED <<companyPlaces, session, signIns, chosen, switching, calls, soldAs>>
    /\ Follows

\* The opening carries the place the till is at now, as often as it is tried.
SyncsShift ==
    /\ session # Nowhere /\ till # NoTill /\ till.told = 0
    /\ CallsServer("shift", Here)
    /\ UNCHANGED <<companyPlaces, session, signIns, chosen, switching, till,
                   listShown, listAsked, soldAs>>

\* The server keeps the first it hears of.
ServerOpens(c) ==
    /\ c \in calls /\ c.kind = "shift"
    /\ calls' = calls \ {c}
    /\ till' = IF till # NoTill /\ till.told = 0 THEN [till EXCEPT !.told = c.place] ELSE till
    /\ UNCHANGED <<companyPlaces, session, signIns, chosen, switching,
                   listShown, listAsked, soldAs>>

\* The sale is booked where the till is; the server links it to the shift if that
\* is where it has the shift.
SellsAtPlace ==
    /\ session # Nowhere /\ till # NoTill /\ Cardinality(soldAs) < MaxPlaceSales
    /\ soldAs' = soldAs \cup {[shift |-> till.at, at |-> Here]}
    /\ UNCHANGED <<companyPlaces, session, signIns, chosen, switching, till,
                   calls, listShown, listAsked>>

\* What the close itself sends is TillSync's matter.
ClosesTill ==
    /\ till # NoTill /\ session # Nowhere
    /\ till' = NoTill
    /\ calls' = {c \in calls : c.kind # "shift"}
    /\ UNCHANGED <<companyPlaces, session, signIns, chosen, switching, soldAs>>
    /\ Follows

PlaceNext ==
    \/ \E p \in Places : AddsPlace(p) \/ SwitchesTo(p)
    \/ SignsIn \/ SignsOut \/ Reloads \/ RefreshesGrid
    \/ \E c \in calls : HearsGrid(c) \/ FailsToAnswer(c) \/ ServerOpens(c)
    \/ \E q \in listAsked : HearsList(q)
    \/ OpensTill \/ SyncsShift \/ SellsAtPlace \/ ClosesTill

PlaceSpec == PlaceInit /\ [][PlaceNext]_placeVars

-----------------------------------------------------------------------------
\* The shape of the state: nobody is signed in at a place they do not have, and
\* at most one list is wanted.
PlaceTypeOK ==
    /\ companyPlaces \subseteq Places /\ companyPlaces # {}
    /\ session # Nowhere => session.grid \in session.places /\ session.by \in 1..signIns
    /\ session.places \subseteq companyPlaces
    /\ chosen \in companyPlaces \cup {0}
    /\ till # NoTill => till.at \in companyPlaces
    /\ Cardinality({q \in listAsked : q.wanted}) <= 1
    /\ switching => \E c \in calls : c.kind = "switch"

\* The list of open shifts, once the screen does not wait for one, is that of the
\* person and the place the till is at, however late the answers for earlier
\* people and places come (App.tsx, the effect with its cancelled flag).
ListIsOfHere ==
    (\A q \in listAsked : ~q.wanted) => listShown = ListKey(session, chosen, till)

\* No switch of places lands under an open shift: the shift is opened at the place
\* that was chosen last, and that stays the choice until it is closed.
ChoiceOutlivesShift ==
    [][till # NoTill => chosen' = chosen]_placeVars

\* The server has the shift where it was opened, and every sale is booked there.
\* (The code does not keep this: README.)
BookedWhereOpened == till.told \in {0, till.at} /\ \A s \in soldAs : s.at = s.shift

\* The grid shows the goods of the place where the sales are booked.
\* (The code does not keep this: README.)
GridIsOfHere == session # Nowhere => session.grid = Here

\* Who has signed out stays out.
\* (The code does not keep this: README.)
SignedOutStaysOut == [][session = Nowhere /\ session' # Nowhere => session'.by > signIns]_placeVars
=============================================================================

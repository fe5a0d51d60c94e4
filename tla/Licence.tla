------------------------------ MODULE Licence ------------------------------
(***************************************************************************)
(* A till whose tariff runs out (pos-auth.ts, tariff-gate.ts, the till's   *)
(* api.ts and useLicence.ts).  The server refuses every writing but the    *)
(* few that wind a shop down; the till asks about the tariff by itself,    *)
(* goes back to the sign-in when it hears that it is over, and is let in   *)
(* again only to close a shift that is open on the server.  Answers can    *)
(* come late, and the till does not ask which session they are for.        *)
(***************************************************************************)
EXTENDS Integers, FiniteSets

CONSTANTS
    MaxTurns,     \* bound: how often the tariff ends or is paid
    MaxSessions,  \* bound: sign-ins
    MaxSold,      \* bound: sales
    MaxWire       \* bound: requests on their way at once

ASSUME LicenceAssumption ==
    MaxTurns \in Nat /\ MaxSessions \in Nat /\ MaxSold \in Nat /\ MaxWire \in Nat

VARIABLES
    active, turns,       \* the tariff, and how often it has turned
    validFrom,           \* the first session whose token is still good
    serverShift,         \* "none", "open" or "closed", on the server
    arrived,             \* sales the server has taken
    signedIn, signIns,   \* the till's session (0: the sign-in), sessions so far
    locked,              \* session.tariffLock
    tillShift,           \* the till's shift: "none", "local" or "synced"
    sold, pending,       \* sales rung up, those in the queue
    refused,             \* sales marked as refused, for a person to look at
    licenceRefused,      \* useLicence has heard a refusal for this token
    wire,                \* request on its way -> its session and the answer, if any
    outBy                \* what ended the last session

licenceVars == <<active, turns, validFrom, serverShift, arrived, signedIn, signIns, locked,
                 tillShift, sold, pending, refused, licenceRefused, wire, outBy>>
serverVars == <<active, turns, validFrom, serverShift, arrived>>
tillVars == <<signedIn, signIns, locked, tillShift, sold, pending, refused, licenceRefused,
              outBy>>

Kinds == {"shift", "sale", "close", "licence"}
Nothing == [by |-> 0, sale |-> 0, answer |-> "none"]

LicenceInit ==
    /\ active = TRUE /\ turns = 0 /\ validFrom = 1 /\ serverShift = "none" /\ arrived = {}
    /\ signedIn = 0 /\ signIns = 0 /\ locked = FALSE /\ tillShift = "none"
    /\ sold = 0 /\ pending = {} /\ refused = {} /\ licenceRefused = FALSE
    /\ wire = [k \in Kinds |-> Nothing] /\ outBy = "nothing"

-----------------------------------------------------------------------------
(* The owner, the platform and the person at the till. *)

TariffTurns ==
    /\ turns < MaxTurns /\ turns' = turns + 1 /\ active' = ~active
    /\ UNCHANGED <<validFrom, serverShift, arrived, tillVars, wire>>

\* A new PIN ends every session there is.
PinChanges ==
    /\ signIns # 0 /\ validFrom = 1 /\ validFrom' = signIns + 1
    /\ UNCHANGED <<active, turns, serverShift, arrived, tillVars, wire>>

SignsIn ==
    /\ signedIn = 0 /\ signIns < MaxSessions
    /\ active \/ serverShift = "open"
    /\ signIns' = signIns + 1 /\ signedIn' = signIns' /\ locked' = ~active
    /\ licenceRefused' = FALSE
    /\ UNCHANGED <<serverVars, tillShift, sold, pending, refused, outBy, wire>>

SignsOut ==
    /\ signedIn # 0 /\ signedIn' = 0 /\ locked' = FALSE /\ outBy' = "himself"
    /\ UNCHANGED <<serverVars, signIns, tillShift, sold, pending, refused, licenceRefused, wire>>

OpensLocally ==
    /\ signedIn # 0 /\ ~locked /\ tillShift = "none" /\ serverShift = "none"
    /\ tillShift' = "local"
    /\ UNCHANGED <<serverVars, signedIn, signIns, locked, sold, pending, refused, licenceRefused,
                   outBy, wire>>

RingsUp ==
    /\ signedIn # 0 /\ ~locked /\ tillShift # "none" /\ sold < MaxSold
    /\ sold' = sold + 1 /\ pending' = pending \cup {sold'}
    /\ UNCHANGED <<serverVars, signedIn, signIns, locked, tillShift, refused, licenceRefused,
                   outBy, wire>>

-----------------------------------------------------------------------------
(* Requests and answers. *)

Sends(kind) ==
    /\ signedIn # 0 /\ wire[kind] = Nothing
    /\ Cardinality({k \in Kinds : wire[k] # Nothing}) < MaxWire
    /\ kind = "shift" => tillShift = "local"
    /\ kind = "sale" => pending \ refused # {}
    /\ kind = "close" => serverShift = "open"
    /\ kind = "licence" => ~licenceRefused
    /\ \E sale \in IF kind = "sale" THEN pending \ refused ELSE {0} :
          wire' = [wire EXCEPT ![kind] = [by |-> signedIn, sale |-> sale, answer |-> "none"]]
    /\ UNCHANGED <<serverVars, tillVars>>

\* Reading never; closing a shift winds the shop down.
NeedsActiveTariff(kind) == kind \notin {"licence", "close"}

AnswerTo(kind) ==
    IF wire[kind].by < validFrom THEN "unauthorized"
    ELSE IF ~active /\ (kind = "licence" \/ NeedsActiveTariff(kind)) THEN "tariff"
    ELSE "done"

Handles(kind) ==
    LET answer == AnswerTo(kind) IN
    /\ wire[kind] # Nothing /\ wire[kind].answer = "none"
    /\ wire' = [wire EXCEPT ![kind].answer = answer]
    /\ serverShift' = CASE answer = "done" /\ kind = "shift" -> "open"
                        [] answer = "done" /\ kind = "close" -> "closed"
                        [] OTHER -> serverShift
    /\ arrived' = IF answer = "done" /\ kind = "sale"
                  THEN arrived \cup {wire[kind].sale} ELSE arrived
    /\ UNCHANGED <<active, turns, validFrom, tillVars>>

AnyRefusal(answer) == answer # "done"
\* Both refusals of this module are about the till as a whole.
RefusalIsAboutThisRequest(answer) == answer \notin {"done", "unauthorized", "tariff"}

\* Whoever is signed in now, and whichever session had asked.
HandleUnauthorized(answer) ==
    IF answer = "done" \/ signedIn = 0 \/ (answer = "tariff" /\ locked)
    THEN UNCHANGED <<signedIn, locked, outBy>>
    ELSE signedIn' = 0 /\ locked' = FALSE /\ outBy' = answer

Hears(kind) ==
    LET answer == wire[kind].answer IN
    /\ answer # "none" /\ wire' = [wire EXCEPT ![kind] = Nothing]
    /\ HandleUnauthorized(answer)
    /\ pending' = IF kind = "sale" /\ answer = "done"
                  THEN pending \ {wire[kind].sale} ELSE pending
    /\ refused' = IF kind = "sale" /\ RefusalIsAboutThisRequest(answer)
                  THEN refused \cup {wire[kind].sale} ELSE refused
    /\ tillShift' = CASE kind = "shift" /\ answer = "done" -> "synced"
                      [] kind = "close" /\ answer = "done" -> "none"
                      [] OTHER -> tillShift
    /\ licenceRefused' = (licenceRefused \/ (kind = "licence" /\ answer = "tariff"))
    /\ UNCHANGED <<serverVars, signIns, sold>>

\* Neither the request nor its answer comes through.
Loses(kind) ==
    /\ wire[kind] # Nothing /\ wire' = [wire EXCEPT ![kind] = Nothing]
    /\ UNCHANGED <<serverVars, tillVars>>

LicenceNext ==
    \/ TariffTurns \/ PinChanges \/ SignsIn \/ SignsOut \/ OpensLocally \/ RingsUp
    \/ \E kind \in Kinds : Sends(kind) \/ Handles(kind) \/ Hears(kind) \/ Loses(kind)

LicenceSpec == LicenceInit /\ [][LicenceNext]_licenceVars

-----------------------------------------------------------------------------
LicenceTypeOK ==
    /\ signedIn \in {0, signIns} /\ (locked => signedIn # 0)
    /\ pending \subseteq 1..sold /\ arrived \subseteq 1..sold
    /\ \A k \in Kinds : wire[k].by <= signIns

(***************************************************************************)
(* What was sold is at the server or waits in the queue, and nothing waits *)
(* for a person because a tariff or a session had ended: after the payment *)
(* all of it goes out by itself (refusal.ts; App.tsx, handleUnauthorized). *)
(***************************************************************************)
SalesOutliveTariff == 1..sold = pending \cup arrived /\ refused = {}

(***************************************************************************)
(* A shift that is open on the server can be closed whatever happens to    *)
(* the tariff: whoever was let in to close it is not shown the door for a  *)
(* refusal, and the closing itself is never refused for it.                *)
(***************************************************************************)
ShiftCanBeClosed ==
    [][/\ locked /\ signedIn' = 0 => outBy' # "tariff"
       /\ wire["close"].answer = "none" => wire'["close"].answer # "tariff"]_licenceVars

\* "Let in for exactly that": any shift of the till, also one the server has not
\* heard of, can be closed when the tariff is over (routes/pos.ts, POST /login).
\* (The code does not keep this: README.)
LetInToClose == tillShift # "none" /\ signedIn = 0 => active \/ serverShift = "open"
=============================================================================

------------------------------- MODULE Consent -------------------------------
(***************************************************************************)
(* Whether the platform's support may look at a shop's figures             *)
(* (support-access.ts, routes/companies.ts, routes/cabinet.ts).            *)
(*                                                                         *)
(* Support asks, the owner opens, declines or closes from any of several   *)
(* phones, and what was opened closes by itself.  Only the latest request  *)
(* counts.  An answer is decided on what the row said when it was read and *)
(* is written without asking again.                                        *)
(***************************************************************************)
EXTENDS Integers, Sequences

CONSTANTS
    Phones,         \* on which an owner's cabinet is open
    GrantHours,
    MaxRequests,    \* bound on the requests
    LastTick        \* bound: the clock

ASSUME ConsentAssumption == GrantHours \in Nat \ {0} /\ MaxRequests \in Nat /\ LastTick \in Nat

VARIABLES
    tick,
    grants,         \* the requests, oldest first
    answering,      \* what an owner's request read and is about to write
    refusals,       \* requests an owner has said no to and was told so
    seen            \* the last time support was shown something, and by which request

consentVars == <<tick, grants, answering, refusals, seen>>

Never == -1
Asked == [granted |-> Never, expires |-> Never, declined |-> FALSE, revoked |-> FALSE]
NoAnswer == [to |-> 0, says |-> "nothing", read |-> Never]
NothingSeen == [by |-> 0, at |-> Never]

ConsentInit ==
    /\ tick = 0 /\ grants = <<>> /\ answering = [p \in Phones |-> NoAnswer]
    /\ refusals = {} /\ seen = NothingSeen

-----------------------------------------------------------------------------
\* A no outweighs a yes, whichever was written last.
GrantState(g) ==
    IF g.declined THEN "declined" ELSE IF g.revoked THEN "revoked"
    ELSE IF g.granted = Never THEN "pending"
    ELSE IF g.expires > tick THEN "active" ELSE "expired"

IsOpen(g) == GrantState(g) = "active"
LatestOpen == grants # <<>> /\ IsOpen(grants[Len(grants)])

PassesTime ==
    /\ tick < LastTick /\ tick' = tick + 1
    /\ UNCHANGED <<grants, answering, refusals, seen>>

\* Support asks, also when it may look already.
AsksAccess ==
    /\ Len(grants) < MaxRequests
    /\ grants' = Append(grants, Asked)
    /\ UNCHANGED <<tick, answering, refusals, seen>>

\* What support looks at is shown if the latest request is open at that moment.
Looks ==
    /\ LatestOpen
    /\ seen' = [by |-> Len(grants), at |-> tick]
    /\ UNCHANGED <<tick, grants, answering, refusals>>

\* What may still be said to the request as it was read.
MaySay(i, says) ==
    IF says = "revoke" THEN IsOpen(grants[i]) ELSE GrantState(grants[i]) = "pending"

AnswerReads(p, i, says) ==
    /\ answering[p] = NoAnswer /\ MaySay(i, says)
    /\ answering' = [answering EXCEPT ![p] = [to |-> i, says |-> says, read |-> tick]]
    /\ UNCHANGED <<tick, grants, refusals, seen>>

\* The time that is written is the time of the reading.
Said(g, a) ==
    CASE a.says = "grant" -> [g EXCEPT !.granted = a.read, !.expires = a.read + GrantHours]
      [] a.says = "decline" -> [g EXCEPT !.declined = TRUE]
      [] a.says = "revoke" -> [g EXCEPT !.revoked = TRUE]

AnswerCommits(p) ==
    LET a == answering[p] IN
    /\ a # NoAnswer
    /\ grants' = [grants EXCEPT ![a.to] = Said(@, a)]
    /\ answering' = [answering EXCEPT ![p] = NoAnswer]
    /\ refusals' = IF a.says = "grant" THEN refusals ELSE refusals \cup {a.to}
    /\ UNCHANGED <<tick, seen>>

ConsentNext ==
    \/ PassesTime \/ AsksAccess \/ Looks
    \/ \E p \in Phones :
          \/ AnswerCommits(p)
          \/ \E i \in DOMAIN grants, says \in {"grant", "decline", "revoke"} : AnswerReads(p, i, says)

ConsentSpec == ConsentInit /\ [][ConsentNext]_consentVars

-----------------------------------------------------------------------------
\* The rows as they may be: nothing is open for longer than it was opened for.
ConsentTypeOK ==
    /\ \A i \in DOMAIN grants :
          grants[i].granted = Never \/ grants[i].expires = grants[i].granted + GrantHours
    /\ seen.by \in 0..Len(grants) /\ seen.at \in {Never} \cup 0..tick

(***************************************************************************)
(* Once an owner's "no" was answered with "done", nobody looks by that     *)
(* request any more, even if a "yes" from another phone, decided before,   *)
(* is written after it (support-access.ts, grantState).                    *)
(***************************************************************************)
NoIsFinal == \A i \in refusals : ~IsOpen(grants[i])

(***************************************************************************)
(* Support looks only by the latest request, which the owner has answered  *)
(* with yes less than GrantHours ago and with nothing else.                *)
(***************************************************************************)
LooksByConsent ==
    [][seen' # seen =>
          /\ seen'.by = Len(grants) /\ seen'.by \notin refusals
          /\ tick < grants[seen'.by].granted + GrantHours]_consentVars

\* "A request on top of an open access is not an error, it is an extension"
\* (routes/companies.ts, POST /:id/support-access).
\* (The code does not keep this: README.)
AskingKeepsAccess == [][AsksAccess /\ LatestOpen => LatestOpen']_consentVars

\* "What was answered cannot be answered again" (routes/cabinet.ts).
\* (The code does not keep this: README.)
AnsweredOnce ==
    [][\A i \in DOMAIN grants :
          GrantState(grants[i]) \in {"declined", "revoked"} => grants'[i] = grants[i]]_consentVars
=============================================================================

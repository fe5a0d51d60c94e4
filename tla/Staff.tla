------------------------------- MODULE Staff -------------------------------
(***************************************************************************)
(* Who works in a shop: roles, the PINs that open a till, and the sessions *)
(* they open (staff-operations.ts, staff.ts, pos-auth.ts).  The owner's    *)
(* screens, the cabinet, the platform's panel and the till at the door     *)
(* change the same rows, and every one of them reads before it writes.     *)
(***************************************************************************)
EXTENDS Integers, FiniteSets

CONSTANTS
    People,         \* rows of the users table, numbered by id
    FirstOwners,    \* who owns the shop at the start; each has the PIN of that number
    Pins,
    UserLimit,      \* of the tariff
    Desks,          \* requests being served at a time
    MaxChanges      \* bound on the requests that change something

ASSUME StaffAssumption ==
    /\ People \subseteq Nat \ {0} /\ FirstOwners \subseteq People \cap Pins /\ Pins \subseteq Nat \ {0}
    /\ FirstOwners # {} /\ UserLimit \in Nat /\ MaxChanges \in Nat

VARIABLES
    person,     \* the rows; a role of "none" is a row that does not exist yet
    sessions,   \* tokens a till has been given
    desk,       \* what each request has read and is about to write
    changes,
    crossed,    \* a demotion was written after somebody else's
    restored    \* people whose old PIN a late write has put back

staffVars == <<person, sessions, desk, changes, crossed, restored>>

NoPin == [code |-> 0, form |-> "none"]
Fingerprint(k) == [code |-> k, form |-> "print"]    \* pinFingerprint
Plain(k) == [code |-> k, form |-> "plain"]          \* from before there were fingerprints
NoRequest == [at |-> "none", who |-> 0, role |-> "none", pin |-> NoPin, version |-> 0,
              owners |-> {}, was |-> NoPin, wasRole |-> "none"]

StaffInit ==
    /\ \E form \in [FirstOwners -> {"plain", "print"}] :
          person = [p \in People |->
                IF p \in FirstOwners
                THEN [role |-> "owner", pin |-> [code |-> p, form |-> form[p]], version |-> 0]
                ELSE [role |-> "none", pin |-> NoPin, version |-> 0]]
    /\ sessions = {} /\ desk = [d \in Desks |-> NoRequest]
    /\ changes = 0 /\ crossed = FALSE /\ restored = {}

Hired == {p \in People : person[p].role # "none"}
Owners == {p \in People : person[p].role = "owner"}

\* The index on posPin compares what is stored, not what it stands for.
Unique(p, pin) == pin = NoPin \/ \A q \in Hired \ {p} : person[q].pin # pin

\* pinTakenBy asks for either form.
PinTaken(k, p) == \E q \in Hired \ {p} : person[q].pin \in {Fingerprint(k), Plain(k)}

Begins(d, request) ==
    /\ desk[d] = NoRequest /\ changes < MaxChanges /\ changes' = changes + 1
    /\ LET was == IF request.who = 0 THEN NoPin ELSE person[request.who].pin
           wasRole == IF request.who = 0 THEN "none" ELSE person[request.who].role
       IN desk' = [desk EXCEPT ![d] =
             [request EXCEPT !.owners = Owners, !.was = was, !.wasRole = wasRole]]
    /\ UNCHANGED <<person, sessions, crossed, restored>>

TurnedAway(d) ==
    /\ desk' = [desk EXCEPT ![d] = NoRequest]
    /\ UNCHANGED <<person, sessions, changes, crossed, restored>>

\* A row is written whole; what it says of the PIN may be older than the row.
Writes(d, p, row) ==
    /\ person' = [person EXCEPT ![p] = row]
    /\ crossed' = (crossed \/ /\ person[p].role = "owner" /\ row.role # "owner"
                               /\ desk[d].owners # Owners)
    /\ restored' = IF row.pin # person[p].pin /\ row.pin = desk[d].was
                   THEN restored \cup {p} ELSE restored
    /\ desk' = [desk EXCEPT ![d] = NoRequest]
    /\ UNCHANGED changes

-----------------------------------------------------------------------------
(* A till at the door. *)

\* The PIN is looked up by its fingerprint, then as it used to be kept.
LoginReads(d, k) ==
    \E p \in Hired :
        /\ \/ person[p].pin = Fingerprint(k)
           \/ person[p].pin = Plain(k) /\ \A q \in Hired : person[q].pin # Fingerprint(k)
        /\ Begins(d, [NoRequest EXCEPT !.at = "login", !.who = p, !.pin = person[p].pin,
                                       !.version = person[p].version])

Opens(d) == sessions' = sessions \cup {[who |-> desk[d].who, version |-> desk[d].version]}

LoginEnds(d) ==
    /\ desk[d].at = "login"
    /\ IF desk[d].pin.form = "print"
       THEN Opens(d) /\ desk' = [desk EXCEPT ![d] = NoRequest]
            /\ UNCHANGED <<person, changes, crossed, restored>>
       ELSE IF Unique(desk[d].who, Fingerprint(desk[d].pin.code))
       THEN /\ person' = [person EXCEPT ![desk[d].who].pin = Fingerprint(desk[d].pin.code)]
            /\ restored' = IF person[desk[d].who].pin # desk[d].pin
                           THEN restored \cup {desk[d].who} ELSE restored
            /\ Opens(d) /\ desk' = [desk EXCEPT ![d] = NoRequest] /\ UNCHANGED <<changes, crossed>>
       ELSE TurnedAway(d)

-----------------------------------------------------------------------------
(* The owner's list of people, in the till and in the cabinet. *)

CreateReads(d, role, k) ==
    /\ Cardinality(Hired) < UserLimit
    /\ k \in Pins => ~PinTaken(k, 0)
    /\ Begins(d, [NoRequest EXCEPT !.at = "create", !.role = role,
                                   !.pin = IF k = 0 THEN NoPin ELSE Fingerprint(k)])

CreateCommits(d) ==
    /\ desk[d].at = "create"
    /\ IF Unique(0, desk[d].pin)
       THEN \E p \in People \ Hired :
               /\ \A q \in People \ Hired : p <= q
               /\ Writes(d, p, [role |-> desk[d].role, pin |-> desk[d].pin, version |-> 0])
               /\ UNCHANGED sessions
       ELSE TurnedAway(d)

LastOwnerUnasked(p, role) == TRUE
\* Somebody has to remain who can undo it.
LastOwner(p, role) ==
    person[p].role = "owner" /\ role # "owner" => Cardinality(Owners) > 1

\* In the cabinet nobody in particular acts: 0.
Actors == Owners \cup {0}

\* k is 0 to keep the PIN, -1 to take it away.
NextPin(p, k) == IF k = -1 THEN NoPin ELSE IF k = 0 THEN person[p].pin ELSE Fingerprint(k)

UpdateReads(d, p, role, k) ==
    /\ \E actor \in Actors : actor = p => role = person[p].role
    /\ LastOwner(p, role)
    /\ k \in Pins /\ person[p].pin # Fingerprint(k) => ~PinTaken(k, p)
    /\ Begins(d, [NoRequest EXCEPT !.at = "update", !.who = p, !.role = role, !.pin = NextPin(p, k)])

\* What the platform's panel does for an owner who has lost the PIN.
OwnerPinReads(d, k) ==
    \E p \in Owners :
        /\ \A q \in Owners : p <= q
        /\ ~PinTaken(k, p)
        /\ Begins(d, [NoRequest EXCEPT !.at = "ownerPin", !.who = p, !.pin = Fingerprint(k)])

BumpedByPanel(d) == IF desk[d].at = "update" THEN 0 ELSE 1
\* The role and the PIN are compared with what the request had read.
LeavesAccess(d) ==
    desk[d].at = "update" /\ desk[d].role = desk[d].wasRole /\ desk[d].pin = desk[d].was
\* A changed role or PIN retires the sessions.
Bumped(d) == IF LeavesAccess(d) THEN 0 ELSE 1

ChangeCommits(d) ==
    LET p == desk[d].who IN
    /\ desk[d].at \in {"update", "ownerPin"}
    /\ IF Unique(p, desk[d].pin)
       THEN /\ Writes(d, p, [role |-> IF desk[d].at = "update" THEN desk[d].role ELSE person[p].role,
                             pin |-> desk[d].pin, version |-> person[p].version + Bumped(d)])
            /\ UNCHANGED sessions
       ELSE TurnedAway(d)

StaffNext ==
    \E d \in Desks :
        \/ \E k \in Pins : LoginReads(d, k) \/ OwnerPinReads(d, k)
        \/ \E role \in {"owner", "cashier"}, k \in Pins \cup {-1, 0} :
              \/ k # -1 /\ CreateReads(d, role, k)
              \/ \E p \in Hired : UpdateReads(d, p, role, k)
        \/ LoginEnds(d) \/ CreateCommits(d) \/ ChangeCommits(d)

StaffSpec == StaffInit /\ [][StaffNext]_staffVars

-----------------------------------------------------------------------------
\* The sessions a till would still be served with.
Served == {s \in sessions : person[s.who].version = s.version}

\* The shape of the rows; a session is never of a later version than its owner.
StaffTypeOK ==
    /\ \A p \in People :
          /\ person[p].role \in {"none", "owner", "cashier"}
          /\ person[p].pin = NoPin \/ person[p].pin.code \in Pins
          /\ person[p].role = "none" => person[p].pin = NoPin
    /\ \A s \in sessions : s.version <= person[s.who].version

(***************************************************************************)
(* A PIN opens one person's till: two people never have the same one,      *)
(* fingerprints and old PINs together (pinTakenBy, the index on posPin),   *)
(* unless a write decided on an older row has put an old PIN back.         *)
(***************************************************************************)
PinsOpenOneDoor ==
    \A p, q \in Hired \ restored :
        p # q /\ person[p].pin # NoPin => person[p].pin.code # person[q].pin.code

(***************************************************************************)
(* A shop keeps an owner whatever is asked of it, as long as nobody's      *)
(* demotion is decided beside another's (staff.ts).                        *)
(***************************************************************************)
OwnerRemains == crossed \/ Owners # {}

\* A step that leaves a person as the request behind it had found that person,
\* whatever others have written since: a card saved without a change of access,
\* or a PIN of old that is kept anew at the door.
PutsBack(p) ==
    \E d \in Desks :
        /\ desk[d].who = p /\ desk'[d] = NoRequest
        /\ person'[p].pin.code = desk[d].was.code
        /\ \/ desk[d].at = "login"
           \/ desk[d].at = "update" /\ person'[p].role = desk[d].wasRole

AccessChanges(p) ==
    person'[p].pin.code # person[p].pin.code \/ person'[p].role # person[p].role

NoTillStaysOpen(p) == ~\E s \in Served' : s.who = p /\ s \in sessions

(***************************************************************************)
(* "A new PIN or a new role is the moment the token handed out must stop   *)
(* working" (staff-operations.ts:206): the tills that person had open are  *)
(* not served after the change, unless the change is that a request        *)
(* decided on an older row puts the old PIN and role back.                 *)
(***************************************************************************)
ChangeSignsOut ==
    [][\A p \in Hired : AccessChanges(p) /\ ~PutsBack(p) => NoTillStaysOpen(p)]_staffVars

\* The same of every change.
\* (The code does not keep this: README.)
EveryChangeSignsOut == [][\A p \in Hired : AccessChanges(p) => NoTillStaysOpen(p)]_staffVars

\* "В магазине должен остаться хотя бы один владелец" (staff.ts).
\* (The code does not keep this: README.)
AlwaysAnOwner == Owners # {}

\* A PIN that was taken away or changed does not come back by itself.
\* (The code does not keep this: README.)
NoPinComesBack == restored = {}
=============================================================================

------------------------------- MODULE Cabinet -------------------------------
(***************************************************************************)
(* The owner's cabinet and the platform's panel: a password, an app with   *)
(* six digits as a second factor, codes on paper for the day the phone is  *)
(* lost, and sessions that a change of the lock ends (routes/cabinet.ts,   *)
(* cabinet.ts, routes/auth.ts, totp.ts, auth.ts).                          *)
(*                                                                         *)
(* Hashing a password takes long enough for others to come between what a  *)
(* request reads and what it writes.  A phone that was shown a key makes   *)
(* the right digits for it; when the lock is hung, a code is printed.      *)
(***************************************************************************)
EXTENDS Integers, FiniteSets, Sequences

CONSTANTS
    Visits,         \* requests being served at a time
    MaxKeys,        \* bound on the keys that are made
    MaxVersions     \* bound on the changes of the lock

ASSUME CabinetAssumption == MaxKeys \in Nat /\ MaxVersions \in Nat

VARIABLES
    door,           \* the door this behaviour is about
    lock,           \* the row of the account
    codes,          \* codes on paper that were not used, by their printing
    opened,         \* tokens that were given out, with the key their owner has shown
    visit,
    keys,           \* how many keys were made
    uses,           \* how often the code of each printing was accepted
    overrun         \* an old first visit or enrolment was written over a new lock

cabinetVars == <<door, lock, codes, opened, visit, keys, uses, overrun>>

NoKey == 0
NoVisit == [at |-> "none", row |-> [set |-> FALSE, version |-> 0, key |-> NoKey, pending |-> NoKey],
            code |-> 0]

CabinetInit ==
    /\ door \in {"cabinet", "panel"}
    /\ lock = [set |-> door = "panel", version |-> 0, key |-> NoKey, pending |-> NoKey]
    /\ codes = {} /\ opened = {} /\ visit = [v \in Visits |-> NoVisit]
    /\ keys = 0 /\ uses = <<>> /\ overrun = FALSE

\* requireCabinet, requireAuth: the version of the lock is asked every time.
LetIn == {s \in opened : lock.set /\ s.version = lock.version}

Comes(v, at, code) ==
    /\ visit[v] = NoVisit
    /\ visit' = [visit EXCEPT ![v] = [NoVisit EXCEPT !.at = at, !.row = lock, !.code = code]]
    /\ UNCHANGED <<door, lock, codes, opened, keys, uses, overrun>>

Leaves(v) == visit' = [visit EXCEPT ![v] = NoVisit]
GivesToken(version, key) == opened' = opened \cup {[version |-> version, key |-> key]}

-----------------------------------------------------------------------------
(* At the door. *)

\* The first visit sets the password; the row is not asked again.
PasswordReads(v) == door = "cabinet" /\ ~lock.set /\ Comes(v, "password", 0)

PasswordCommits(v) ==
    /\ visit[v].at = "password"
    /\ lock' = [lock EXCEPT !.set = TRUE]
    /\ GivesToken(lock.version, NoKey) /\ Leaves(v)
    /\ overrun' = (overrun \/ lock # visit[v].row)
    /\ UNCHANGED <<door, codes, keys, uses>>

\* The password is right; with a second factor so are the digits, or there is a
\* code on paper that was found among the unused ones.
SignInReadsLock(v) ==
    /\ lock.set
    /\ \/ Comes(v, "signIn", 0)
       \/ lock.key # NoKey /\ \E c \in codes : Comes(v, "signInByCode", c)

SignInEndsAt(v) ==
    /\ visit[v].at = "signIn"
    /\ GivesToken(visit[v].row.version, visit[v].row.key) /\ Leaves(v)
    /\ UNCHANGED <<door, lock, codes, keys, uses, overrun>>

\* The guarded update: whoever marks it used first.
Accepted(c) == c \in codes

SpendsCode(v, next) ==
    /\ codes' = codes \ {visit[v].code}
    /\ IF Accepted(visit[v].code)
       THEN /\ uses' = [uses EXCEPT ![visit[v].code] = @ + 1]
            /\ visit' = [visit EXCEPT ![v].at = next, ![v].code = 0]
       ELSE Leaves(v) /\ UNCHANGED uses
    /\ UNCHANGED <<door, lock, opened, keys, overrun>>

SpendsRecoveryCode(v) ==
    \/ visit[v].at = "signInByCode" /\ SpendsCode(v, "signIn")
    \/ visit[v].at = "disableByCode" /\ SpendsCode(v, "disable")

-----------------------------------------------------------------------------
(* The lock, changed from inside. *)

\* A key that waits is shown again unless a fresh one is asked for.
SetupReads(v) == LetIn # {} /\ lock.key = NoKey /\ keys < MaxKeys /\ Comes(v, "setup", 0)

SetupCommits(v) ==
    /\ visit[v].at = "setup"
    /\ \/ keys < MaxKeys /\ keys' = keys + 1 /\ lock' = [lock EXCEPT !.pending = keys + 1]
       \/ visit[v].row.pending # NoKey /\ UNCHANGED <<keys, lock>>
    /\ Leaves(v) /\ UNCHANGED <<door, codes, opened, uses, overrun>>

EnableReads(v) ==
    /\ LetIn # {} /\ lock.key = NoKey /\ lock.pending # NoKey
    /\ lock.version < MaxVersions
    /\ Comes(v, "enable", 0)

\* Whoever was inside before the lock changed is outside.
Bumps(version) == version + 1

EnableCommits(v) ==
    LET key == visit[v].row.pending IN
    /\ visit[v].at = "enable"
    /\ lock' = [lock EXCEPT !.key = key, !.pending = NoKey, !.version = Bumps(@)]
    /\ uses' = Append(uses, 0) /\ codes' = {Len(uses')}
    /\ GivesToken(lock'.version, key) /\ Leaves(v)
    /\ overrun' = (overrun \/ lock.version # visit[v].row.version)
    /\ UNCHANGED <<door, keys>>

DisableReads(v) ==
    /\ LetIn # {} /\ lock.key # NoKey /\ lock.version < MaxVersions
    /\ \/ Comes(v, "disable", 0)
       \/ \E c \in codes : Comes(v, "disableByCode", c)

DisableCommits(v) ==
    /\ visit[v].at = "disable"
    /\ lock' = [lock EXCEPT !.key = NoKey, !.pending = NoKey, !.version = Bumps(@)]
    /\ codes' = {}
    /\ GivesToken(lock'.version, NoKey) /\ Leaves(v)
    /\ UNCHANGED <<door, keys, uses, overrun>>

\* The owner at the till makes a new link, in two statements: nothing of the
\* old lock remains, but for codes printed between the two.
ResetBegins(v) ==
    /\ door = "cabinet" /\ lock.version < MaxVersions /\ visit[v] = NoVisit
    /\ visit' = [visit EXCEPT ![v].at = "reset"]
    /\ codes' = {}
    /\ UNCHANGED <<door, lock, opened, keys, uses, overrun>>

Resets(v) ==
    /\ visit[v].at = "reset"
    /\ lock' = [set |-> FALSE, version |-> Bumps(lock.version), key |-> NoKey, pending |-> NoKey]
    /\ Leaves(v) /\ UNCHANGED <<door, codes, opened, keys, uses, overrun>>

CabinetNext ==
    \E v \in Visits :
        \/ PasswordReads(v) \/ PasswordCommits(v) \/ SignInReadsLock(v) \/ SignInEndsAt(v)
        \/ SpendsRecoveryCode(v) \/ SetupReads(v) \/ SetupCommits(v)
        \/ EnableReads(v) \/ EnableCommits(v) \/ DisableReads(v) \/ DisableCommits(v)
        \/ ResetBegins(v) \/ Resets(v)

CabinetSpec == CabinetInit /\ [][CabinetNext]_cabinetVars

-----------------------------------------------------------------------------
\* The row as it may be; codes are of papers that were printed.
CabinetTypeOK ==
    /\ lock.key \in 0..keys /\ lock.pending \in 0..keys /\ codes \subseteq DOMAIN uses
    /\ \A s \in opened : s.version <= lock.version /\ s.key \in 0..keys
    /\ \A v \in Visits : visit[v].row.version <= lock.version

(***************************************************************************)
(* Nobody is inside past a second factor they have not shown: of the       *)
(* sessions that are served while it is on, every one has shown the key in *)
(* force, or a code printed with it (routes/cabinet.ts, enable: the lock   *)
(* must not be hung on a door somebody already sits behind).               *)
(***************************************************************************)
FactorWasShown ==
    overrun \/ \A s \in LetIn : lock.key # NoKey => s.key = lock.key

\* A code on paper opens once, also when it is typed twice at a time
\* (spendRecoveryCode).
CodesOpenOnce == \A paper \in DOMAIN uses : uses[paper] <= 1

\* "The second time this route does nothing" (routes/cabinet.ts, POST
\* /:secret/password).
\* (The code does not keep this: README.)
FirstPasswordStays == ~overrun
=============================================================================

------------------------------ MODULE Registers ------------------------------
(***************************************************************************)
(* Which register a tablet is (routes/pos.ts, registers.ts, pos-auth.ts).  *)
(*                                                                         *)
(* A tablet names itself by a key in its browser's memory.  At the door it *)
(* is recognised, or asked which register it is: a new one, or one that    *)
(* stood on another tablet.  The token it then works with names the        *)
(* register; a manager may switch a register off and on again.             *)
(***************************************************************************)
EXTENDS Integers, FiniteSets, FiniteSetsExt

CONSTANTS
    Tablets,
    Managed,        \* the tablets an owner or a manager works at
    RegisterLimit,  \* of the tariff; an owner or a manager may go over it
    MaxRegisters    \* bound on the rows

ASSUME RegistersAssumption == Managed \subseteq Tablets /\ RegisterLimit \in Nat /\ MaxRegisters \in Nat

VARIABLES
    register,       \* the rows by their number; no row is ever deleted
    tablet,         \* the token each tablet has
    naming,         \* the request it waits for, and what that has read
    banned,         \* whom a register was taken from when it was switched off
    overtaken       \* registers that were switched off while they moved

registersVars == <<register, tablet, naming, banned, overtaken>>

SignedOut == [in |-> FALSE, as |-> 0]
As(n) == [in |-> TRUE, as |-> n]    \* 0: a token that names no register
NotNaming == [at |-> "idle", number |-> 0, taken |-> {}]
Numbers == DOMAIN register

RegistersInit ==
    /\ register = <<>> /\ tablet = [k \in Tablets |-> SignedOut]
    /\ naming = [k \in Tablets |-> NotNaming]
    /\ banned = <<>> /\ overtaken = {}

\* The index on the key: at most one register is this tablet.
RegisterOf(k) == {n \in Numbers : register[n].key = k}

\* A token that names a register is served while the register is on.
Works(k) == tablet[k].in /\ (tablet[k].as # 0 => register[tablet[k].as].on)

Ends(k, session) ==
    /\ tablet' = [tablet EXCEPT ![k] = session]
    /\ naming' = [naming EXCEPT ![k] = NotNaming]

AsksFor(k, request) == naming' = [naming EXCEPT ![k] = request]

-----------------------------------------------------------------------------
\* A person with a right PIN at a tablet.
SignInReads(k) ==
    /\ naming[k].at = "idle"
    /\ \A n \in RegisterOf(k) : register[n].on
    /\ tablet' = [tablet EXCEPT ![k] = SignedOut]
    /\ \/ \E n \in RegisterOf(k) : AsksFor(k, [NotNaming EXCEPT !.at = "known", !.number = n])
       \/ RegisterOf(k) = {} /\ Numbers = {} /\ AsksFor(k, [NotNaming EXCEPT !.at = "create"])
       \/ RegisterOf(k) = {} /\ Numbers # {} /\ AsksFor(k, [NotNaming EXCEPT !.at = "unknown"])
    /\ UNCHANGED <<register, banned, overtaken>>

SignInEnds(k) ==
    /\ naming[k].at \in {"known", "unknown"}
    /\ Ends(k, As(naming[k].number))
    /\ UNCHANGED <<register, banned, overtaken>>

\* "I am a new register": the question is asked of a tablet that has no name.
NewReads(k) ==
    /\ naming[k].at = "idle" /\ Works(k) /\ tablet[k].as = 0
    /\ k \in Managed \/ Cardinality(Numbers) < RegisterLimit
    /\ \/ /\ RegisterOf(k) = {} /\ Cardinality(Numbers) < MaxRegisters
          /\ AsksFor(k, [NotNaming EXCEPT !.at = "create", !.taken = Numbers]) /\ UNCHANGED tablet
       \/ \E n \in RegisterOf(k) : register[n].on /\ Ends(k, As(n))
    /\ UNCHANGED <<register, banned, overtaken>>

\* The highest plus one: a number that was ever given is not given again.
NextNumber(taken) == IF taken = {} THEN 1 ELSE Max(taken) + 1

\* Two tablets that read the same numbers: the index refuses one, which reads
\* again; it also refuses a second register for one tablet, for good.
NumberCommits(k) ==
    LET n == NextNumber(naming[k].taken) IN
    /\ naming[k].at = "create"
    /\ IF n \in Numbers
       THEN AsksFor(k, [naming[k] EXCEPT !.taken = Numbers]) /\ UNCHANGED <<register, tablet>>
       ELSE IF RegisterOf(k) # {}
       THEN Ends(k, tablet[k]) /\ UNCHANGED register
       ELSE register' = [m \in Numbers \cup {n} |->
                            IF m = n THEN [key |-> k, on |-> TRUE] ELSE register[m]]
            /\ Ends(k, As(n))
    /\ UNCHANGED <<banned, overtaken>>

\* "I am register 2": it moves, and the tablet it stood on is not asked.
ClaimReads(k, n) ==
    /\ naming[k].at = "idle" /\ Works(k) /\ tablet[k].as = 0
    /\ register[n].on
    /\ AsksFor(k, [NotNaming EXCEPT !.at = "claim", !.number = n])
    /\ UNCHANGED <<register, tablet, banned, overtaken>>

ClaimCommits(k) ==
    LET n == naming[k].number IN
    /\ naming[k].at = "claim"
    /\ IF RegisterOf(k) \subseteq {n}
       THEN /\ register' = [register EXCEPT ![n].key = k]
            /\ overtaken' = IF register[n].on THEN overtaken ELSE overtaken \cup {n}
            /\ Ends(k, As(n))
       ELSE Ends(k, tablet[k]) /\ UNCHANGED <<register, overtaken>>
    /\ UNCHANGED banned

\* A manager at any other tablet switches a register off, or on again.
Revokes(k, n) ==
    /\ k \in Managed /\ Works(k) /\ tablet[k].as # n /\ register[n].on
    /\ register' = [register EXCEPT ![n].on = FALSE]
    /\ banned' = [m \in DOMAIN banned \cup {n} |-> IF m = n THEN register[n].key ELSE banned[m]]
    /\ UNCHANGED <<tablet, naming, overtaken>>

Restores(k, n) ==
    /\ k \in Managed /\ Works(k) /\ ~register[n].on
    /\ register' = [register EXCEPT ![n].on = TRUE]
    /\ overtaken' = overtaken \ {n}
    /\ UNCHANGED <<tablet, naming, banned>>

RegistersNext ==
    \E k \in Tablets :
        \/ SignInReads(k) \/ SignInEnds(k) \/ NewReads(k) \/ NumberCommits(k) \/ ClaimCommits(k)
        \/ \E n \in Numbers : ClaimReads(k, n) \/ Revokes(k, n) \/ Restores(k, n)

RegistersSpec == RegistersInit /\ [][RegistersNext]_registersVars

-----------------------------------------------------------------------------
\* The rows and tokens as they may be; a tablet is at most one register.
RegistersTypeOK ==
    /\ \A n \in Numbers : register[n].key \in Tablets /\ register[n].on \in BOOLEAN
    /\ \A k \in Tablets : Cardinality(RegisterOf(k)) <= 1 /\ tablet[k].as \in Numbers \cup {0}

(***************************************************************************)
(* The tablet a register was switched off on is out until it is switched   *)
(* on: its token is not served and it cannot sign in again (schema.prisma, *)
(* revokedAt).  A register that was just being moved is left aside.        *)
(***************************************************************************)
RevokedStaysOut ==
    \A n \in Numbers \ overtaken : ~register[n].on => ~Works(banned[n])

(***************************************************************************)
(* Numbers only grow, however many tablets are switched on in one second   *)
(* and whatever was switched off: yesterday's shift report stays the       *)
(* report of one register (registers.ts, nextRegisterNumber).              *)
(***************************************************************************)
NumbersGrow ==
    [][\A n \in DOMAIN register' \ Numbers : \A m \in Numbers : m < n]_registersVars

\* "Otherwise register 2 would be two at once" (pos.ts, POST /registers/:id/claim).
\* (The code does not keep this: README.)
OneTabletPerRegister ==
    \A k, l \in Tablets :
        k # l /\ Works(k) /\ Works(l) /\ tablet[k].as # 0 => tablet[k].as # tablet[l].as
=============================================================================

--------------------------- MODULE CommandsInOrder ---------------------------
(***************************************************************************)
(* What a queue of warehouse commands promises: every command is carried   *)
(* out at most once, in the order the commands were given, until a person   *)
(* decides to drop the one that everything waits for.  A command that was   *)
(* dropped may still be carried out, late: dropping it cannot recall a copy *)
(* that is on its way.                                                      *)
(***************************************************************************)
EXTENDS Collections

CONSTANT Commands

VARIABLES
    todo,       \* commands given and not yet carried out
    dropped,    \* commands a person gave up on
    done        \* commands carried out

vars == <<todo, dropped, done>>

Init == todo = <<>> /\ dropped = {} /\ done = <<>>

Give(c) ==
    /\ c \notin Fn!Range(todo) \cup dropped \cup Fn!Range(done)
    /\ todo' = Append(todo, c)
    /\ UNCHANGED <<dropped, done>>

Do ==
    /\ todo # <<>>
    /\ todo' = Tail(todo)
    /\ done' = Append(done, Head(todo))
    /\ UNCHANGED dropped

Drop ==
    /\ todo # <<>>
    /\ todo' = Tail(todo)
    /\ dropped' = dropped \cup {Head(todo)}
    /\ UNCHANGED done

DoLate ==
    \E c \in dropped :
        /\ done' = Append(done, c)
        /\ dropped' = dropped \ {c}
        /\ UNCHANGED todo

Next == (\E c \in Commands : Give(c)) \/ Do \/ Drop \/ DoLate

Spec == Init /\ [][Next]_vars
=============================================================================

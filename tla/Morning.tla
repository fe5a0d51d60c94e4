------------------------------ MODULE Morning ------------------------------
(***************************************************************************)
(* The owners' morning summary (morning.ts).  The scheduler calls every    *)
(* minute and remembers nothing; one call reads all shops once, walks them *)
(* in that order, and for at most PerCall of those that are due it writes  *)
(* the day down first and sends afterwards, place by place.  A call can    *)
(* die anywhere, and the scheduler gives up waiting before the server      *)
(* does, so that two calls can walk at once (scripts/maintenance.mjs).     *)
(***************************************************************************)
EXTENDS Integers, FiniteSets

CONSTANTS
    Shops,       \* companies, numbered in the order of the query
    Sites,       \* the places of each
    Calls,       \* calls that can be open at once
    PerCall,     \* COMPANIES_PER_CALL
    LastDay,     \* bound: days
    MaxStarted   \* bound: calls that are started in a day

ASSUME MorningAssumption ==
    PerCall \in Nat \ {0} /\ Shops \subseteq Nat /\ IsFiniteSet(Shops)

VARIABLES
    clock,       \* two hours a day, of which one is morning
    tariffOn,    \* the shops whose tariff is active
    summarised,  \* shop -> company.lastSummaryAt
    sent,        \* the summaries that went out, <<shop, site, day>>
    twice,       \* whether one of them went out again today
    call,        \* call -> its time, the shops still before it, how many it took
    finished,    \* calls of this day that came to their end
    begun,       \* calls of this day
    calm         \* no two calls walked at once today

morningVars == <<clock, tariffOn, summarised, sent, twice, call, finished, begun, calm>>

Yet == -1
NoCall == [at |-> "none", now |-> 0, todo |-> {}, handled |-> 0, shop |-> 0]
Day(t) == t \div 2
IsMorning(t) == t % 2 = 0

MorningInit ==
    /\ clock = 0 /\ tariffOn \in SUBSET Shops /\ summarised = [s \in Shops |-> Yet]
    /\ sent = {} /\ twice = FALSE
    /\ call = [c \in Calls |-> NoCall] /\ finished = 0 /\ begun = 0 /\ calm = TRUE

DueForSummary(now, last) == IsMorning(now) /\ (last # Yet => Day(last) # Day(now))

-----------------------------------------------------------------------------
PassesHour ==
    /\ clock < 2 * LastDay + 1 /\ clock' = clock + 1
    /\ IF Day(clock') = Day(clock) THEN UNCHANGED <<twice, finished, begun, calm>>
       ELSE /\ twice' = FALSE /\ finished' = 0 /\ begun' = 0
            /\ calm' = \A c \in Calls : call[c] = NoCall
    /\ UNCHANGED <<tariffOn, summarised, sent, call>>

\* Read once; what is written afterwards, also by another call, is not seen.
Asks(c) ==
    /\ call[c] = NoCall /\ begun < MaxStarted /\ begun' = begun + 1
    /\ LET due == {s \in Shops : s \in tariffOn /\ DueForSummary(clock, summarised[s])} IN
       call' = [call EXCEPT ![c] =
                  [NoCall EXCEPT !.at = "walking", !.now = clock, !.todo = due]]
    /\ calm' = (calm /\ \A other \in Calls : call[other] = NoCall)
    /\ UNCHANGED <<clock, tariffOn, summarised, sent, twice, finished>>

\* The day is written down before anything is sent.
Marks(c) ==
    /\ call[c].at = "walking" /\ call[c].handled < PerCall
    /\ \E s \in call[c].todo :
          /\ \A other \in call[c].todo : s <= other
          /\ summarised' = [summarised EXCEPT ![s] = call[c].now]
          /\ call' = [call EXCEPT ![c].at = "sending", ![c].todo = @ \ {s},
                                  ![c].handled = @ + 1, ![c].shop = s]
    /\ UNCHANGED <<clock, tariffOn, sent, twice, finished, begun, calm>>

\* A place whose figures cannot be counted does not keep the others from theirs.
SendsPushToOwners(c) ==
    /\ call[c].at = "sending"
    /\ \E counted \in SUBSET Sites :
          LET now == {<<call[c].shop, site, Day(call[c].now)>> : site \in counted} IN
          /\ sent' = sent \cup now
          /\ twice' = (twice \/ now \cap sent # {})
    /\ call' = [call EXCEPT ![c].at = "walking"]
    /\ UNCHANGED <<clock, tariffOn, summarised, finished, begun, calm>>

\* Whoever is left over is the next call's.
Answers(c) ==
    /\ call[c].at = "walking" /\ (call[c].todo = {} \/ call[c].handled >= PerCall)
    /\ call' = [call EXCEPT ![c] = NoCall]
    /\ finished' = IF IsMorning(call[c].now) /\ Day(call[c].now) = Day(clock)
                   THEN finished + 1 ELSE finished
    /\ UNCHANGED <<clock, tariffOn, summarised, sent, twice, begun, calm>>

Dies(c) ==
    /\ call[c] # NoCall
    /\ call' = [call EXCEPT ![c] = NoCall]
    /\ UNCHANGED <<clock, tariffOn, summarised, sent, twice, finished, begun, calm>>

MorningNext ==
    \/ PassesHour
    \/ \E c \in Calls : Asks(c) \/ Marks(c) \/ SendsPushToOwners(c) \/ Answers(c) \/ Dies(c)

MorningSpec == MorningInit /\ [][MorningNext]_morningVars

-----------------------------------------------------------------------------
MorningTypeOK ==
    /\ \A s \in Shops : summarised[s] \in {Yet} \cup {t \in 0..clock : IsMorning(t)}
    /\ \A c \in Calls : call[c].handled <= PerCall /\ call[c].now <= clock

(***************************************************************************)
(* An owner hears of a place once a morning, whatever died in between      *)
(* (morning.ts: a skipped summary costs less than a repeated one); and     *)
(* once as many calls have come to their end as it takes PerCall shops at  *)
(* a time, no shop that pays is left unvisited.  Only while no two calls   *)
(* walk at once: the second sends again what the first had before it.      *)
(***************************************************************************)
OnceAMorning == calm => ~twice

EveryoneIsReached ==
    (calm /\ finished * PerCall >= Cardinality(Shops)) =>
        \A s \in tariffOn : summarised[s] # Yet /\ Day(summarised[s]) = Day(clock)

\* "The mark is put per shop, so there will be no repeats" (morning.ts,
\* COMPANIES_PER_CALL).
\* (The code does not keep this: README.)
NeverTwice == ~twice
=============================================================================

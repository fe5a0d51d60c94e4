---------------------------- MODULE OfficeProofs ----------------------------
(***************************************************************************)
(* The office around a shop, for any number of people, registers, copies   *)
(* and shops.  Each component is proved of its own specification first;    *)
(* the last part is what follows for all of them together.                 *)
(***************************************************************************)
EXTENDS Office, CollectionsProofs

-----------------------------------------------------------------------------
(***************************************************************************)
(* However often the tariff ends and is paid, whoever signs in and out,    *)
(* and whatever is lost or comes late: every sale that was rung up is at   *)
(* the server or waits in the queue, none waits for a person, and a shift  *)
(* that is open on the server can be closed.  For any number of turns of   *)
(* the tariff, sign-ins, sales and requests on their way.                  *)
(***************************************************************************)

TillAnswers == {"none", "done", "unauthorized", "tariff"}
Request == [by : Nat, sale : Nat, answer : TillAnswers]

\* A sale on its way is one that was rung up, and one the server has accepted
\* is among those that arrived: so its answer may take it out of the queue.
WireIsHonest ==
    /\ wire \in [Kinds -> Request]
    /\ wire["sale"] # Nothing => wire["sale"].sale \in 1..sold
    /\ wire["sale"].answer = "done" => wire["sale"].sale \in arrived

LicenceInv ==
    /\ signIns \in Nat /\ signedIn \in Nat /\ sold \in Nat
    /\ locked => signedIn # 0
    /\ WireIsHonest
    /\ SalesOutliveTariff

LEMMA KindNames ==
    /\ "sale" \in Kinds /\ "close" \in Kinds /\ Nothing \in Request
    /\ \A k \in Kinds : k # "sale" => k \in {"shift", "close", "licence"}
BY DEF Kinds, Nothing, Request, TillAnswers

LEMMA LicenceInitHolds == LicenceInit => LicenceInv
<1> SUFFICES ASSUME LicenceInit PROVE LicenceInv
    OBVIOUS
<1>1. WireIsHonest
    BY KindNames DEF LicenceInit, WireIsHonest, Nothing
<1>2. SalesOutliveTariff
    BY DEF LicenceInit, SalesOutliveTariff
<1> QED
    BY <1>1, <1>2 DEF LicenceInit, LicenceInv

\* What people do never touches the requests on their way.
LEMMA PeopleKeep ==
    ASSUME LicenceInv,
           TariffTurns \/ PinChanges \/ SignsIn \/ SignsOut \/ OpensLocally \/ RingsUp
    PROVE  LicenceInv'
<1> USE DEF LicenceInv, WireIsHonest, SalesOutliveTariff
<1>1. CASE TariffTurns
    BY <1>1 DEF TariffTurns, tillVars
<1>2. CASE PinChanges
    BY <1>2 DEF PinChanges, tillVars
<1>3. CASE SignsIn
    BY <1>3 DEF SignsIn, serverVars
<1>4. CASE SignsOut
    BY <1>4 DEF SignsOut, serverVars
<1>5. CASE OpensLocally
    BY <1>5 DEF OpensLocally, serverVars
<1>6. CASE RingsUp
  <2>1. /\ sold' = sold + 1 /\ pending' = pending \cup {sold'}
        /\ UNCHANGED <<arrived, refused, wire, signedIn, signIns, locked>>
      BY <1>6 DEF RingsUp, serverVars
  <2>2. 1..(sold + 1) = (1..sold) \cup {sold + 1}
      OBVIOUS
  <2> QED
      BY <2>1, <2>2
<1> QED
    BY <1>1, <1>2, <1>3, <1>4, <1>5, <1>6

LEMMA SendsKeeps == ASSUME LicenceInv, NEW kind \in Kinds, Sends(kind) PROVE LicenceInv'
<1>1. PICK sale \in IF kind = "sale" THEN pending \ refused ELSE {0} :
         wire' = [wire EXCEPT ![kind] = [by |-> signedIn, sale |-> sale, answer |-> "none"]]
    BY DEF Sends
<1>2. /\ UNCHANGED <<signIns, sold, locked, signedIn, pending, arrived, refused>>
      /\ signedIn \in Nat
    BY DEF Sends, serverVars, tillVars, LicenceInv
<1>3. sale \in Nat /\ (kind = "sale" => sale \in 1..sold)
    BY DEF LicenceInv, SalesOutliveTariff
<1>4. [by |-> signedIn, sale |-> sale, answer |-> "none"] \in Request
    BY <1>2, <1>3 DEF Request, TillAnswers
<1>5. wire' \in [Kinds -> Request]
    BY <1>1, <1>4 DEF LicenceInv, WireIsHonest
<1>6. WireIsHonest'
  <2>1. CASE kind = "sale"
      BY <2>1, <1>1, <1>2, <1>3, <1>5, KindNames DEF LicenceInv, WireIsHonest
  <2>2. CASE kind # "sale"
      BY <2>2, <1>1, <1>2, <1>5, KindNames DEF LicenceInv, WireIsHonest
  <2> QED
      BY <2>1, <2>2
<1> QED
    BY <1>2, <1>6 DEF LicenceInv, SalesOutliveTariff

\* The server takes a sale and answers for it in one step.
LEMMA HandlesKeeps == ASSUME LicenceInv, NEW kind \in Kinds, Handles(kind) PROVE LicenceInv'
<1> DEFINE answer == AnswerTo(kind)
<1>1. /\ wire[kind] # Nothing /\ wire' = [wire EXCEPT ![kind].answer = answer]
      /\ arrived' = IF answer = "done" /\ kind = "sale"
                    THEN arrived \cup {wire[kind].sale} ELSE arrived
      /\ UNCHANGED <<signIns, sold, locked, signedIn, pending, refused>>
    BY DEF Handles, tillVars
<1>2. answer \in TillAnswers
    BY DEF AnswerTo, TillAnswers
<1> HIDE DEF answer
<1>3. wire \in [Kinds -> Request] /\ wire' \in [Kinds -> Request]
    BY <1>1, <1>2 DEF LicenceInv, WireIsHonest, Request
<1>4. \A k \in Kinds : wire'[k].sale = wire[k].sale /\ (k # kind => wire'[k] = wire[k])
    BY <1>1, <1>3 DEF Request
<1>5. /\ wire'["sale"] # Nothing => wire["sale"] # Nothing
      /\ kind = "sale" => wire'["sale"].answer = answer
    BY <1>1, <1>3, <1>4, KindNames DEF Request
<1>6. WireIsHonest'
    BY <1>1, <1>3, <1>4, <1>5, KindNames DEF LicenceInv, WireIsHonest
<1>7. SalesOutliveTariff'
    BY <1>1, KindNames DEF LicenceInv, WireIsHonest, SalesOutliveTariff
<1> QED
    BY <1>1, <1>6, <1>7 DEF LicenceInv

\* What the till hears of a sale takes it out of the queue only when it arrived,
\* and neither refusal marks it for a person.
LEMMA HearsKeeps == ASSUME LicenceInv, NEW kind \in Kinds, Hears(kind) PROVE LicenceInv'
<1> DEFINE answer == wire[kind].answer
<1>1. /\ wire' = [wire EXCEPT ![kind] = Nothing]
      /\ HandleUnauthorized(answer)
      /\ pending' = IF kind = "sale" /\ answer = "done"
                    THEN pending \ {wire[kind].sale} ELSE pending
      /\ refused' = IF kind = "sale" /\ RefusalIsAboutThisRequest(answer)
                    THEN refused \cup {wire[kind].sale} ELSE refused
      /\ UNCHANGED <<arrived, signIns, sold>>
      /\ answer # "none"
    BY DEF Hears, serverVars
<1>2. answer \in TillAnswers
    BY DEF LicenceInv, WireIsHonest, Request
<1>3. ~RefusalIsAboutThisRequest(answer)
    BY <1>1, <1>2 DEF RefusalIsAboutThisRequest, TillAnswers
<1>4. signedIn' \in Nat /\ (locked' => signedIn' # 0)
    BY <1>1 DEF HandleUnauthorized, LicenceInv
<1>5. WireIsHonest'
    BY <1>1, KindNames DEF LicenceInv, WireIsHonest, Nothing
<1>6. SalesOutliveTariff'
    BY <1>1, <1>3 DEF LicenceInv, WireIsHonest, SalesOutliveTariff
<1> QED
    BY <1>1, <1>4, <1>5, <1>6 DEF LicenceInv

LEMMA LosesKeeps == ASSUME LicenceInv, NEW kind \in Kinds, Loses(kind) PROVE LicenceInv'
<1>1. /\ wire' = [wire EXCEPT ![kind] = Nothing]
      /\ UNCHANGED <<arrived, signIns, signedIn, sold, pending, refused, locked>>
    BY DEF Loses, serverVars, tillVars
<1> QED
    BY <1>1, KindNames DEF LicenceInv, WireIsHonest, SalesOutliveTariff, Nothing

LEMMA LicenceStepHolds == LicenceInv /\ [LicenceNext]_licenceVars => LicenceInv'
<1>1. ASSUME LicenceInv, UNCHANGED licenceVars PROVE LicenceInv'
    BY <1>1 DEF licenceVars, LicenceInv, WireIsHonest, SalesOutliveTariff
<1> QED
    BY <1>1, PeopleKeep, SendsKeeps, HandlesKeeps, HearsKeeps, LosesKeeps DEF LicenceNext

LEMMA LicenceAlwaysHolds == LicenceSpec => []LicenceInv
    BY LicenceInitHolds, LicenceStepHolds, PTL DEF LicenceSpec

\* Every sale that was rung up is at the server or in the queue, and none stands
\* among the refused for a tariff or a session that had ended (refusal.ts).
THEOREM SalesAlwaysOutliveTariff == LicenceSpec => []SalesOutliveTariff
<1>1. LicenceInv => SalesOutliveTariff
    BY DEF LicenceInv
<1> QED
    BY <1>1, LicenceAlwaysHolds, PTL

\* A tariff that is over neither shows out whoever was let in to close the shift
\* nor refuses the closing (api.ts, handleUnauthorized; tariff-gate.ts).
THEOREM ShiftCanAlwaysBeClosed == LicenceSpec => ShiftCanBeClosed
<1>1. ASSUME LicenceInv, [LicenceNext]_licenceVars,
             /\ locked /\ signedIn' = 0
      PROVE  outBy' # "tariff"
  <2>1. signedIn # 0 /\ signedIn' # signedIn
      BY <1>1 DEF LicenceInv
  <2>2. SignsOut \/ \E kind \in Kinds : Hears(kind)
      BY <1>1, <2>1 DEF LicenceNext, licenceVars, TariffTurns, PinChanges, SignsIn, OpensLocally,
            RingsUp, Sends, Handles, Loses, tillVars
  <2> QED
      BY <1>1, <2>1, <2>2 DEF SignsOut, Hears, HandleUnauthorized
<1>2. ASSUME LicenceInv, [LicenceNext]_licenceVars, wire["close"].answer = "none"
      PROVE  wire'["close"].answer # "tariff"
  <2>1. CASE UNCHANGED wire
      BY <1>2, <2>1
  <2>2. ASSUME NEW kind \in Kinds, Sends(kind) PROVE wire'["close"].answer # "tariff"
    <3>1. PICK sale : wire' = [wire EXCEPT ![kind] =
                                  [by |-> signedIn, sale |-> sale, answer |-> "none"]]
        BY <2>2 DEF Sends
    <3> QED
        BY <3>1, <1>2, KindNames DEF LicenceInv, WireIsHonest
  <2>3. ASSUME NEW kind \in Kinds, Handles(kind) PROVE wire'["close"].answer # "tariff"
    <3>1. wire' = [wire EXCEPT ![kind].answer = AnswerTo(kind)]
        BY <2>3 DEF Handles
    <3>2. kind = "close" => AnswerTo(kind) # "tariff"
        BY DEF AnswerTo, NeedsActiveTariff
    <3> QED
        BY <3>1, <3>2, <1>2, KindNames DEF LicenceInv, WireIsHonest, Request
  <2>4. ASSUME NEW kind \in Kinds, Hears(kind) \/ Loses(kind)
        PROVE  wire'["close"].answer # "tariff"
    <3>1. wire' = [wire EXCEPT ![kind] = Nothing]
        BY <2>4 DEF Hears, Loses
    <3> QED
        BY <3>1, <1>2, KindNames DEF LicenceInv, WireIsHonest, Nothing
  <2> QED
      BY <1>2, <2>1, <2>2, <2>3, <2>4 DEF LicenceNext, licenceVars, TariffTurns, PinChanges,
            SignsIn, SignsOut, OpensLocally, RingsUp
<1>3. LicenceInv /\ [LicenceNext]_licenceVars =>
        [/\ locked /\ signedIn' = 0 => outBy' # "tariff"
         /\ wire["close"].answer = "none" => wire'["close"].answer # "tariff"]_licenceVars
    BY <1>1, <1>2
<1> QED
    BY <1>3, LicenceAlwaysHolds, PTL DEF LicenceSpec, ShiftCanBeClosed

\* The till's session is the latest there was, and no request is of a later one.
SessionsAreCounted ==
    /\ signedIn \in {0, signIns}
    /\ \A k \in Kinds : wire[k].by <= signIns

LEMMA SessionsStayCounted ==
    ASSUME LicenceInv, SessionsAreCounted, [LicenceNext]_licenceVars
    PROVE  SessionsAreCounted'
<1>1. signIns \in Nat /\ signedIn \in Nat /\ wire \in [Kinds -> Request]
    BY DEF LicenceInv, WireIsHonest
<1>2. \A k \in Kinds : wire[k].by \in Nat /\ wire[k].by <= signIns
    BY <1>1 DEF SessionsAreCounted, Request
<1>3. CASE UNCHANGED <<signIns, wire>> /\ signedIn' \in {0, signedIn}
    BY <1>1, <1>3 DEF SessionsAreCounted
<1>4. CASE SignsIn
  <2>1. signIns' = signIns + 1 /\ signedIn' = signIns' /\ wire' = wire
      BY <1>4 DEF SignsIn
  <2> QED
      BY <1>1, <1>2, <2>1 DEF SessionsAreCounted
<1>5. ASSUME NEW kind \in Kinds, Sends(kind) PROVE SessionsAreCounted'
  <2>1. PICK sale : wire' = [wire EXCEPT ![kind] =
                                [by |-> signedIn, sale |-> sale, answer |-> "none"]]
      BY <1>5 DEF Sends
  <2>2. UNCHANGED <<signIns, signedIn>> /\ signedIn <= signIns
      BY <1>1, <1>5 DEF Sends, tillVars, SessionsAreCounted
  <2>3. \A k \in Kinds : wire'[k].by = IF k = kind THEN signedIn ELSE wire[k].by
      BY <1>1, <2>1
  <2> QED
      BY <1>2, <2>2, <2>3 DEF SessionsAreCounted
<1>6. ASSUME NEW kind \in Kinds, Handles(kind) PROVE SessionsAreCounted'
  <2>1. wire' = [wire EXCEPT ![kind].answer = AnswerTo(kind)] /\ UNCHANGED <<signIns, signedIn>>
      BY <1>6 DEF Handles, tillVars
  <2>2. \A k \in Kinds : wire'[k].by = wire[k].by
      BY <1>1, <2>1 DEF Request
  <2> QED
      BY <1>2, <2>1, <2>2 DEF SessionsAreCounted
<1>7. ASSUME NEW kind \in Kinds, Hears(kind) \/ Loses(kind) PROVE SessionsAreCounted'
  <2>1. wire' = [wire EXCEPT ![kind] = Nothing] /\ signIns' = signIns /\ signedIn' \in {0, signedIn}
      BY <1>7 DEF Hears, Loses, HandleUnauthorized, tillVars
  <2>2. \A k \in Kinds : wire'[k].by = IF k = kind THEN 0 ELSE wire[k].by
      BY <1>1, <2>1 DEF Nothing
  <2> QED
      BY <1>1, <1>2, <2>1, <2>2 DEF SessionsAreCounted
<1>8. CASE TariffTurns \/ PinChanges \/ SignsOut \/ OpensLocally \/ RingsUp \/ UNCHANGED licenceVars
    BY <1>3, <1>8 DEF TariffTurns, PinChanges, SignsOut, OpensLocally, RingsUp, licenceVars, tillVars
<1> QED
    BY <1>4, <1>5, <1>6, <1>7, <1>8 DEF LicenceNext

\* What is in the queue and what has arrived was rung up, and a request is of a session
\* that there was (LicenceTypeOK).
THEOREM LicenceTypes == LicenceSpec => []LicenceTypeOK
<1>1. LicenceInit => SessionsAreCounted
    BY DEF LicenceInit, SessionsAreCounted, Nothing
<1>2. LicenceSpec => []SessionsAreCounted
    BY <1>1, SessionsStayCounted, LicenceAlwaysHolds, PTL DEF LicenceSpec
<1>3. LicenceInv /\ SessionsAreCounted => LicenceTypeOK
    BY DEF LicenceInv, SalesOutliveTariff, SessionsAreCounted, LicenceTypeOK
<1> QED
    BY <1>2, <1>3, LicenceAlwaysHolds, PTL

-----------------------------------------------------------------------------
(***************************************************************************)
(* For any number of phones and requests and any clock: an owner's no is   *)
(* the last word on a request, and support looks only by the latest        *)
(* request, while it stands open.                                          *)
(*                                                                         *)
(* That a refused request is not open would follow from nothing once a     *)
(* delayed yes is written over it, were it not for what the row keeps: the *)
(* no is a field of its own that no answer takes back.                     *)
(***************************************************************************)

GrantRows == [granted : Int, expires : Int, declined : BOOLEAN, revoked : BOOLEAN]
OwnerAnswers == [to : DOMAIN grants, says : {"grant", "decline", "revoke"}, read : Nat]

\* What was refused says so.
RefusalsAreKept == \A i \in refusals : i \in DOMAIN grants /\ (grants[i].declined \/ grants[i].revoked)

\* What was opened closes by itself.
OpeningsEnd ==
    \A i \in DOMAIN grants :
        grants[i].granted = Never \/ grants[i].expires = grants[i].granted + GrantHours

ConsentInv ==
    /\ tick \in Nat /\ grants \in Seq(GrantRows)
    /\ answering = [p \in Phones |-> answering[p]]
    /\ \A p \in Phones : answering[p] \in OwnerAnswers \cup {NoAnswer}
    /\ RefusalsAreKept /\ OpeningsEnd

LEMMA ConsentInitHolds == ConsentInit => ConsentInv
BY DEF ConsentInit, ConsentInv, RefusalsAreKept, OpeningsEnd

-----------------------------------------------------------------------------
(* One step. *)

LEMMA AskingKeeps ==
    ASSUME ConsentInv, AsksAccess
    PROVE  ConsentInv'
<1>1. Asked \in GrantRows
    BY DEF Asked, GrantRows, Never
<1>2. /\ grants' \in Seq(GrantRows)
      /\ DOMAIN grants \subseteq DOMAIN grants'
      /\ \A i \in DOMAIN grants : grants'[i] = grants[i]
      /\ \A i \in DOMAIN grants' : i \in DOMAIN grants \/ grants'[i] = Asked
    BY <1>1 DEF ConsentInv, AsksAccess
<1>3. UNCHANGED <<tick, answering, refusals>>
    BY DEF AsksAccess
<1>4. \A p \in Phones : answering'[p] \in OwnerAnswers' \cup {NoAnswer}
    BY <1>2, <1>3 DEF ConsentInv, OwnerAnswers
<1>5. RefusalsAreKept'
    BY <1>2, <1>3 DEF ConsentInv, RefusalsAreKept
<1>6. OpeningsEnd'
    BY <1>2 DEF ConsentInv, OpeningsEnd, Asked
<1> QED
    BY <1>2, <1>3, <1>4, <1>5, <1>6 DEF ConsentInv

LEMMA AnswerReadsKeeps ==
    ASSUME ConsentInv, NEW p \in Phones, NEW i \in DOMAIN grants,
           NEW says \in {"grant", "decline", "revoke"}, AnswerReads(p, i, says)
    PROVE  ConsentInv'
<1>1. /\ answering' = [answering EXCEPT ![p] = [to |-> i, says |-> says, read |-> tick]]
      /\ UNCHANGED <<tick, grants, refusals>>
    BY DEF AnswerReads
<1>2. [to |-> i, says |-> says, read |-> tick] \in OwnerAnswers
    BY DEF OwnerAnswers, ConsentInv
<1>3. answering' = [q \in Phones |-> answering'[q]]
      /\ \A q \in Phones : answering'[q] \in OwnerAnswers' \cup {NoAnswer}
    BY <1>1, <1>2 DEF ConsentInv, OwnerAnswers
<1> QED
    BY <1>1, <1>3 DEF ConsentInv, RefusalsAreKept, OpeningsEnd

\* An answer adds to a row and takes back nothing but an earlier opening.
LEMMA SaidAdds ==
    ASSUME ConsentInv, NEW i \in DOMAIN grants, NEW a \in OwnerAnswers
    PROVE  /\ Said(grants[i], a) \in GrantRows
           /\ grants[i].declined => Said(grants[i], a).declined
           /\ grants[i].revoked => Said(grants[i], a).revoked
           /\ a.says # "grant" => Said(grants[i], a).declined \/ Said(grants[i], a).revoked
           /\ \/ Said(grants[i], a).granted = Never
              \/ Said(grants[i], a).expires = Said(grants[i], a).granted + GrantHours
<1> DEFINE g == grants[i]
<1>1. /\ g \in GrantRows
      /\ g.granted = Never \/ g.expires = g.granted + GrantHours
    BY DEF ConsentInv, OpeningsEnd
<1> HIDE DEF g
<1>2. CASE a.says = "grant"
  <2>1. Said(g, a) = [g EXCEPT !.granted = a.read, !.expires = a.read + GrantHours]
      BY <1>2 DEF Said
  <2>2. /\ Said(g, a) = [granted |-> a.read, expires |-> a.read + GrantHours,
                         declined |-> g.declined, revoked |-> g.revoked]
        /\ a.read \in Nat
      BY <1>1, <2>1 DEF GrantRows, OwnerAnswers
  <2> QED
      BY <1>1, <1>2, <2>2, ConsentAssumption DEF GrantRows, g
<1>3. CASE a.says = "decline"
  <2>1. Said(g, a) = [granted |-> g.granted, expires |-> g.expires,
                      declined |-> TRUE, revoked |-> g.revoked]
      BY <1>1, <1>3 DEF Said, GrantRows
  <2> QED
      BY <1>1, <2>1 DEF GrantRows, g
<1>4. CASE a.says = "revoke"
  <2>1. Said(g, a) = [granted |-> g.granted, expires |-> g.expires,
                      declined |-> g.declined, revoked |-> TRUE]
      BY <1>1, <1>4 DEF Said, GrantRows
  <2> QED
      BY <1>1, <2>1 DEF GrantRows, g
<1> QED
    BY <1>2, <1>3, <1>4 DEF OwnerAnswers

LEMMA AnswerCommitsKeeps ==
    ASSUME ConsentInv, NEW p \in Phones, AnswerCommits(p)
    PROVE  ConsentInv'
<1> DEFINE a == answering[p]
           new == Said(grants[a.to], a)
<1>1. a \in OwnerAnswers
    BY DEF AnswerCommits, ConsentInv
<1>2. a.to \in DOMAIN grants
    BY <1>1 DEF OwnerAnswers
<1>3. /\ grants' = [grants EXCEPT ![a.to] = new]
      /\ answering' = [answering EXCEPT ![p] = NoAnswer]
      /\ refusals' = IF a.says = "grant" THEN refusals ELSE refusals \cup {a.to}
      /\ tick' = tick
    BY DEF AnswerCommits
<1>4. /\ new \in GrantRows
      /\ grants[a.to].declined => new.declined
      /\ grants[a.to].revoked => new.revoked
      /\ a.says # "grant" => new.declined \/ new.revoked
      /\ new.granted = Never \/ new.expires = new.granted + GrantHours
    BY <1>1, <1>2, SaidAdds
<1> HIDE DEF a, new
<1>5. /\ grants' \in Seq(GrantRows)
      /\ DOMAIN grants' = DOMAIN grants
      /\ \A i \in DOMAIN grants : grants'[i] = IF i = a.to THEN new ELSE grants[i]
    BY <1>2, <1>3, <1>4 DEF ConsentInv
<1>6. answering' = [q \in Phones |-> answering'[q]]
      /\ \A q \in Phones : answering'[q] \in OwnerAnswers' \cup {NoAnswer}
    BY <1>3, <1>5 DEF ConsentInv, OwnerAnswers
<1>7. RefusalsAreKept'
    BY <1>2, <1>3, <1>4, <1>5 DEF ConsentInv, RefusalsAreKept
<1>8. OpeningsEnd'
    BY <1>4, <1>5 DEF ConsentInv, OpeningsEnd
<1> QED
    BY <1>3, <1>5, <1>6, <1>7, <1>8 DEF ConsentInv

LEMMA ConsentStepHolds == ConsentInv /\ [ConsentNext]_consentVars => ConsentInv'
<1> SUFFICES ASSUME ConsentInv, [ConsentNext]_consentVars PROVE ConsentInv'
    OBVIOUS
<1>1. CASE UNCHANGED <<grants, answering, refusals>> /\ tick' \in Nat
    BY <1>1 DEF ConsentInv, OwnerAnswers, RefusalsAreKept, OpeningsEnd
<1>2. CASE PassesTime \/ Looks \/ UNCHANGED consentVars
    BY <1>1, <1>2 DEF PassesTime, Looks, consentVars, ConsentInv
<1> QED
    BY <1>2, AskingKeeps, AnswerReadsKeeps, AnswerCommitsKeeps DEF ConsentNext

LEMMA ConsentAlwaysHolds == ConsentSpec => []ConsentInv
    BY ConsentInitHolds, ConsentStepHolds, PTL DEF ConsentSpec

-----------------------------------------------------------------------------
\* Nobody looks by a request that an owner has said no to, whatever is written
\* after the no (support-access.ts, grantState).
THEOREM NoStaysFinal == ConsentSpec => []NoIsFinal
<1>1. ConsentInv => NoIsFinal
    BY DEF ConsentInv, RefusalsAreKept, NoIsFinal, IsOpen, GrantState
<1> QED
    BY <1>1, ConsentAlwaysHolds, PTL

\* Support is shown something by the latest request only, within the hours it
\* was opened for (support-access.ts, isActive).
THEOREM AlwaysLooksByConsent == ConsentSpec => LooksByConsent
<1>1. ConsentInv /\ [ConsentNext]_consentVars =>
          [seen' # seen =>
             /\ seen'.by = Len(grants) /\ seen'.by \notin refusals
             /\ tick < grants[seen'.by].granted + GrantHours]_consentVars
  <2> SUFFICES ASSUME ConsentInv, [ConsentNext]_consentVars, seen' # seen
               PROVE  /\ seen'.by = Len(grants) /\ seen'.by \notin refusals
                      /\ tick < grants[seen'.by].granted + GrantHours
      OBVIOUS
  <2>1. Looks
      BY DEF ConsentNext, consentVars, PassesTime, AsksAccess, AnswerReads, AnswerCommits
  <2> DEFINE i == Len(grants)
  <2>2. seen'.by = i
      BY <2>1 DEF Looks
  <2>3. i \in DOMAIN grants /\ IsOpen(grants[i])
      BY <2>1 DEF Looks, LatestOpen, ConsentInv
  <2>4. /\ ~grants[i].declined /\ ~grants[i].revoked
        /\ grants[i].granted # Never /\ grants[i].expires > tick
      BY <2>3 DEF IsOpen, GrantState
  <2> QED
      BY <2>2, <2>3, <2>4 DEF ConsentInv, RefusalsAreKept, OpeningsEnd
<1> QED
    BY <1>1, ConsentAlwaysHolds, PTL DEF ConsentSpec, LooksByConsent

\* What was seen was seen by a request that there is, at a time that was.
SightsAreOfRequests == seen.by \in 0..Len(grants) /\ seen.at \in {Never} \cup 0..tick

LEMMA SightsStayOfRequests ==
    ASSUME ConsentInv, SightsAreOfRequests, [ConsentNext]_consentVars
    PROVE  SightsAreOfRequests'
<1>1. tick \in Nat /\ grants \in Seq(GrantRows) /\ Len(grants) \in Nat
    BY DEF ConsentInv
<1>2. CASE /\ seen' = seen /\ tick' \in {tick, tick + 1} /\ Len(grants') \in Nat
           /\ Len(grants') >= Len(grants)
    BY <1>1, <1>2 DEF SightsAreOfRequests
<1>3. CASE PassesTime \/ UNCHANGED consentVars
    BY <1>1, <1>2, <1>3 DEF PassesTime, consentVars
<1>4. CASE AsksAccess
  <2>1. Len(grants') = Len(grants) + 1 /\ seen' = seen /\ tick' = tick
      BY <1>1, <1>4 DEF AsksAccess
  <2> QED
      BY <1>1, <1>2, <2>1
<1>5. CASE Looks
  <2>1. seen'.by = Len(grants) /\ seen'.at = tick /\ UNCHANGED <<tick, grants>>
      BY <1>5 DEF Looks
  <2> QED
      BY <1>1, <2>1 DEF SightsAreOfRequests
<1>6. ASSUME NEW p \in Phones, AnswerCommits(p) PROVE SightsAreOfRequests'
  <2>1. seen' = seen /\ tick' = tick /\ Len(grants') = Len(grants)
      BY <1>1, <1>6 DEF AnswerCommits
  <2> QED
      BY <1>1, <1>2, <2>1
<1>7. ASSUME NEW p \in Phones, NEW i \in DOMAIN grants,
             NEW says \in {"grant", "decline", "revoke"}, AnswerReads(p, i, says)
      PROVE  SightsAreOfRequests'
    BY <1>1, <1>2, <1>7 DEF AnswerReads
<1> QED
    BY <1>3, <1>4, <1>5, <1>6, <1>7 DEF ConsentNext

\* Nothing is open for longer than it was opened for, and what was seen was seen by a
\* request that there is (ConsentTypeOK).
THEOREM ConsentTypes == ConsentSpec => []ConsentTypeOK
<1>1. ConsentInit => SightsAreOfRequests
  <2> SUFFICES ASSUME ConsentInit PROVE SightsAreOfRequests
      OBVIOUS
  <2>1. grants = <<>> /\ Len(grants) = 0 /\ seen = NothingSeen
      BY DEF ConsentInit
  <2> QED
      BY <2>1 DEF NothingSeen, SightsAreOfRequests
<1>2. ConsentSpec => []SightsAreOfRequests
    BY <1>1, SightsStayOfRequests, ConsentAlwaysHolds, PTL DEF ConsentSpec
<1>3. ConsentInv /\ SightsAreOfRequests => ConsentTypeOK
    BY DEF ConsentInv, OpeningsEnd, SightsAreOfRequests, ConsentTypeOK
<1> QED
    BY <1>2, <1>3, ConsentAlwaysHolds, PTL

-----------------------------------------------------------------------------
(***************************************************************************)
(* Registers.  A tablet whose register is switched off is out.  That rests *)
(* on what is known of a tablet that is a register: no other token than    *)
(* that register's is in its memory, none is being made for it, and it is  *)
(* not asked which register it is.                                         *)
(***************************************************************************)

NamingStages == {"idle", "known", "unknown", "create", "claim"}

\* The numbers are 1, 2, 3 and so on; a request has read some of them, from the first.
UpTo(S, last) == \E n \in 0..last : S = 1..n
RowsUpTo(last) ==
    /\ Numbers = 1..last /\ register \in [1..last -> [key : Tablets, on : BOOLEAN]]
    /\ tablet \in [Tablets -> [in : BOOLEAN, as : 0..last]]
    /\ naming \in [Tablets -> [at : NamingStages, number : 0..last, taken : SUBSET (1..last)]]
    /\ \A k \in Tablets : UpTo(naming[k].taken, last)

RegisterRows == \E last \in Nat : RowsUpTo(last)

OneRegister == \A n, m \in Numbers : register[n].key = register[m].key => n = m

\* What a tablet that is a register has in its memory and waits for.
KnowsItself(k, n) ==
    /\ tablet[k].in => tablet[k].as = n
    /\ naming[k].at \in {"idle", "known"}
    /\ naming[k].at = "known" => naming[k].number = n

TabletsKnow == \A n \in Numbers : KnowsItself(register[n].key, n)

\* Whom a register was taken from is whom it would still be.
BannedIsKey ==
    \A n \in Numbers \ overtaken :
        ~register[n].on => n \in DOMAIN banned /\ banned[n] = register[n].key

RegistersInv == RegisterRows /\ OneRegister /\ TabletsKnow /\ BannedIsKey

LEMMA RegistersInitHolds == RegistersInit => RegistersInv
<1> SUFFICES ASSUME RegistersInit PROVE RegistersInv
    OBVIOUS
<1>1. Numbers = 1..0 /\ Numbers = {}
    BY DEF RegistersInit, Numbers
<1>2. RowsUpTo(0)
  <2>1. register \in [1..0 -> [key : Tablets, on : BOOLEAN]]
      BY DEF RegistersInit
  <2>2. UpTo({}, 0)
      BY DEF UpTo
  <2>3. tablet \in [Tablets -> [in : BOOLEAN, as : 0..0]]
      BY DEF RegistersInit, SignedOut
  <2>4. naming \in [Tablets -> [at : NamingStages, number : 0..0, taken : SUBSET (1..0)]]
      BY DEF RegistersInit, NotNaming, NamingStages
  <2>5. \A k \in Tablets : UpTo(naming[k].taken, 0)
      BY <2>2 DEF RegistersInit, NotNaming
  <2> QED
      BY <1>1, <2>1, <2>3, <2>4, <2>5 DEF RowsUpTo
<1> QED
    BY <1>1, <1>2 DEF RegistersInv, RegisterRows, OneRegister, TabletsKnow, BannedIsKey

\* What a request for a name may be.
Requests(last) ==
    {r \in [at : NamingStages, number : 0..last, taken : SUBSET (1..last)] : UpTo(r.taken, last)}
Tokens(last) == [in : BOOLEAN, as : 0..last]

\* A tablet that is a register has no other token and waits for no other name.
Fits(k, token, request) ==
    \A n \in Numbers : register[n].key = k =>
        /\ token.in => token.as = n
        /\ request.at \in {"idle", "known"}
        /\ request.at = "known" => request.number = n

\* A step at one tablet that leaves the registers alone.
LEMMA TabletStep ==
    ASSUME RegistersInv, NEW last \in Nat, RowsUpTo(last), UNCHANGED <<register, banned, overtaken>>,
           NEW k \in Tablets, NEW token \in Tokens(last), NEW request \in Requests(last),
           tablet' = [tablet EXCEPT ![k] = token], naming' = [naming EXCEPT ![k] = request],
           Fits(k, token, request)
    PROVE  RegistersInv'
<1>1. Numbers' = Numbers
    BY DEF Numbers
<1>2. \A l \in Tablets : /\ tablet'[l] = IF l = k THEN token ELSE tablet[l]
                         /\ naming'[l] = IF l = k THEN request ELSE naming[l]
    BY DEF RowsUpTo
<1>3. RowsUpTo(last)'
    BY <1>1, <1>2 DEF RowsUpTo, Tokens, Requests
<1>4. TabletsKnow'
    BY <1>1, <1>2 DEF RegistersInv, TabletsKnow, KnowsItself, RowsUpTo, Fits
<1> QED
    BY <1>1, <1>3, <1>4 DEF RegistersInv, RegisterRows, OneRegister, BannedIsKey

\* The shapes of what a tablet is left with.
LEMMA TokenType ==
    ASSUME NEW last \in Nat
    PROVE  SignedOut \in Tokens(last) /\ \A n \in 0..last : As(n) \in Tokens(last)
BY DEF SignedOut, As, Tokens

Naming(at, n, taken) == [at |-> at, number |-> n, taken |-> taken]

LEMMA RequestType ==
    ASSUME NEW last \in Nat, NEW at \in NamingStages, NEW n \in 0..last
    PROVE  /\ Naming(at, n, {}) \in Requests(last)
           /\ \A j \in 0..last : Naming(at, n, 1..j) \in Requests(last)
<1>1. ASSUME NEW j \in 0..last PROVE 1..j \in SUBSET (1..last) /\ UpTo(1..j, last)
    BY DEF UpTo
<1>2. UpTo({}, last)
    BY DEF UpTo
<1> QED
    BY <1>1, <1>2 DEF Naming, Requests

LEMMA NamingForms ==
    /\ NotNaming = Naming("idle", 0, {})
    /\ \A at : [NotNaming EXCEPT !.at = at] = Naming(at, 0, {})
    /\ \A at, n : [NotNaming EXCEPT !.at = at, !.number = n] = Naming(at, n, {})
    /\ \A at, S : [NotNaming EXCEPT !.at = at, !.taken = S] = Naming(at, 0, S)
<1>1. ASSUME NEW at, NEW n, NEW S, NEW r \in [at : {at}, number : {n}, taken : {S}]
      PROVE  r = Naming(at, n, S)
    BY DEF Naming
<1>2. \A at : [NotNaming EXCEPT !.at = at] = Naming(at, 0, {})
    BY DEF NotNaming, Naming
<1>3. \A at, n : [NotNaming EXCEPT !.at = at, !.number = n] \in [at : {at}, number : {n}, taken : {{}}]
    BY DEF NotNaming
<1>4. \A at, S : [NotNaming EXCEPT !.at = at, !.taken = S] \in [at : {at}, number : {0}, taken : {S}]
    BY DEF NotNaming
<1>5. ASSUME NEW at, NEW n PROVE [NotNaming EXCEPT !.at = at, !.number = n] = Naming(at, n, {})
  <2> DEFINE r == [NotNaming EXCEPT !.at = at, !.number = n]
  <2>1. r \in [at : {at}, number : {n}, taken : {{}}]
      BY <1>3
  <2> HIDE DEF r
  <2>2. r = Naming(at, n, {})
      BY <1>1, <2>1
  <2> QED
      BY <2>2 DEF r
<1>6. ASSUME NEW at, NEW S PROVE [NotNaming EXCEPT !.at = at, !.taken = S] = Naming(at, 0, S)
  <2> DEFINE r == [NotNaming EXCEPT !.at = at, !.taken = S]
  <2>1. r \in [at : {at}, number : {0}, taken : {S}]
      BY <1>4
  <2> HIDE DEF r
  <2>2. r = Naming(at, 0, S)
      BY <1>1, <2>1
  <2> QED
      BY <2>2 DEF r
<1> QED
    BY <1>2, <1>5, <1>6 DEF NotNaming, Naming

LEMMA NotNamingType == ASSUME NEW last \in Nat PROVE NotNaming \in Requests(last)
<1>1. "idle" \in NamingStages /\ 0 \in 0..last
    BY DEF NamingStages
<1>2. Naming("idle", 0, {}) \in Requests(last)
    BY <1>1, RequestType
<1> QED
    BY <1>2, NamingForms

LEMMA SignInReadsHolds == ASSUME RegistersInv, NEW k \in Tablets, SignInReads(k) PROVE RegistersInv'
<1>1. PICK last \in Nat : RowsUpTo(last)
    BY DEF RegistersInv, RegisterRows
<1>2. UNCHANGED <<register, banned, overtaken>> /\ tablet' = [tablet EXCEPT ![k] = SignedOut]
    BY DEF SignInReads
<1>3. \A n \in Numbers : n \in 0..last /\ (register[n].key = k <=> n \in RegisterOf(k))
    BY <1>1 DEF RowsUpTo, RegisterOf
<1>4. ~SignedOut.in /\ SignedOut \in Tokens(last)
    BY TokenType DEF SignedOut
<1>5. CASE \E n \in RegisterOf(k) : AsksFor(k, [NotNaming EXCEPT !.at = "known", !.number = n])
  <2>1. PICK n \in RegisterOf(k) : AsksFor(k, [NotNaming EXCEPT !.at = "known", !.number = n])
      BY <1>5
  <2> DEFINE request == Naming("known", n, {})
  <2>2. n \in Numbers /\ n \in 0..last /\ \A m \in Numbers : register[m].key = k => m = n
      BY <1>3 DEF RegisterOf, RegistersInv, OneRegister
  <2>3. request \in Requests(last)
      BY <2>2, RequestType DEF NamingStages
  <2>4. naming' = [naming EXCEPT ![k] = request]
      BY <2>1, NamingForms DEF AsksFor
  <2>5. Fits(k, SignedOut, request)
      BY <1>4, <2>2 DEF Fits, Naming
  <2> HIDE DEF request
  <2> QED
      BY <1>1, <1>2, <1>4, <2>3, <2>4, <2>5, TabletStep
<1>6. ASSUME RegisterOf(k) = {}, NEW at \in NamingStages, AsksFor(k, [NotNaming EXCEPT !.at = at])
      PROVE  RegistersInv'
  <2> DEFINE request == Naming(at, 0, {})
  <2>1. naming' = [naming EXCEPT ![k] = request]
      BY <1>6, NamingForms DEF AsksFor
  <2>2. Fits(k, SignedOut, request)
      BY <1>3, <1>6 DEF Fits
  <2>3. request \in Requests(last)
      BY RequestType
  <2> HIDE DEF request
  <2> QED
      BY <1>1, <1>2, <1>4, <2>1, <2>2, <2>3, TabletStep
<1> QED
    BY <1>5, <1>6 DEF SignInReads, NamingStages

LEMMA SignInEndsHolds == ASSUME RegistersInv, NEW k \in Tablets, SignInEnds(k) PROVE RegistersInv'
<1>1. PICK last \in Nat : RowsUpTo(last)
    BY DEF RegistersInv, RegisterRows
<1> DEFINE n == naming[k].number
<1>2. /\ UNCHANGED <<register, banned, overtaken>> /\ tablet' = [tablet EXCEPT ![k] = As(n)]
      /\ naming' = [naming EXCEPT ![k] = NotNaming] /\ naming[k].at \in {"known", "unknown"}
    BY DEF SignInEnds, Ends
<1>3. n \in 0..last
    BY <1>1 DEF RowsUpTo
<1>4. \A m \in Numbers : register[m].key = k => n = m
    BY <1>2 DEF RegistersInv, TabletsKnow, KnowsItself
<1> HIDE DEF n
<1>5. Fits(k, As(n), NotNaming)
    BY <1>4 DEF Fits, As, NotNaming
<1>6. As(n) \in Tokens(last) /\ NotNaming \in Requests(last)
    BY <1>3, TokenType, NotNamingType
<1> QED
    BY <1>1, <1>2, <1>5, <1>6, TabletStep

\* A tablet with a token that names no register is no register.
LEMMA NamelessIsNone ==
    ASSUME RegistersInv, NEW k \in Tablets, tablet[k].in, tablet[k].as = 0
    PROVE  \A n \in Numbers : register[n].key # k
<1>1. \A n \in Numbers : n # 0
    BY DEF RegistersInv, RegisterRows, RowsUpTo
<1> QED
    BY <1>1 DEF RegistersInv, TabletsKnow, KnowsItself

LEMMA NewReadsHolds == ASSUME RegistersInv, NEW k \in Tablets, NewReads(k) PROVE RegistersInv'
<1>1. PICK last \in Nat : RowsUpTo(last)
    BY DEF RegistersInv, RegisterRows
<1>2. UNCHANGED <<register, banned, overtaken>> /\ tablet[k].in /\ tablet[k].as = 0
    BY DEF NewReads, Works
<1>3. \A n \in Numbers : register[n].key # k
    BY <1>2, NamelessIsNone
<1> DEFINE request == Naming("create", 0, 1..last)
<1>4. RegisterOf(k) = {} /\ Numbers = 1..last
    BY <1>1, <1>3 DEF RegisterOf, RowsUpTo
<1>5. UNCHANGED tablet /\ naming' = [naming EXCEPT ![k] = request]
  <2>1. AsksFor(k, [NotNaming EXCEPT !.at = "create", !.taken = Numbers]) /\ UNCHANGED tablet
      BY <1>4 DEF NewReads
  <2>2. [NotNaming EXCEPT !.at = "create", !.taken = Numbers] = request
      BY <1>4, NamingForms
  <2> QED
      BY <2>1, <2>2 DEF AsksFor
<1>6. request \in Requests(last)
    BY RequestType DEF NamingStages
<1>7. Fits(k, tablet[k], request)
    BY <1>3 DEF Fits
<1> HIDE DEF request
<1>8. tablet' = [tablet EXCEPT ![k] = tablet[k]] /\ tablet[k] \in Tokens(last)
    BY <1>1, <1>5 DEF RowsUpTo, Tokens
<1> QED
    BY <1>1, <1>2, <1>5, <1>6, <1>7, <1>8, TabletStep

LEMMA ClaimReadsHolds ==
    ASSUME RegistersInv, NEW k \in Tablets, NEW n \in Numbers, ClaimReads(k, n) PROVE RegistersInv'
<1>1. PICK last \in Nat : RowsUpTo(last)
    BY DEF RegistersInv, RegisterRows
<1> DEFINE request == Naming("claim", n, {})
<1>2. /\ UNCHANGED <<register, banned, overtaken, tablet>> /\ tablet[k].in /\ tablet[k].as = 0
      /\ naming' = [naming EXCEPT ![k] = request]
    BY NamingForms DEF ClaimReads, Works, AsksFor
<1>3. n \in 0..last
    BY <1>1 DEF RowsUpTo
<1>4. Fits(k, tablet[k], request)
    BY <1>2, NamelessIsNone DEF Fits
<1>5. request \in Requests(last)
    BY <1>3, RequestType DEF NamingStages
<1> HIDE DEF request
<1>6. tablet' = [tablet EXCEPT ![k] = tablet[k]] /\ tablet[k] \in Tokens(last)
    BY <1>1, <1>2 DEF RowsUpTo, Tokens
<1> QED
    BY <1>1, <1>2, <1>4, <1>5, <1>6, TabletStep

-----------------------------------------------------------------------------
\* The number after 1..j.
LEMMA NextNumberIs == ASSUME NEW j \in Nat PROVE NextNumber(1..j) = j + 1
<1>1. CASE j = 0
    BY <1>1 DEF NextNumber
<1>2. CASE j # 0
  <2>1. j \in 1..j /\ \A y \in 1..j : j >= y
      BY <1>2
  <2>2. Max(1..j) \in 1..j /\ \A y \in 1..j : Max(1..j) >= y
      BY <2>1 DEF Max
  <2> QED
      BY <1>2, <2>1, <2>2 DEF NextNumber
<1> QED
    BY <1>1, <1>2

\* A tablet that waits for a name of its own is no register yet.
LEMMA UnnamedIsNone ==
    ASSUME RegistersInv, NEW k \in Tablets, naming[k].at \in {"create", "claim"}
    PROVE  \A n \in Numbers : register[n].key # k
BY DEF RegistersInv, TabletsKnow, KnowsItself

LEMMA NumberCommitsHolds ==
    ASSUME RegistersInv, NEW k \in Tablets, NumberCommits(k)
    PROVE  RegistersInv' /\ \A n \in Numbers' \ Numbers : \A m \in Numbers : m < n
<1>1. PICK last \in Nat : RowsUpTo(last)
    BY DEF RegistersInv, RegisterRows
<1>2. PICK j \in 0..last : naming[k].taken = 1..j
    BY <1>1 DEF RowsUpTo, UpTo
<1>3. naming[k].at = "create" /\ UNCHANGED <<banned, overtaken>>
    BY DEF NumberCommits
<1> DEFINE n == j + 1
<1>4. NextNumber(naming[k].taken) = n
    BY <1>2, NextNumberIs
<1>5. \A m \in Numbers : register[m].key # k
    BY <1>3, UnnamedIsNone
<1>6. RegisterOf(k) = {}
    BY <1>5 DEF RegisterOf
<1>7. Numbers = 1..last
    BY <1>1 DEF RowsUpTo
<1>8. CASE n \in Numbers
  <2>1. UNCHANGED <<register, tablet>>
        /\ naming' = [naming EXCEPT ![k] = [naming[k] EXCEPT !.taken = 1..last]]
      BY <1>4, <1>7, <1>8 DEF NumberCommits, AsksFor
  <2> DEFINE request == Naming("create", naming[k].number, 1..last)
  <2>2. [naming[k] EXCEPT !.taken = 1..last] = request
      BY <1>1, <1>3 DEF RowsUpTo, Naming
  <2>3. request \in Requests(last)
    <3>1. naming[k].number \in 0..last
        BY <1>1 DEF RowsUpTo
    <3> QED
        BY <3>1, RequestType DEF NamingStages
  <2>4. Fits(k, tablet[k], request)
      BY <1>5 DEF Fits
  <2> HIDE DEF request
  <2>5. tablet' = [tablet EXCEPT ![k] = tablet[k]] /\ tablet[k] \in Tokens(last)
      BY <1>1, <2>1 DEF RowsUpTo, Tokens
  <2>6. RegistersInv'
      BY <1>1, <1>3, <2>1, <2>2, <2>3, <2>4, <2>5, TabletStep
  <2>7. Numbers' = Numbers
      BY <2>1 DEF Numbers
  <2> QED
      BY <2>6, <2>7
<1>9. CASE n \notin Numbers
  <2> DEFINE row == [key |-> k, on |-> TRUE]
  <2>1. n = last + 1
      BY <1>7, <1>9
  <2>2. /\ register' = [m \in 1..n |-> IF m = n THEN row ELSE register[m]]
        /\ tablet' = [tablet EXCEPT ![k] = As(n)] /\ naming' = [naming EXCEPT ![k] = NotNaming]
    <3>1. 1..last \cup {n} = 1..n
        BY <2>1
    <3> QED
        BY ZenonT(60), <1>4, <1>6, <1>7, <1>9, <3>1 DEF NumberCommits, Ends
  <2>3. Numbers' = 1..n
      BY <2>2 DEF Numbers
  <2> HIDE DEF n
  <2>4. \A l \in Tablets : /\ tablet'[l] = IF l = k THEN As(n) ELSE tablet[l]
                           /\ naming'[l] = IF l = k THEN NotNaming ELSE naming[l]
      BY <1>1, <2>2 DEF RowsUpTo
  <2>5. n \in Nat /\ 1..last \subseteq 1..n /\ 0..last \subseteq 0..n /\ n \in 0..n
      BY <2>1
  <2>6. As(n) \in Tokens(n) /\ NotNaming \in Requests(n)
      BY <2>5, TokenType, NotNamingType
  <2>7. RowsUpTo(n)'
    <3>1. register' \in [1..n -> [key : Tablets, on : BOOLEAN]]
        BY <1>1, <2>1, <2>2 DEF RowsUpTo
    <3>2. tablet' \in [Tablets -> [in : BOOLEAN, as : 0..n]]
        BY <1>1, <2>2, <2>5, <2>6 DEF RowsUpTo, Tokens
    <3>3. naming' \in [Tablets -> [at : NamingStages, number : 0..n, taken : SUBSET (1..n)]]
      <4>1. [at : NamingStages, number : 0..last, taken : SUBSET (1..last)]
            \subseteq [at : NamingStages, number : 0..n, taken : SUBSET (1..n)]
          BY <2>5
      <4> QED
          BY <1>1, <2>2, <2>6, <4>1 DEF RowsUpTo, Requests
    <3>4. \A l \in Tablets : UpTo(naming'[l].taken, n)
      <4>1. \A l \in Tablets : UpTo(naming[l].taken, n)
          BY <1>1, <2>5 DEF RowsUpTo, UpTo
      <4>2. UpTo(NotNaming.taken, n)
          BY <2>6 DEF Requests
      <4> QED
          BY <2>4, <4>1, <4>2
    <3> QED
        BY <2>3, <3>1, <3>2, <3>3, <3>4 DEF RowsUpTo
  <2>8. /\ register'[n] = row /\ n \notin Numbers /\ Numbers' = Numbers \cup {n}
        /\ \A m \in Numbers : register'[m] = register[m]
      BY <1>7, <2>1, <2>2, <2>3, <2>5
  <2>9. OneRegister'
      BY <1>5, <2>8 DEF RegistersInv, OneRegister
  <2>10. TabletsKnow'
      BY <1>1, <1>5, <1>7, <2>4, <2>8 DEF RegistersInv, TabletsKnow, KnowsItself, RowsUpTo, As, NotNaming
  <2>11. BannedIsKey'
      BY <1>3, <2>8 DEF RegistersInv, BannedIsKey
  <2>12. \A m \in Numbers : m < n
      BY <1>7, <2>1
  <2> QED
      BY <2>5, <2>7, <2>8, <2>9, <2>10, <2>11, <2>12 DEF RegistersInv, RegisterRows
<1> QED
    BY <1>8, <1>9

LEMMA ClaimCommitsHolds == ASSUME RegistersInv, NEW k \in Tablets, ClaimCommits(k) PROVE RegistersInv'
<1>1. PICK last \in Nat : RowsUpTo(last)
    BY DEF RegistersInv, RegisterRows
<1> DEFINE n == naming[k].number
<1>2. naming[k].at = "claim" /\ UNCHANGED banned
    BY DEF ClaimCommits
<1>3. \A m \in Numbers : register[m].key # k
    BY <1>2, UnnamedIsNone
<1>4. /\ register' = [register EXCEPT ![n].key = k]
      /\ overtaken' = IF register[n].on THEN overtaken ELSE overtaken \cup {n}
      /\ tablet' = [tablet EXCEPT ![k] = As(n)] /\ naming' = [naming EXCEPT ![k] = NotNaming]
  <2>1. RegisterOf(k) \subseteq {n}
      BY <1>3 DEF RegisterOf
  <2> QED
      BY <2>1 DEF ClaimCommits, Ends
<1>5. Numbers = 1..last /\ n \in 0..last
    BY <1>1 DEF RowsUpTo
<1> HIDE DEF n
<1>6. As(n) \in Tokens(last) /\ NotNaming \in Requests(last)
    BY <1>5, TokenType, NotNamingType
<1>7. \A l \in Tablets : /\ tablet'[l] = IF l = k THEN As(n) ELSE tablet[l]
                         /\ naming'[l] = IF l = k THEN NotNaming ELSE naming[l]
    BY <1>1, <1>4 DEF RowsUpTo
<1>8. /\ register' \in [1..last -> [key : Tablets, on : BOOLEAN]] /\ Numbers' = 1..last
      /\ \A m \in Numbers : register'[m].on = register[m].on
                           /\ register'[m].key = IF m = n THEN k ELSE register[m].key
    BY ZenonT(60), <1>1, <1>4, <1>5 DEF RowsUpTo, Numbers
<1>9. RowsUpTo(last)'
  <2>1. tablet' \in [Tablets -> [in : BOOLEAN, as : 0..last]]
      BY <1>1, <1>4, <1>6 DEF RowsUpTo, Tokens
  <2>2. naming' \in [Tablets -> [at : NamingStages, number : 0..last, taken : SUBSET (1..last)]]
      BY <1>1, <1>4, <1>6 DEF RowsUpTo, Requests
  <2>3. \A l \in Tablets : UpTo(naming'[l].taken, last)
      BY <1>1, <1>6, <1>7 DEF RowsUpTo, Requests
  <2> QED
      BY <1>8, <2>1, <2>2, <2>3 DEF RowsUpTo
<1>10. OneRegister'
    BY <1>3, <1>5, <1>8 DEF RegistersInv, OneRegister
<1>11. TabletsKnow'
  <2> SUFFICES ASSUME NEW m \in Numbers PROVE KnowsItself(register[m].key, m)'
      BY <1>5, <1>8 DEF TabletsKnow
  <2>1. CASE m = n
      BY <1>4, <1>7, <1>8, <2>1 DEF KnowsItself, As, NotNaming
  <2>2. CASE m # n
    <3>1. register'[m].key = register[m].key /\ register[m].key # k /\ register[m].key \in Tablets
        BY <1>1, <1>3, <1>5, <1>8, <2>2 DEF RowsUpTo
    <3> QED
        BY <1>7, <3>1 DEF RegistersInv, TabletsKnow, KnowsItself
  <2> QED
      BY <2>1, <2>2
<1>12. BannedIsKey'
    BY <1>2, <1>4, <1>5, <1>8 DEF RegistersInv, BannedIsKey
<1> QED
    BY <1>9, <1>10, <1>11, <1>12 DEF RegistersInv, RegisterRows

\* Switching a register off or on touches neither keys nor tablets.
LEMMA SwitchHolds ==
    ASSUME RegistersInv, NEW n \in Numbers, NEW on \in BOOLEAN,
           register' = [register EXCEPT ![n].on = on], UNCHANGED <<tablet, naming>>,
           BannedIsKey'
    PROVE  RegistersInv'
<1>1. PICK last \in Nat : RowsUpTo(last)
    BY DEF RegistersInv, RegisterRows
<1>2. /\ register' \in [1..last -> [key : Tablets, on : BOOLEAN]] /\ Numbers' = 1..last
      /\ Numbers = 1..last /\ \A m \in Numbers : register'[m].key = register[m].key
    BY <1>1 DEF RowsUpTo, Numbers
<1>3. RowsUpTo(last)'
    BY <1>1, <1>2 DEF RowsUpTo
<1> QED
    BY <1>2, <1>3 DEF RegistersInv, RegisterRows, OneRegister, TabletsKnow, KnowsItself

LEMMA RegisterSwitched ==
    ASSUME RegistersInv, NEW n \in Numbers, NEW on \in BOOLEAN,
           register' = [register EXCEPT ![n].on = on]
    PROVE  /\ Numbers' = Numbers /\ register'[n].on = on /\ register'[n].key = register[n].key
           /\ \A m \in Numbers \ {n} : register'[m] = register[m]
BY DEF RegistersInv, RegisterRows, RowsUpTo, Numbers

LEMMA RevokesHolds ==
    ASSUME RegistersInv, NEW k \in Tablets, NEW n \in Numbers, Revokes(k, n) PROVE RegistersInv'
<1>1. /\ register' = [register EXCEPT ![n].on = FALSE] /\ UNCHANGED <<tablet, naming, overtaken>>
      /\ banned' = [m \in DOMAIN banned \cup {n} |-> IF m = n THEN register[n].key ELSE banned[m]]
    BY DEF Revokes
<1>2. /\ Numbers' = Numbers /\ register'[n].key = register[n].key
      /\ \A m \in Numbers \ {n} : register'[m] = register[m]
    BY <1>1, RegisterSwitched
<1>3. BannedIsKey'
    BY <1>1, <1>2 DEF RegistersInv, BannedIsKey
<1> QED
    BY <1>1, <1>3, SwitchHolds

LEMMA RestoresHolds ==
    ASSUME RegistersInv, NEW k \in Tablets, NEW n \in Numbers, Restores(k, n) PROVE RegistersInv'
<1>1. /\ register' = [register EXCEPT ![n].on = TRUE] /\ UNCHANGED <<tablet, naming, banned>>
      /\ overtaken' = overtaken \ {n}
    BY DEF Restores
<1>2. /\ Numbers' = Numbers /\ register'[n].on
      /\ \A m \in Numbers \ {n} : register'[m] = register[m]
    BY <1>1, RegisterSwitched
<1>3. BannedIsKey'
    BY <1>1, <1>2 DEF RegistersInv, BannedIsKey
<1> QED
    BY <1>1, <1>3, SwitchHolds

LEMMA RegistersStepHolds ==
    RegistersInv /\ [RegistersNext]_registersVars =>
        RegistersInv' /\ \A n \in Numbers' \ Numbers : \A m \in Numbers : m < n
<1> SUFFICES ASSUME RegistersInv, [RegistersNext]_registersVars
             PROVE  RegistersInv' /\ \A n \in Numbers' \ Numbers : \A m \in Numbers : m < n
    OBVIOUS
<1>1. CASE UNCHANGED registersVars
    BY <1>1 DEF registersVars, RegistersInv, RegisterRows, RowsUpTo, OneRegister, TabletsKnow,
                KnowsItself, BannedIsKey, Numbers
<1>2. ASSUME NEW k \in Tablets, SignInReads(k) \/ SignInEnds(k) \/ NewReads(k) \/ ClaimCommits(k)
      PROVE  RegistersInv' /\ Numbers' = Numbers
  <2>1. Numbers' = Numbers
      BY <1>2 DEF Numbers, SignInReads, SignInEnds, NewReads, ClaimCommits
  <2> QED
      BY <1>2, <2>1, SignInReadsHolds, SignInEndsHolds, NewReadsHolds, ClaimCommitsHolds
<1>3. ASSUME NEW k \in Tablets, NEW n \in Numbers, ClaimReads(k, n) \/ Revokes(k, n) \/ Restores(k, n)
      PROVE  RegistersInv' /\ Numbers' = Numbers
  <2>1. Numbers' = Numbers
      BY <1>3 DEF Numbers, ClaimReads, Revokes, Restores
  <2> QED
      BY <1>3, <2>1, ClaimReadsHolds, RevokesHolds, RestoresHolds
<1>4. CASE RegistersNext
    BY <1>2, <1>3, <1>4, NumberCommitsHolds DEF RegistersNext
<1> QED
    BY <1>1, <1>4

LEMMA RegistersAlwaysHold == RegistersSpec => []RegistersInv
    BY RegistersInitHolds, RegistersStepHolds, PTL DEF RegistersSpec

-----------------------------------------------------------------------------
\* A tablet is at most one register, whoever claims and creates beside it, and
\* its token names a register that is there (the index on the key).
THEOREM RegisterTypes == RegistersSpec => []RegistersTypeOK
<1>1. ASSUME RegistersInv, NEW k \in Tablets PROVE Cardinality(RegisterOf(k)) <= 1
  <2>1. CASE RegisterOf(k) = {}
      BY <2>1, FS_EmptySet
  <2>2. CASE RegisterOf(k) # {}
    <3>1. PICK n \in RegisterOf(k) : TRUE
        BY <2>2
    <3>2. RegisterOf(k) = {n}
        BY <1>1, <3>1 DEF RegistersInv, OneRegister, RegisterOf
    <3> QED
        BY <3>2, FS_Singleton
  <2> QED
      BY <2>1, <2>2
<1>2. RegistersInv => RegistersTypeOK
  <2> SUFFICES ASSUME RegistersInv PROVE RegistersTypeOK
      OBVIOUS
  <2>1. PICK last \in Nat : RowsUpTo(last)
      BY DEF RegistersInv, RegisterRows
  <2>2. \A n \in Numbers : register[n].key \in Tablets /\ register[n].on \in BOOLEAN
      BY <2>1 DEF RowsUpTo
  <2>3. \A k \in Tablets : tablet[k].as \in Numbers \cup {0}
      BY <2>1 DEF RowsUpTo
  <2> QED
      BY <1>1, <2>2, <2>3 DEF RegistersTypeOK
<1> QED
    BY <1>2, RegistersAlwaysHold, PTL

\* The tablet a register was switched off on is out until it is switched on again
\* (schema.prisma, revokedAt), whatever it had asked for before.
THEOREM RevokedAlwaysStaysOut == RegistersSpec => []RevokedStaysOut
<1>1. RegistersInv => RevokedStaysOut
  <2> SUFFICES ASSUME RegistersInv, NEW n \in Numbers \ overtaken, ~register[n].on
               PROVE  ~Works(banned[n])
      BY DEF RevokedStaysOut
  <2>1. banned[n] = register[n].key /\ n # 0
      BY DEF RegistersInv, BannedIsKey, RegisterRows, RowsUpTo
  <2>2. tablet[banned[n]].in => tablet[banned[n]].as = n
      BY <2>1 DEF RegistersInv, TabletsKnow, KnowsItself
  <2> QED
      BY <2>1, <2>2 DEF Works
<1> QED
    BY <1>1, RegistersAlwaysHold, PTL

\* A number that was ever given is not given again, however many tablets are
\* switched on at once (registers.ts, nextRegisterNumber).
THEOREM NumbersAlwaysGrow == RegistersSpec => NumbersGrow
<1>1. RegistersInv /\ [RegistersNext]_registersVars =>
          [\A n \in DOMAIN register' \ Numbers : \A m \in Numbers : m < n]_registersVars
    BY RegistersStepHolds DEF Numbers
<1> QED
    BY <1>1, RegistersAlwaysHold, PTL DEF RegistersSpec, NumbersGrow

-----------------------------------------------------------------------------
(***************************************************************************)
(* The cabinet.  The key of a lock never changes without its version, so   *)
(* that what a request has read of a lock of this version is still so; a   *)
(* door that is not set has no key.  Both fail once an old first visit or  *)
(* enrolment is written over a new lock, which is what overrun says.       *)
(***************************************************************************)

VisitStages == {"none", "password", "signIn", "signInByCode", "setup", "enable", "disable",
                "disableByCode", "reset"}
Locks(n) == [set : BOOLEAN, version : Nat, key : 0..n, pending : 0..n]

CabinetShapes ==
    /\ keys \in Nat /\ lock \in Locks(keys)
    /\ visit \in [Visits -> [at : VisitStages, row : Locks(keys), code : Nat]]
    /\ \A v \in Visits : visit[v].row.version <= lock.version
    /\ \A s \in opened : s.version \in Nat /\ s.version <= lock.version /\ s.key \in 0..keys

\* A code that can still be used was not.
CodesUnused ==
    /\ uses \in Seq({0, 1}) /\ codes \subseteq 1..Len(uses)
    /\ \A paper \in codes : uses[paper] = 0

\* What a request read of a lock of this version is still so.
ReadIsSo(v) ==
    visit[v].at \in VisitStages \ {"none", "reset"} /\ visit[v].row.version = lock.version =>
        visit[v].row.key = lock.key /\ (visit[v].row.set => lock.set)

TokensShown == \A s \in opened : s.version = lock.version /\ lock.key # NoKey => s.key = lock.key

LockInv ==
    /\ ~lock.set => lock.key = NoKey
    /\ \A v \in Visits : /\ ReadIsSo(v) /\ (visit[v].at = "enable" => visit[v].row.set)
                         /\ visit[v].at = "password" => ~visit[v].row.set
    /\ TokensShown

CabinetInv == CabinetShapes /\ CodesUnused /\ (overrun \in BOOLEAN) /\ (overrun \/ LockInv)

LEMMA CabinetInitHolds == CabinetInit => CabinetInv
<1> SUFFICES ASSUME CabinetInit PROVE CabinetInv
    OBVIOUS
<1>1. lock \in Locks(0) /\ lock.version = 0 /\ lock.key = NoKey
    BY DEF CabinetInit, Locks, NoKey
<1>2. NoVisit \in [at : VisitStages, row : Locks(0), code : Nat] /\ NoVisit.at = "none"
      /\ NoVisit.row.version = 0
    BY DEF NoVisit, NoKey, Locks, VisitStages
<1>3. CabinetShapes
    BY <1>1, <1>2 DEF CabinetInit, CabinetShapes
<1>4. CodesUnused
    BY DEF CabinetInit, CodesUnused
<1>5. LockInv
    BY <1>1, <1>2 DEF CabinetInit, LockInv, ReadIsSo, TokensShown
<1> QED
    BY <1>3, <1>4, <1>5 DEF CabinetInit, CabinetInv

\* Somebody comes: the row is read and nothing is written.
LEMMA ComesHolds ==
    ASSUME CabinetInv, NEW v \in Visits, NEW at \in VisitStages, NEW code \in Nat,
           Comes(v, at, code), at = "enable" => lock.set,
           at = "password" => ~lock.set
    PROVE  CabinetInv'
<1> DEFINE request == [NoVisit EXCEPT !.at = at, !.row = lock, !.code = code]
<1>1. /\ visit' = [visit EXCEPT ![v] = request]
      /\ UNCHANGED <<lock, codes, opened, keys, uses, overrun>>
    BY DEF Comes
<1>2. request \in [at : {at}, row : {lock}, code : {code}]
    BY DEF NoVisit
<1> HIDE DEF request
<1>3. request.at = at /\ request.row = lock
      /\ request \in [at : VisitStages, row : Locks(keys), code : Nat]
    BY <1>2 DEF CabinetInv, CabinetShapes
<1>4. \A w \in Visits : visit'[w] = IF w = v THEN request ELSE visit[w]
    BY <1>1 DEF CabinetInv, CabinetShapes
<1>5. lock.version \in Nat
    BY DEF CabinetInv, CabinetShapes, Locks
<1>6. CabinetShapes'
    BY <1>1, <1>3, <1>4, <1>5 DEF CabinetInv, CabinetShapes
<1>7. CodesUnused'
    BY <1>1 DEF CabinetInv, CodesUnused
<1>8. LockInv => LockInv'
    BY <1>1, <1>3, <1>4 DEF LockInv, ReadIsSo, TokensShown
<1> QED
    BY <1>1, <1>6, <1>7, <1>8 DEF CabinetInv

\* Whoever leaves waits for nothing.
LEMMA LeavesForm ==
    ASSUME CabinetInv, NEW v \in Visits, Leaves(v)
    PROVE  /\ \A w \in Visits : visit'[w] = IF w = v THEN NoVisit ELSE visit[w]
           /\ \A n \in Nat : NoVisit \in [at : VisitStages, row : Locks(n), code : Nat]
           /\ NoVisit.at = "none" /\ NoVisit.row.version = 0
           /\ visit' = [w \in Visits |-> visit'[w]]
<1>1. \A n \in Nat : NoVisit \in [at : VisitStages, row : Locks(n), code : Nat]
    BY DEF NoVisit, Locks, NoKey, VisitStages
<1>2. visit = [w \in Visits |-> visit[w]]
    BY DEF CabinetInv, CabinetShapes
<1>3. visit' = [visit EXCEPT ![v] = NoVisit]
    BY DEF Leaves
<1>4. NoVisit.at = "none" /\ NoVisit.row.version = 0
    BY DEF NoVisit
<1> QED
    BY <1>1, <1>2, <1>3, <1>4

\* What is given out fits the lock; the key of a lock stays, or its version is
\* one more.
TokensFit ==
    \A s \in opened' :
        s \in opened \/ (s \in [version : Nat, key : 0..keys'] /\ s.version <= lock'.version)
KeysGrow == keys' \in Nat /\ keys <= keys' /\ lock' \in Locks(keys')
VersionMoves(bump) == lock'.version = IF bump THEN lock.version + 1 ELSE lock.version
LockHolds(bump) ==
    /\ ~overrun
    /\ bump \/ (lock'.key = lock.key /\ (lock.set => lock'.set))
    /\ ~lock'.set => lock'.key = NoKey
    /\ \A s \in opened' \ opened :
          s.version = lock'.version /\ lock'.key # NoKey => s.key = lock'.key

\* A step at which somebody leaves.
LEMMA LeavesHolds ==
    ASSUME CabinetInv, NEW v \in Visits, Leaves(v), KeysGrow, NEW bump \in BOOLEAN, VersionMoves(bump), TokensFit,
           CodesUnused', overrun' \in BOOLEAN, overrun' \/ LockHolds(bump)
    PROVE  CabinetInv'
<1> DEFINE n == keys'
<1>0. n \in Nat /\ keys <= n /\ lock' \in Locks(n)
    BY DEF KeysGrow
<1>1. /\ \A w \in Visits : visit'[w] = IF w = v THEN NoVisit ELSE visit[w]
      /\ NoVisit \in [at : VisitStages, row : Locks(n), code : Nat]
      /\ NoVisit.at = "none" /\ NoVisit.row.version = 0
      /\ visit' = [w \in Visits |-> visit'[w]]
    BY <1>0, LeavesForm
<1>2. keys \in Nat /\ 0..keys \subseteq 0..n
    BY <1>0 DEF CabinetInv, CabinetShapes
<1>3. lock.version \in Nat /\ lock'.version \in Nat /\ lock.version <= lock'.version
      /\ (bump => \A k \in Nat : k <= lock.version => k < lock'.version)
  <2>1. lock.version \in Nat
      BY DEF CabinetInv, CabinetShapes, Locks
  <2> QED
      BY <1>0, <2>1 DEF VersionMoves, Locks
<1>4. Locks(keys) \subseteq Locks(n)
    BY <1>2 DEF Locks
<1>5. visit' \in [Visits -> [at : VisitStages, row : Locks(n), code : Nat]]
    BY <1>1, <1>4 DEF CabinetInv, CabinetShapes
<1>6. \A w \in Visits : visit[w].row.version \in Nat /\ visit[w].row.version <= lock.version
    BY DEF CabinetInv, CabinetShapes, Locks
<1>7. \A w \in Visits : visit'[w].row.version <= lock'.version
    BY <1>1, <1>3, <1>6
<1>8. \A s \in opened' : s.version \in Nat /\ s.version <= lock'.version /\ s.key \in 0..n
    BY <1>2, <1>3 DEF CabinetInv, CabinetShapes, TokensFit
<1>9. CabinetShapes'
    BY <1>0, <1>5, <1>7, <1>8 DEF CabinetShapes
<1>10. ASSUME ~overrun' PROVE LockInv'
  <2>1. LockInv /\ ~overrun /\ LockHolds(bump)
      BY <1>10 DEF CabinetInv, LockHolds
  <2>2. \A w \in Visits : ReadIsSo(w)'
    <3> SUFFICES ASSUME NEW w \in Visits, w # v, visit[w].at \in VisitStages \ {"none", "reset"},
                        visit[w].row.version = lock'.version
                 PROVE  visit[w].row.key = lock'.key /\ (visit[w].row.set => lock'.set)
        BY <1>1 DEF ReadIsSo
    <3>1. ~bump
        BY <1>3, <1>6
    <3>2. visit[w].row.key = lock.key /\ (visit[w].row.set => lock.set)
        BY <2>1, <3>1 DEF LockInv, ReadIsSo, VersionMoves
    <3> QED
        BY <2>1, <3>1, <3>2 DEF LockHolds
  <2>3. TokensShown'
    <3> SUFFICES ASSUME NEW s \in opened', s.version = lock'.version, lock'.key # NoKey
                 PROVE  s.key = lock'.key
        BY DEF TokensShown
    <3>1. CASE s \in opened
      <4>1. s.version \in Nat /\ s.version <= lock.version
          BY <3>1 DEF CabinetInv, CabinetShapes
      <4>2. ~bump
          BY <1>3, <4>1
      <4> QED
          BY <2>1, <3>1, <4>2 DEF LockInv, TokensShown, LockHolds, VersionMoves
    <3>2. CASE s \notin opened
        BY <2>1, <3>2 DEF LockHolds
    <3> QED
        BY <3>1, <3>2
  <2> QED
      BY <1>1, <2>1, <2>2, <2>3 DEF LockInv, LockHolds
<1> QED
    BY <1>9, <1>10 DEF CabinetInv

LEMMA LockType == CabinetInv => lock.version \in Nat /\ keys \in Nat /\ lock \in Locks(keys)
BY DEF CabinetInv, CabinetShapes, Locks

LEMMA PasswordCommitsHolds == ASSUME CabinetInv, NEW v \in Visits, PasswordCommits(v) PROVE CabinetInv'
<1> DEFINE token == [version |-> lock.version, key |-> NoKey]
<1>1. /\ lock' = [lock EXCEPT !.set = TRUE] /\ opened' = opened \cup {token} /\ Leaves(v)
      /\ overrun' = (overrun \/ lock # visit[v].row) /\ UNCHANGED <<codes, keys, uses>>
      /\ visit[v].at = "password"
    BY DEF PasswordCommits, GivesToken
<1>2. lock' \in Locks(keys) /\ lock'.version = lock.version /\ lock'.key = lock.key /\ lock'.set
    BY <1>1, LockType DEF Locks
<1>3. token \in [version : Nat, key : 0..keys] /\ token.version = lock.version /\ token.key = NoKey
    BY LockType DEF NoKey
<1> HIDE DEF token
<1>4. CodesUnused'
    BY <1>1 DEF CabinetInv, CodesUnused
<1>5. overrun' \/ LockHolds(FALSE)
  <2> SUFFICES ASSUME ~overrun' PROVE LockHolds(FALSE)
      OBVIOUS
  <2>1. ~overrun /\ LockInv /\ lock = visit[v].row
      BY <1>1 DEF CabinetInv
  <2>2. ~lock.set /\ lock'.key = NoKey
      BY <1>1, <1>2, <2>1 DEF LockInv
  <2> QED
      BY <1>2, <2>1, <2>2 DEF LockHolds
<1>6. TokensFit /\ VersionMoves(FALSE)
    BY <1>1, <1>2, <1>3, LockType DEF TokensFit, VersionMoves
<1>7. overrun' \in BOOLEAN /\ KeysGrow
    BY <1>1, <1>2, LockType DEF KeysGrow
<1> QED
    BY <1>1, <1>4, <1>5, <1>6, <1>7, LeavesHolds

LEMMA SignInEndsAtHolds == ASSUME CabinetInv, NEW v \in Visits, SignInEndsAt(v) PROVE CabinetInv'
<1> DEFINE row == visit[v].row
           token == [version |-> row.version, key |-> row.key]
<1>1. /\ opened' = opened \cup {token} /\ Leaves(v) /\ UNCHANGED <<lock, codes, keys, uses, overrun>>
      /\ visit[v].at = "signIn"
    BY DEF SignInEndsAt, GivesToken
<1>2. row \in Locks(keys) /\ row.version <= lock.version
    BY DEF CabinetInv, CabinetShapes
<1>3. token \in [version : Nat, key : 0..keys] /\ token.version <= lock.version
      /\ token.version = row.version /\ token.key = row.key
    BY <1>2 DEF Locks
<1>4. LockInv => (row.version = lock.version => row.key = lock.key)
    BY <1>1 DEF LockInv, ReadIsSo, VisitStages
<1> HIDE DEF token, row
<1>5. CodesUnused'
    BY <1>1 DEF CabinetInv, CodesUnused
<1>6. overrun' \/ LockHolds(FALSE)
    BY <1>1, <1>3, <1>4 DEF CabinetInv, LockInv, LockHolds
<1>7. TokensFit /\ VersionMoves(FALSE)
    BY <1>1, <1>3 DEF TokensFit, VersionMoves
<1>8. overrun' \in BOOLEAN /\ KeysGrow
    BY <1>1, LockType DEF CabinetInv, KeysGrow
<1> QED
    BY <1>1, <1>5, <1>6, <1>7, <1>8, LeavesHolds

\* A code that is found unused is used; one that is not is turned away.
LEMMA SpendsCodeHolds ==
    ASSUME CabinetInv, NEW v \in Visits, NEW next \in {"signIn", "disable"}, SpendsCode(v, next),
           visit[v].at \in {"signInByCode", "disableByCode"}
    PROVE  CabinetInv'
<1> DEFINE c == visit[v].code
<1>1. codes' = codes \ {c} /\ UNCHANGED <<lock, opened, keys, overrun>>
    BY DEF SpendsCode
<1>2. CASE c \in codes
  <2>1. /\ uses' = [uses EXCEPT ![c] = @ + 1]
        /\ visit' = [visit EXCEPT ![v].at = next, ![v].code = 0]
      BY <1>2 DEF SpendsCode, Accepted
  <2>2. c \in 1..Len(uses) /\ uses[c] = 0 /\ uses \in Seq({0, 1})
      BY <1>2 DEF CabinetInv, CodesUnused
  <2> HIDE DEF c
  <2>3. CodesUnused'
    <3>1. uses' = [uses EXCEPT ![c] = 1]
        BY <2>1, <2>2
    <3>2. uses' \in Seq({0, 1}) /\ Len(uses') = Len(uses)
        BY <2>2, <3>1
    <3>3. \A paper \in codes' : uses'[paper] = uses[paper]
        BY <1>1, <2>2, <3>1 DEF CabinetInv, CodesUnused
    <3> QED
        BY <1>1, <3>2, <3>3 DEF CabinetInv, CodesUnused
  <2> DEFINE request == [visit[v] EXCEPT !.at = next, !.code = 0]
  <2>4. visit' = [visit EXCEPT ![v] = request]
      BY <2>1 DEF CabinetInv, CabinetShapes
  <2>5. request \in [at : {next}, row : {visit[v].row}, code : {0}]
      BY DEF CabinetInv, CabinetShapes
  <2> HIDE DEF request
  <2>6. request.at = next /\ request.row = visit[v].row
        /\ request \in [at : VisitStages, row : Locks(keys), code : Nat]
      BY <2>5 DEF CabinetInv, CabinetShapes, VisitStages
  <2>7. \A w \in Visits : visit'[w] = IF w = v THEN request ELSE visit[w]
      BY <2>4 DEF CabinetInv, CabinetShapes
  <2>8. CabinetShapes'
      BY <1>1, <2>4, <2>6, <2>7 DEF CabinetInv, CabinetShapes
  <2>9. LockInv => LockInv'
      BY <1>1, <2>6, <2>7 DEF LockInv, ReadIsSo, TokensShown, VisitStages
  <2> QED
      BY <1>1, <2>3, <2>8, <2>9 DEF CabinetInv
<1>3. CASE c \notin codes
  <2>1. Leaves(v) /\ UNCHANGED uses
      BY <1>3 DEF SpendsCode, Accepted
  <2>2. CodesUnused'
      BY <1>1, <2>1 DEF CabinetInv, CodesUnused
  <2>3. TokensFit /\ VersionMoves(FALSE)
      BY <1>1 DEF TokensFit, VersionMoves
  <2>4. overrun' \/ LockHolds(FALSE)
      BY <1>1 DEF CabinetInv, LockInv, LockHolds
  <2>5. overrun' \in BOOLEAN /\ KeysGrow
      BY <1>1, LockType DEF CabinetInv, KeysGrow
  <2> QED
      BY <2>1, <2>2, <2>3, <2>4, <2>5, LeavesHolds
<1> QED
    BY <1>2, <1>3

LEMMA SetupCommitsHolds == ASSUME CabinetInv, NEW v \in Visits, SetupCommits(v) PROVE CabinetInv'
<1>1. Leaves(v) /\ UNCHANGED <<codes, opened, uses, overrun>>
    BY DEF SetupCommits
<1>2. /\ keys' \in Nat /\ keys <= keys' /\ lock' \in Locks(keys') /\ lock'.version = lock.version
      /\ lock'.key = lock.key /\ lock'.set = lock.set
  <2>1. CASE keys' = keys + 1 /\ lock' = [lock EXCEPT !.pending = keys + 1]
    <3>1. keys + 1 \in 0..(keys + 1) /\ 0..keys \subseteq 0..(keys + 1)
        BY LockType
    <3> QED
        BY <2>1, <3>1, LockType DEF Locks
  <2>2. CASE UNCHANGED <<keys, lock>>
      BY <2>2, LockType
  <2> QED
      BY <2>1, <2>2 DEF SetupCommits
<1>3. CodesUnused'
    BY <1>1 DEF CabinetInv, CodesUnused
<1>4. TokensFit /\ VersionMoves(FALSE)
    BY <1>1, <1>2 DEF TokensFit, VersionMoves
<1>5. overrun' \/ LockHolds(FALSE)
    BY <1>1, <1>2 DEF CabinetInv, LockInv, LockHolds
<1>6. overrun' \in BOOLEAN /\ KeysGrow
    BY <1>1, <1>2 DEF CabinetInv, KeysGrow
<1> QED
    BY <1>1, <1>2, <1>3, <1>4, <1>5, <1>6, LeavesHolds

LEMMA EnableCommitsHolds == ASSUME CabinetInv, NEW v \in Visits, EnableCommits(v) PROVE CabinetInv'
<1> DEFINE row == visit[v].row
           hung == [lock EXCEPT !.key = row.pending, !.pending = NoKey, !.version = Bumps(@)]
           token == [version |-> lock'.version, key |-> row.pending]
<1>1. /\ lock' = hung /\ uses' = Append(uses, 0) /\ codes' = {Len(uses')} /\ Leaves(v)
      /\ opened' = opened \cup {token} /\ UNCHANGED keys
      /\ overrun' = (overrun \/ lock.version # row.version) /\ visit[v].at = "enable"
    BY DEF EnableCommits, GivesToken
<1>2. row \in Locks(keys)
    BY DEF CabinetInv, CabinetShapes
<1>3. hung \in [set : {lock.set}, version : {lock.version + 1}, key : {row.pending}, pending : {NoKey}]
    BY LockType DEF Locks, Bumps
<1>4. LockInv => row.set /\ (row.version = lock.version => lock.set)
    BY <1>1 DEF LockInv, ReadIsSo, VisitStages
<1> HIDE DEF hung
<1>5. /\ lock' \in Locks(keys) /\ lock'.version = lock.version + 1 /\ lock'.key = row.pending
      /\ lock'.set = lock.set
    BY <1>1, <1>2, <1>3, LockType DEF Locks, NoKey
<1>6. token \in [version : Nat, key : 0..keys] /\ token.version = lock'.version /\ token.key = lock'.key
    BY <1>2, <1>5 DEF Locks
<1> HIDE DEF row, token
<1>7. CodesUnused'
  <2>1. uses \in Seq({0, 1})
      BY DEF CabinetInv, CodesUnused
  <2>2. uses' \in Seq({0, 1}) /\ Len(uses') = Len(uses) + 1 /\ uses'[Len(uses) + 1] = 0
      BY <1>1, <2>1
  <2>3. Len(uses) \in Nat
      BY <2>1
  <2> QED
      BY <1>1, <2>2, <2>3 DEF CodesUnused
<1>8. TokensFit /\ VersionMoves(TRUE)
    BY <1>1, <1>5, <1>6 DEF TokensFit, VersionMoves
<1>9. overrun' \/ LockHolds(TRUE)
    BY <1>1, <1>4, <1>5, <1>6 DEF CabinetInv, LockHolds
<1>10. overrun' \in BOOLEAN /\ KeysGrow
    BY <1>1, <1>5, LockType DEF KeysGrow
<1> QED
    BY <1>1, <1>5, <1>7, <1>8, <1>9, <1>10, LeavesHolds

LEMMA DisableCommitsHolds == ASSUME CabinetInv, NEW v \in Visits, DisableCommits(v) PROVE CabinetInv'
<1> DEFINE bare == [lock EXCEPT !.key = NoKey, !.pending = NoKey, !.version = Bumps(@)]
           token == [version |-> lock'.version, key |-> NoKey]
<1>1. /\ lock' = bare /\ codes' = {} /\ Leaves(v) /\ opened' = opened \cup {token}
      /\ UNCHANGED <<keys, uses, overrun>>
    BY DEF DisableCommits, GivesToken
<1>2. bare \in [set : {lock.set}, version : {lock.version + 1}, key : {NoKey}, pending : {NoKey}]
    BY LockType DEF Locks, Bumps
<1> HIDE DEF bare
<1>3. /\ lock' \in Locks(keys) /\ lock'.version = lock.version + 1 /\ lock'.key = NoKey
    BY <1>1, <1>2, LockType DEF Locks, NoKey
<1>4. token \in [version : Nat, key : 0..keys] /\ token.version = lock'.version
    BY <1>3, LockType DEF Locks, NoKey
<1> HIDE DEF token
<1>5. CodesUnused'
    BY <1>1 DEF CabinetInv, CodesUnused
<1>6. TokensFit /\ VersionMoves(TRUE)
    BY <1>1, <1>3, <1>4 DEF TokensFit, VersionMoves
<1>7. overrun' \/ LockHolds(TRUE)
    BY <1>1, <1>3 DEF CabinetInv, LockHolds
<1>8. overrun' \in BOOLEAN /\ KeysGrow
    BY <1>1, <1>3, LockType DEF CabinetInv, KeysGrow
<1> QED
    BY <1>1, <1>3, <1>5, <1>6, <1>7, <1>8, LeavesHolds

LEMMA ResetsHolds == ASSUME CabinetInv, NEW v \in Visits, Resets(v) PROVE CabinetInv'
<1>1. /\ lock' = [set |-> FALSE, version |-> Bumps(lock.version), key |-> NoKey, pending |-> NoKey]
      /\ Leaves(v) /\ UNCHANGED <<codes, opened, keys, uses, overrun>>
    BY DEF Resets
<1>2. /\ lock' \in Locks(keys) /\ lock'.version = lock.version + 1 /\ lock'.key = NoKey
    BY <1>1, LockType DEF Locks, NoKey, Bumps
<1>3. CodesUnused'
    BY <1>1 DEF CabinetInv, CodesUnused
<1>4. TokensFit /\ VersionMoves(TRUE)
    BY <1>1, <1>2 DEF TokensFit, VersionMoves
<1>5. overrun' \/ LockHolds(TRUE)
    BY <1>1, <1>2 DEF CabinetInv, LockHolds
<1>6. overrun' \in BOOLEAN /\ KeysGrow
    BY <1>1, <1>2, LockType DEF CabinetInv, KeysGrow
<1> QED
    BY <1>1, <1>2, <1>3, <1>4, <1>5, <1>6, LeavesHolds

\* Between the two statements of a reset nothing is known of what was read.
LEMMA ResetBeginsHolds == ASSUME CabinetInv, NEW v \in Visits, ResetBegins(v) PROVE CabinetInv'
<1> DEFINE request == [visit[v] EXCEPT !.at = "reset"]
<1>1. /\ visit' = [visit EXCEPT ![v] = request] /\ codes' = {}
      /\ UNCHANGED <<lock, opened, keys, uses, overrun>>
    BY DEF ResetBegins, CabinetInv, CabinetShapes
<1>2. request \in [at : {"reset"}, row : {visit[v].row}, code : {visit[v].code}]
    BY DEF CabinetInv, CabinetShapes
<1> HIDE DEF request
<1>3. request.at = "reset" /\ request.row = visit[v].row
      /\ request \in [at : VisitStages, row : Locks(keys), code : Nat]
    BY <1>2 DEF CabinetInv, CabinetShapes, VisitStages
<1>4. \A w \in Visits : visit'[w] = IF w = v THEN request ELSE visit[w]
    BY <1>1 DEF CabinetInv, CabinetShapes
<1>5. CabinetShapes'
    BY <1>1, <1>3, <1>4 DEF CabinetInv, CabinetShapes
<1>6. CodesUnused'
    BY <1>1 DEF CabinetInv, CodesUnused
<1>7. LockInv => LockInv'
    BY <1>1, <1>3, <1>4 DEF LockInv, ReadIsSo, TokensShown
<1> QED
    BY <1>1, <1>5, <1>6, <1>7 DEF CabinetInv

LEMMA CabinetStepHolds == CabinetInv /\ [CabinetNext]_cabinetVars => CabinetInv'
<1> SUFFICES ASSUME CabinetInv, [CabinetNext]_cabinetVars PROVE CabinetInv'
    OBVIOUS
<1>1. CASE UNCHANGED cabinetVars
    BY <1>1 DEF cabinetVars, CabinetInv, CabinetShapes, CodesUnused, LockInv, ReadIsSo, TokensShown
<1>2. ASSUME NEW v \in Visits, PasswordReads(v) \/ SetupReads(v) \/ EnableReads(v) PROVE CabinetInv'
  <2>1. \E at \in VisitStages : /\ Comes(v, at, 0) /\ (at = "enable" => lock.set)
                                /\ (at = "password" => ~lock.set)
      BY <1>2 DEF PasswordReads, SetupReads, EnableReads, LetIn, VisitStages
  <2> QED
      BY <2>1, ComesHolds
<1>3. ASSUME NEW v \in Visits, SignInReadsLock(v) \/ DisableReads(v) PROVE CabinetInv'
  <2>1. codes \subseteq Nat
      BY DEF CabinetInv, CodesUnused
  <2>2. \E at \in VisitStages \ {"enable", "password"}, code \in Nat : Comes(v, at, code)
      BY <1>3, <2>1 DEF SignInReadsLock, DisableReads, VisitStages
  <2> QED
      BY <2>2, ComesHolds
<1>4. ASSUME NEW v \in Visits, SpendsRecoveryCode(v) PROVE CabinetInv'
    BY <1>4, SpendsCodeHolds DEF SpendsRecoveryCode
<1>5. CASE CabinetNext
    BY <1>2, <1>3, <1>4, <1>5, PasswordCommitsHolds, SignInEndsAtHolds, SetupCommitsHolds,
       EnableCommitsHolds, DisableCommitsHolds, ResetBeginsHolds, ResetsHolds DEF CabinetNext
<1> QED
    BY <1>1, <1>5

LEMMA CabinetAlwaysHolds == CabinetSpec => []CabinetInv
    BY CabinetInitHolds, CabinetStepHolds, PTL DEF CabinetSpec

-----------------------------------------------------------------------------
\* The row, the codes and the tokens stay what the database can hold.
THEOREM CabinetTypes == CabinetSpec => []CabinetTypeOK
<1>1. CabinetInv => CabinetTypeOK
    BY DEF CabinetInv, CabinetShapes, CodesUnused, CabinetTypeOK, Locks
<1> QED
    BY <1>1, CabinetAlwaysHolds, PTL

\* Nobody is served past a second factor they have not shown, whoever changes the
\* lock beside them (routes/cabinet.ts, enable), unless a first visit or an
\* enrolment was written over a lock that had changed.
THEOREM FactorAlwaysShown == CabinetSpec => []FactorWasShown
<1>1. CabinetInv => FactorWasShown
    BY DEF CabinetInv, LockInv, TokensShown, FactorWasShown, LetIn
<1> QED
    BY <1>1, CabinetAlwaysHolds, PTL

\* A code on paper opens once, also when it is typed twice at a time
\* (spendRecoveryCode).
THEOREM CodesAlwaysOpenOnce == CabinetSpec => []CodesOpenOnce
<1>1. CabinetInv => CodesOpenOnce
    BY DEF CabinetInv, CodesUnused, CodesOpenOnce
<1> QED
    BY <1>1, CabinetAlwaysHolds, PTL

-----------------------------------------------------------------------------
(***************************************************************************)
(* Staff.  The index on posPin tells a fingerprint only from a fingerprint *)
(* and an old PIN only from an old PIN.  What keeps the two apart is that  *)
(* an old PIN is nowhere written but by a late write that puts it back, so *)
(* that a PIN which was free of old ones when it was asked for still is.   *)
(***************************************************************************)

StaffRoles == {"owner", "cashier"}
PinsKept == {NoPin} \cup [code : Pins, form : {"plain", "print"}]
StaffStages == {"none", "login", "create", "update", "ownerPin"}

RowFits(row) ==
    /\ row \in [role : StaffRoles \cup {"none"}, pin : PinsKept, version : Nat]
    /\ row.role = "none" => row.pin = NoPin /\ row.version = 0

RequestShape ==
    [at : StaffStages, who : People \cup {0}, role : StaffRoles \cup {"none"}, pin : PinsKept,
     version : Nat, owners : SUBSET People, was : PinsKept,
     wasRole : StaffRoles \cup {"none"}]

\* Nobody else has the PIN as it used to be kept.
NoOldOne(r) ==
    r.pin # NoPin /\ r.who \notin restored =>
        \A q \in (Hired \ restored) \ {r.who} : person[q].pin # Plain(r.pin.code)

\* What a request was allowed to write when it was read.
WasAllowed(r) ==
    /\ r.at \in {"create", "update"} => r.role \in StaffRoles
    /\ r.at \in {"create", "none"} <=> r.who = 0
    /\ r.at = "login" => r.pin # NoPin /\ r.pin = r.was
    /\ r.pin.form = "plain" /\ r.at # "login" => r.at = "update" /\ r.pin = r.was
    /\ r.at = "update" /\ r.role # "owner" /\ r.who \in r.owners =>
          \E q \in r.owners : q # r.who

RequestFits(r) ==
    /\ r \in RequestShape /\ WasAllowed(r) /\ NoOldOne(r)
    /\ r.who # 0 => person[r.who].role # "none"
    /\ r.at = "login" => r.version <= person[r.who].version

StaffShapes ==
    /\ person = [p \in People |-> person[p]] /\ \A p \in People : RowFits(person[p])
    /\ desk = [d \in Desks |-> desk[d]] /\ restored \subseteq People /\ crossed \in BOOLEAN
    /\ \A s \in sessions : s \in [who : People, version : Nat] /\ s.version <= person[s.who].version

StaffInv ==
    /\ StaffShapes /\ PinsOpenOneDoor /\ OwnerRemains
    /\ \A d \in Desks : RequestFits(desk[d])

LEMMA PinFacts ==
    /\ NoPin \in PinsKept /\ NoPin.code = 0 /\ NoPin.form = "none" /\ 0 \notin Pins
    /\ \A k \in Pins : /\ Plain(k) \in PinsKept /\ Fingerprint(k) \in PinsKept
                       /\ Plain(k) # NoPin /\ Fingerprint(k) # NoPin
                       /\ Fingerprint(k).form = "print" /\ Fingerprint(k).code = k
                       /\ Plain(k).form = "plain" /\ Plain(k).code = k
    /\ \A pin \in PinsKept : pin = NoPin \/ (pin.code \in Pins /\ pin.code # 0
                                    /\ (pin = Plain(pin.code) \/ pin = Fingerprint(pin.code)))
<1>1. \A pin \in [code : Pins, form : {"plain", "print"}] :
          pin = Plain(pin.code) \/ pin = Fingerprint(pin.code)
    BY DEF Plain, Fingerprint
<1>2. 0 \notin Pins
    BY StaffAssumption
<1> QED
    BY <1>1, <1>2 DEF NoPin, PinsKept, Plain, Fingerprint

LEMMA StaffInitHolds == StaffInit => StaffInv
<1> SUFFICES ASSUME StaffInit PROVE StaffInv
    OBVIOUS
<1>1. PICK form \in [FirstOwners -> {"plain", "print"}] :
          person = [p \in People |->
                IF p \in FirstOwners
                THEN [role |-> "owner", pin |-> [code |-> p, form |-> form[p]], version |-> 0]
                ELSE [role |-> "none", pin |-> NoPin, version |-> 0]]
    BY DEF StaffInit
<1>2. \A p \in People : RowFits(person[p])
  <2>1. ASSUME NEW p \in FirstOwners
        PROVE  [role |-> "owner", pin |-> [code |-> p, form |-> form[p]], version |-> 0] \in
                   [role : StaffRoles \cup {"none"}, pin : PinsKept, version : Nat]
      BY StaffAssumption DEF StaffRoles, PinsKept
  <2>2. [role |-> "none", pin |-> NoPin, version |-> 0] \in
            [role : StaffRoles \cup {"none"}, pin : PinsKept, version : Nat]
      BY PinFacts DEF StaffRoles
  <2> QED
      BY <1>1, <2>1, <2>2 DEF RowFits
<1>3. \A p \in People : person[p].role # "none" => p \in FirstOwners /\ person[p].pin.code = p
    BY <1>1
<1>4. PinsOpenOneDoor
    BY <1>3 DEF PinsOpenOneDoor, Hired
<1>5. OwnerRemains
    BY <1>1, StaffAssumption DEF OwnerRemains, Owners
<1>6. RequestFits(NoRequest)
  <2>1. NoRequest \in RequestShape
      BY PinFacts DEF NoRequest, RequestShape, StaffStages
  <2> QED
      BY <2>1 DEF NoRequest, RequestFits, WasAllowed, NoOldOne, NoPin
<1>7. StaffShapes /\ \A d \in Desks : desk[d] = NoRequest
    BY <1>1, <1>2 DEF StaffInit, StaffShapes
<1> QED
    BY <1>4, <1>5, <1>6, <1>7 DEF StaffInv

-----------------------------------------------------------------------------
\* A step that is mild to what others have read: nobody leaves, versions grow, and
\* an old PIN is new in a row only where it was put back.
Mild ==
    /\ restored \subseteq restored'
    /\ \A p \in People :
          /\ person[p].role # "none" => person'[p].role # "none"
          /\ person[p].version <= person'[p].version /\ person'[p].version \in Nat
          /\ person'[p].pin.form = "plain" =>
                p \in restored' \/ (person'[p].pin = person[p].pin /\ person[p].role # "none")

LEMMA MildKeeps ==
    ASSUME StaffShapes, Mild, NEW r, RequestFits(r)
    PROVE  RequestFits(r)'
<1>1. r \in RequestShape /\ WasAllowed(r)
    BY DEF RequestFits
<1>2. r.who \in People \cup {0} /\ r.version \in Nat /\ r.pin \in PinsKept
    BY <1>1 DEF RequestShape
<1>3. r.at = "login" => r.who # 0
    BY <1>1 DEF WasAllowed
<1>4. r.who # 0 => person'[r.who].role # "none"
    BY <1>2 DEF RequestFits, Mild
<1>5. r.at = "login" => r.version <= person'[r.who].version
  <2> SUFFICES ASSUME r.at = "login" PROVE r.version <= person'[r.who].version
      OBVIOUS
  <2>1. r.who \in People /\ r.version <= person[r.who].version
      BY <1>2, <1>3 DEF RequestFits
  <2>2. person[r.who].version \in Nat /\ person'[r.who].version \in Nat
        /\ person[r.who].version <= person'[r.who].version
      BY <2>1 DEF Mild, StaffShapes, RowFits
  <2> QED
      BY <1>2, <2>1, <2>2
<1>6. NoOldOne(r)'
  <2> SUFFICES ASSUME r.pin # NoPin, r.who \notin restored',
                      NEW q \in People, person'[q].role # "none", q \notin restored', q # r.who,
                      person'[q].pin = Plain(r.pin.code)
               PROVE  FALSE
      BY DEF NoOldOne, Hired
  <2>1. Plain(r.pin.code).form = "plain"
      BY DEF Plain
  <2>2. person'[q].pin = person[q].pin /\ person[q].role # "none"
      BY <2>1 DEF Mild
  <2>3. q \in (Hired \ restored) \ {r.who} /\ r.who \notin restored
      BY <2>2 DEF Mild, Hired
  <2> QED
      BY <2>2, <2>3 DEF RequestFits, NoOldOne
<1> QED
    BY <1>1, <1>4, <1>5, <1>6 DEF RequestFits

\* Of what the desks hold afterwards, each was allowed before.
LEMMA RequestsKeep ==
    ASSUME StaffInv, Mild, NEW d \in Desks, NEW r, RequestFits(r),
           \A e \in Desks : desk'[e] = IF e = d THEN r ELSE desk[e]
    PROVE  (\A e \in Desks : RequestFits(desk[e]))'
<1> SUFFICES ASSUME NEW e \in Desks PROVE RequestFits(desk[e])'
    OBVIOUS
<1>1. PICK s : s = IF e = d THEN r ELSE desk[e]
    OBVIOUS
<1>2. RequestFits(s)
    BY <1>1 DEF StaffInv
<1>3. RequestFits(s)' /\ desk'[e] = s
    BY <1>1, <1>2, MildKeeps DEF StaffInv
<1> QED
    BY <1>3 DEF RequestFits, WasAllowed, NoOldOne, Hired

\* A request that is begun; nothing else is written.
LEMMA BeginsHolds ==
    ASSUME StaffInv, NEW d \in Desks, NEW r, UNCHANGED <<person, sessions, crossed, restored>>,
           desk' = [desk EXCEPT ![d] = r], RequestFits(r)
    PROVE  StaffInv'
<1>1. Mild
  <2>1. NoPin.form = "none"
      BY DEF NoPin
  <2>2. \A p \in People : /\ person[p].version \in Nat
                          /\ person[p].pin.form = "plain" => person[p].role # "none"
      BY <2>1 DEF StaffInv, StaffShapes, RowFits
  <2> QED
      BY <2>2 DEF Mild
<1>2. \A e \in Desks : desk'[e] = IF e = d THEN r ELSE desk[e]
    BY DEF StaffInv, StaffShapes
<1>3. (\A e \in Desks : RequestFits(desk[e]))'
    BY <1>1, <1>2, RequestsKeep DEF StaffInv
<1>4. Hired' = Hired /\ Owners' = Owners
    BY DEF Hired, Owners
<1>5. StaffShapes'
    BY <1>2 DEF StaffInv, StaffShapes, RowFits
<1>6. PinsOpenOneDoor' /\ OwnerRemains'
    BY <1>4 DEF StaffInv, PinsOpenOneDoor, OwnerRemains
<1> QED
    BY <1>3, <1>5, <1>6 DEF StaffInv

\* Somebody is turned away or done with.
LEMMA NoRequestShaped == NoRequest \in RequestShape
    BY PinFacts DEF NoRequest, RequestShape, StaffStages

LEMMA NoRequestFits == RequestFits(NoRequest)
    BY NoRequestShaped DEF NoRequest, RequestFits, WasAllowed, NoOldOne, NoPin

\* A PIN that was free of old ones and that the index lets in is nobody else's.
LEMMA FreePin ==
    ASSUME StaffInv, NEW d \in Desks, desk[d].pin # NoPin, desk[d].who \notin restored,
           Unique(desk[d].who, Fingerprint(desk[d].pin.code)),
           NEW q \in Hired \ restored, q # desk[d].who
    PROVE  person[q].pin.code # desk[d].pin.code
<1> DEFINE pin == desk[d].pin
<1>1. pin \in PinsKept /\ RequestFits(desk[d])
    BY DEF StaffInv, RequestFits, RequestShape
<1>2. pin.code \in Pins /\ Fingerprint(pin.code) # NoPin
    BY <1>1, PinFacts
<1>3. person[q].pin # Fingerprint(pin.code)
    BY <1>2 DEF Unique
<1>4. person[q].pin # Plain(pin.code)
    BY <1>1 DEF RequestFits, NoOldOne
<1>5. person[q].pin \in PinsKept
    BY DEF StaffInv, StaffShapes, RowFits, Hired
<1> QED
    BY <1>2, <1>3, <1>4, <1>5, PinFacts

\* A row that is written from a request, with the request's PIN as it was asked
\* for or as a fingerprint.
Writable(d, p, row) ==
    /\ RowFits(row) /\ row.role # "none" /\ person[p].version <= row.version
    /\ desk[d].who = p \/ (desk[d].who = 0 /\ person[p].role = "none")
    /\ row.pin # NoPin => row.pin.code = desk[d].pin.code
    /\ row.pin.form = "plain" => row.pin = desk[d].was /\ person[p].role # "none"

RowWritten(d, p, row) ==
    /\ person' = [person EXCEPT ![p] = row] /\ desk' = [desk EXCEPT ![d] = NoRequest]
    /\ restored \subseteq restored' /\ restored' \subseteq restored \cup {p} /\ crossed' \in BOOLEAN
    /\ row.pin # person[p].pin /\ row.pin.form = "plain" => p \in restored'

LEMMA WrittenHolds ==
    ASSUME StaffInv, NEW d \in Desks, NEW p \in People, NEW row, Writable(d, p, row),
           RowWritten(d, p, row), OwnerRemains',
           \A s \in sessions' : s \in sessions \/
               (s \in [who : People, version : Nat] /\ s.version <= person[s.who].version),
           p \in restored' \/ (row.pin = person[p].pin /\ person[p].role # "none")
              \/ \A q \in Hired \ restored : q # p /\ row.pin # NoPin => person[q].pin.code # row.pin.code
    PROVE  StaffInv'
<1>1. \A q \in People : person'[q] = IF q = p THEN row ELSE person[q]
    BY DEF RowWritten, StaffInv, StaffShapes
<1>2. RowFits(row) /\ row.version \in Nat /\ person[p].version \in Nat /\ person[p].version <= row.version
    BY DEF Writable, RowFits, StaffInv, StaffShapes
<1>3. NoPin.form = "none" /\ NoPin.code = 0 /\ 0 \notin Pins
    BY PinFacts
<1>4. Mild
  <2> SUFFICES ASSUME NEW q \in People
               PROVE  /\ person[q].role # "none" => person'[q].role # "none"
                      /\ person[q].version <= person'[q].version /\ person'[q].version \in Nat
                      /\ person'[q].pin.form = "plain" =>
                            q \in restored' \/ (person'[q].pin = person[q].pin /\ person[q].role # "none")
      BY DEF Mild, RowWritten
  <2>1. CASE q = p
      BY <1>1, <1>2, <2>1 DEF Writable, RowWritten
  <2>2. CASE q # p
      BY <1>1, <1>3, <2>2 DEF StaffInv, StaffShapes, RowFits
  <2> QED
      BY <2>1, <2>2
<1>5. \A e \in Desks : desk'[e] = IF e = d THEN NoRequest ELSE desk[e]
    BY DEF RowWritten, StaffInv, StaffShapes
<1>6. (\A e \in Desks : RequestFits(desk[e]))'
    BY <1>4, <1>5, NoRequestFits, RequestsKeep
<1>7. StaffShapes'
  <2>1. person' = [q \in People |-> person'[q]] /\ \A q \in People : RowFits(person'[q])
      BY <1>1, <1>2 DEF RowWritten, StaffInv, StaffShapes
  <2>2. desk' = [e \in Desks |-> desk'[e]] /\ restored' \subseteq People /\ crossed' \in BOOLEAN
      BY DEF RowWritten, StaffInv, StaffShapes
  <2>3. \A s \in sessions' : s \in [who : People, version : Nat] /\ s.version <= person'[s.who].version
    <3> SUFFICES ASSUME NEW s \in sessions'
                 PROVE  s \in [who : People, version : Nat] /\ s.version <= person'[s.who].version
        OBVIOUS
    <3>1. s \in [who : People, version : Nat] /\ s.version <= person[s.who].version
        BY DEF StaffInv, StaffShapes
    <3>2. s.who \in People /\ s.version \in Nat
        BY <3>1
    <3>3. person[s.who].version \in Nat
        BY <3>2 DEF StaffInv, StaffShapes, RowFits
    <3>4. person'[s.who].version \in Nat /\ person[s.who].version <= person'[s.who].version
        BY <1>4, <3>2 DEF Mild
    <3> QED
        BY <3>1, <3>2, <3>3, <3>4
  <2> QED
      BY <2>1, <2>2, <2>3 DEF StaffShapes, RowFits
<1>8. PinsOpenOneDoor'
  <2> SUFFICES ASSUME NEW a \in People, person'[a].role # "none", a \notin restored',
                      NEW b \in People, person'[b].role # "none", b \notin restored',
                      a # b, person'[a].pin # NoPin
               PROVE  person'[a].pin.code # person'[b].pin.code
      BY DEF PinsOpenOneDoor, Hired
  <2>1. a \notin restored /\ b \notin restored
      BY DEF RowWritten
  <2>2. person'[a].pin.code \in Pins
    <3>1. person'[a].pin \in PinsKept
        BY <1>7 DEF StaffShapes, RowFits
    <3> QED
        BY <3>1, PinFacts
  <2>3. ASSUME NEW q \in Hired \ restored, q # p, p \notin restored', row.pin # NoPin,
               person[q].pin # NoPin
        PROVE  row.pin.code # person[q].pin.code
    <3>1. CASE row.pin = person[p].pin /\ person[p].role # "none"
      <4>1. p \in Hired \ restored
          BY <2>3, <3>1 DEF Hired, RowWritten
      <4> QED
          BY <2>3, <3>1, <4>1 DEF StaffInv, PinsOpenOneDoor
    <3>2. CASE \A r \in Hired \ restored : r # p /\ row.pin # NoPin => person[r].pin.code # row.pin.code
        BY <2>3, <3>2
    <3> QED
        BY <2>3, <3>1, <3>2
  <2>4. CASE a = p
    <3>1. person'[b] = person[b] /\ person'[a] = row /\ b \in Hired \ restored
        BY <1>1, <2>1, <2>4 DEF Hired
    <3>2. CASE person[b].pin = NoPin
        BY <1>3, <2>2, <3>1, <3>2
    <3>3. CASE person[b].pin # NoPin
        BY <2>3, <2>4, <3>1, <3>3
    <3> QED
        BY <3>2, <3>3
  <2>5. CASE b = p
    <3>1. person'[a] = person[a] /\ person'[b] = row /\ a \in Hired \ restored
        BY <1>1, <2>1, <2>5 DEF Hired
    <3>2. CASE row.pin = NoPin
        BY <1>3, <2>2, <3>1, <3>2
    <3>3. CASE row.pin # NoPin
        BY <2>3, <2>5, <3>1, <3>3
    <3> QED
        BY <3>2, <3>3
  <2>6. CASE a # p /\ b # p
      BY <1>1, <2>1, <2>6 DEF StaffInv, PinsOpenOneDoor, Hired
  <2> QED
      BY <2>4, <2>5, <2>6
<1> QED
    BY <1>6, <1>7, <1>8 DEF StaffInv

-----------------------------------------------------------------------------
\* What a request may ask for.
Askable(r) ==
    /\ r \in RequestShape /\ NoOldOne(r)
    /\ r.at \in {"create", "update"} => r.role \in StaffRoles
    /\ r.at \in {"create", "none"} <=> r.who = 0
    /\ r.at = "login" => r.pin # NoPin /\ r.pin = person[r.who].pin /\ r.version <= person[r.who].version
    /\ r.pin.form = "plain" /\ r.at # "login" => r.at = "update" /\ r.pin = person[r.who].pin
    /\ r.at = "update" /\ r.role # "owner" /\ r.who \in Owners => \E q \in Owners : q # r.who
    /\ r.who # 0 => person[r.who].role # "none"

LEMMA AskedHolds ==
    ASSUME StaffInv, NEW d \in Desks, NEW r, Askable(r), Begins(d, r)
    PROVE  StaffInv'
<1> DEFINE was == IF r.who = 0 THEN NoPin ELSE person[r.who].pin
           wasRole == IF r.who = 0 THEN "none" ELSE person[r.who].role
<1>1. r \in RequestShape
    BY DEF Askable
<1>2. was \in PinsKept /\ (r.who # 0 => was = person[r.who].pin) /\ wasRole \in StaffRoles \cup {"none"}
  <2>1. r.who \in People \cup {0}
      BY <1>1 DEF RequestShape
  <2> QED
      BY <2>1, PinFacts DEF StaffInv, StaffShapes, RowFits
<1>3. PICK w : w = was
    OBVIOUS
<1>4. PICK o, x : o = Owners /\ x = wasRole
    OBVIOUS
<1>5. desk' = [desk EXCEPT ![d] = [r EXCEPT !.owners = o, !.was = w, !.wasRole = x]]
    BY <1>3, <1>4 DEF Begins
<1>6. PICK t : t = [r EXCEPT !.owners = o, !.was = w, !.wasRole = x]
    OBVIOUS
<1>7. /\ t.at = r.at /\ t.who = r.who /\ t.role = r.role /\ t.pin = r.pin
      /\ t.version = r.version /\ t.owners = o /\ t.was = w /\ t \in RequestShape
  <2>1. o \subseteq People /\ w \in PinsKept /\ x \in StaffRoles \cup {"none"}
      BY <1>2, <1>3, <1>4 DEF Owners
  <2> QED
      BY <1>1, <1>6, <2>1 DEF RequestShape
<1>8. WasAllowed(t)
    BY <1>2, <1>3, <1>4, <1>7 DEF Askable, WasAllowed
<1>9. RequestFits(t)
    BY <1>7, <1>8 DEF Askable, RequestFits, NoOldOne
<1>10. desk' = [desk EXCEPT ![d] = t] /\ UNCHANGED <<person, sessions, crossed, restored>>
    BY <1>5, <1>6 DEF Begins
<1> QED
    BY <1>9, <1>10, BeginsHolds

\* The PIN somebody has already is nobody else's old one.
LEMMA OwnPin ==
    ASSUME StaffInv, NEW p \in Hired, NEW r, r.who = p, r.pin = person[p].pin
    PROVE  NoOldOne(r)
<1> SUFFICES ASSUME r.pin # NoPin, p \notin restored, NEW q \in Hired \ restored, q # p,
                    person[q].pin = Plain(r.pin.code)
             PROVE  FALSE
    BY DEF NoOldOne
<1>1. person[q].pin.code = person[p].pin.code
    BY DEF Plain
<1> QED
    BY <1>1 DEF StaffInv, PinsOpenOneDoor

\* A PIN that is not taken is nobody else's old one.
LEMMA FreshPin ==
    ASSUME NEW k, NEW r, r.pin = Fingerprint(k), ~PinTaken(k, r.who)
    PROVE  NoOldOne(r)
<1>1. r.pin.code = k
    BY DEF Fingerprint
<1> QED
    BY <1>1 DEF NoOldOne, PinTaken

LEMMA LoginReadsHold ==
    ASSUME StaffInv, NEW d \in Desks, NEW k \in Pins, LoginReads(d, k)
    PROVE  StaffInv'
<1>1. PICK p \in Hired :
        /\ \/ person[p].pin = Fingerprint(k)
           \/ person[p].pin = Plain(k) /\ \A q \in Hired : person[q].pin # Fingerprint(k)
        /\ Begins(d, [NoRequest EXCEPT !.at = "login", !.who = p, !.pin = person[p].pin,
                                       !.version = person[p].version])
    BY DEF LoginReads
<1>2. p \in People /\ RowFits(person[p]) /\ person[p].role # "none"
    BY DEF Hired, StaffInv, StaffShapes
<1>3. PICK r : r = [NoRequest EXCEPT !.at = "login", !.who = p, !.pin = person[p].pin,
                                     !.version = person[p].version]
    OBVIOUS
<1>4. r \in [at : {"login"}, who : {p}, role : {"none"}, pin : {person[p].pin},
             version : {person[p].version}, owners : {{}}, was : {NoPin}, wasRole : {"none"}]
    BY <1>3 DEF NoRequest
<1>5. /\ r.at = "login" /\ r.who = p /\ r.role = "none" /\ r.pin = person[p].pin
      /\ r.version = person[p].version
    BY <1>4
<1>6. r \in RequestShape
    BY <1>2, <1>3, NoRequestShaped DEF RequestShape, RowFits, StaffStages
<1>7. NoOldOne(r)
    BY <1>5, OwnPin
<1>8. r.pin # NoPin
    BY <1>1, <1>5, PinFacts
<1>9. p # 0 /\ r.version <= person[r.who].version
    BY <1>2, <1>5, StaffAssumption DEF RowFits
<1>10. Askable(r)
    BY <1>2, <1>5, <1>6, <1>7, <1>8, <1>9 DEF Askable
<1> QED
    BY <1>1, <1>3, <1>10, AskedHolds

LEMMA OwnerPinReadsHold ==
    ASSUME StaffInv, NEW d \in Desks, NEW k \in Pins, OwnerPinReads(d, k)
    PROVE  StaffInv'
<1>1. PICK p \in Owners :
        /\ ~PinTaken(k, p)
        /\ Begins(d, [NoRequest EXCEPT !.at = "ownerPin", !.who = p, !.pin = Fingerprint(k)])
    BY DEF OwnerPinReads
<1>2. p \in People /\ person[p].role # "none" /\ p # 0
    BY StaffAssumption DEF Owners
<1>3. PICK r : r = [NoRequest EXCEPT !.at = "ownerPin", !.who = p, !.pin = Fingerprint(k)]
    OBVIOUS
<1>4. r \in [at : {"ownerPin"}, who : {p}, role : {"none"}, pin : {Fingerprint(k)},
             version : {0}, owners : {{}}, was : {NoPin}, wasRole : {"none"}]
    BY <1>3 DEF NoRequest
<1>5. r.at = "ownerPin" /\ r.who = p /\ r.role = "none" /\ r.pin = Fingerprint(k)
    BY <1>4
<1>6. r \in RequestShape
    BY <1>2, <1>3, PinFacts, NoRequestShaped DEF RequestShape, StaffStages
<1>7. NoOldOne(r)
    BY <1>1, <1>5, FreshPin
<1>8. r.pin.form = "print"
    BY <1>5, PinFacts
<1>9. Askable(r)
    BY <1>2, <1>5, <1>6, <1>7, <1>8 DEF Askable
<1> QED
    BY <1>1, <1>3, <1>9, AskedHolds

LEMMA CreateReadsHold ==
    ASSUME StaffInv, NEW d \in Desks, NEW role \in StaffRoles, NEW k \in Pins \cup {0},
           CreateReads(d, role, k)
    PROVE  StaffInv'
<1>1. PICK pin : pin = IF k = 0 THEN NoPin ELSE Fingerprint(k)
    OBVIOUS
<1>2. PICK r : r = [NoRequest EXCEPT !.at = "create", !.role = role, !.pin = pin]
    OBVIOUS
<1>3. Begins(d, r) /\ (k \in Pins => ~PinTaken(k, 0))
    BY <1>1, <1>2 DEF CreateReads
<1>4. r \in [at : {"create"}, who : {0}, role : {role}, pin : {pin},
             version : {0}, owners : {{}}, was : {NoPin}, wasRole : {"none"}]
    BY <1>2 DEF NoRequest
<1>5. r.at = "create" /\ r.who = 0 /\ r.role = role /\ r.pin = pin
    BY <1>4
<1>6. pin \in PinsKept /\ pin.form # "plain"
    BY <1>1, PinFacts
<1>7. r \in RequestShape
    BY <1>2, <1>6, NoRequestShaped DEF RequestShape, StaffStages
<1>8. NoOldOne(r)
  <2>1. CASE k = 0
      BY <1>1, <1>5, <2>1 DEF NoOldOne
  <2>2. CASE k # 0
      BY <1>1, <1>3, <1>5, <2>2, FreshPin
  <2> QED
      BY <2>1, <2>2
<1>9. Askable(r)
    BY <1>5, <1>6, <1>7, <1>8 DEF Askable
<1> QED
    BY <1>3, <1>9, AskedHolds

LEMMA UpdateReadsHold ==
    ASSUME StaffInv, NEW d \in Desks, NEW p \in Hired, NEW role \in StaffRoles,
           NEW k \in Pins \cup {-1, 0}, UpdateReads(d, p, role, k)
    PROVE  StaffInv'
<1>1. PICK pin : pin = NextPin(p, k)
    OBVIOUS
<1>3. PICK r : r = [NoRequest EXCEPT !.at = "update", !.who = p, !.role = role, !.pin = pin]
    OBVIOUS
<1>4. Begins(d, r) /\ LastOwner(p, role)
      /\ (k \in Pins /\ person[p].pin # Fingerprint(k) => ~PinTaken(k, p))
  <2>1. Begins(d, [NoRequest EXCEPT !.at = "update", !.who = p, !.role = role, !.pin = NextPin(p, k)])
      BY DEF UpdateReads
  <2> QED
      BY <1>1, <1>3, <2>1 DEF UpdateReads
<1>5. p \in People /\ RowFits(person[p]) /\ person[p].role # "none" /\ p # 0
    BY StaffAssumption DEF Hired, StaffInv, StaffShapes
<1>6. r \in [at : {"update"}, who : {p}, role : {role}, pin : {pin},
             version : {0}, owners : {{}}, was : {NoPin}, wasRole : {"none"}]
    BY <1>3 DEF NoRequest
<1>7. r.at = "update" /\ r.who = p /\ r.role = role /\ r.pin = pin
    BY <1>6
<1>8. \/ pin = NoPin
      \/ pin = person[p].pin
      \/ k \in Pins /\ pin = Fingerprint(k) /\ ~PinTaken(k, p)
    BY <1>1, <1>4 DEF NextPin
<1>9. pin \in PinsKept /\ (pin.form = "plain" => pin = person[p].pin)
    BY <1>5, <1>8, PinFacts DEF RowFits
<1>10. r \in RequestShape
    BY <1>5, <1>6, <1>9, PinFacts DEF RequestShape, StaffStages
<1>11. NoOldOne(r)
  <2>1. CASE pin = NoPin
      BY <1>7, <2>1 DEF NoOldOne
  <2>2. CASE pin = person[p].pin
      BY <1>7, <2>2, OwnPin
  <2>3. CASE pin = Fingerprint(k) /\ ~PinTaken(k, p)
      BY <1>7, <2>3, FreshPin
  <2> QED
      BY <1>8, <2>1, <2>2, <2>3
<1>12. role # "owner" /\ p \in Owners => \E q \in Owners : q # p
  <2> SUFFICES ASSUME role # "owner", p \in Owners, Owners = {p} PROVE FALSE
      OBVIOUS
  <2>1. Cardinality(Owners) > 1
      BY <1>4 DEF LastOwner, Owners
  <2>2. Cardinality({p}) = 1
      BY FS_Singleton
  <2> QED
      BY <2>1, <2>2
<1>13. Askable(r)
    BY <1>5, <1>7, <1>9, <1>10, <1>11, <1>12 DEF Askable
<1> QED
    BY <1>4, <1>13, AskedHolds

-----------------------------------------------------------------------------
LEMMA TurnedAwayHolds ==
    ASSUME StaffInv, NEW d \in Desks, UNCHANGED <<person, crossed, restored>>,
           desk' = [desk EXCEPT ![d] = NoRequest],
           \A s \in sessions' : s \in sessions \/
               (s \in [who : People, version : Nat] /\ s.version <= person[s.who].version)
    PROVE  StaffInv'
<1>1. Mild
  <2>1. NoPin.form = "none"
      BY DEF NoPin
  <2>2. \A p \in People : /\ person[p].version \in Nat
                          /\ person[p].pin.form = "plain" => person[p].role # "none"
      BY <2>1 DEF StaffInv, StaffShapes, RowFits
  <2> QED
      BY <2>2 DEF Mild
<1>2. \A e \in Desks : desk'[e] = IF e = d THEN NoRequest ELSE desk[e]
    BY DEF StaffInv, StaffShapes
<1>3. (\A e \in Desks : RequestFits(desk[e]))'
    BY <1>1, <1>2, NoRequestFits, RequestsKeep
<1>4. Hired' = Hired /\ Owners' = Owners
    BY DEF Hired, Owners
<1>5. StaffShapes'
    BY <1>2 DEF StaffInv, StaffShapes, RowFits
<1>6. PinsOpenOneDoor' /\ OwnerRemains'
    BY <1>4 DEF StaffInv, PinsOpenOneDoor, OwnerRemains
<1> QED
    BY <1>3, <1>5, <1>6 DEF StaffInv

\* What is known of a request whose person is known.
LEMMA DeskFacts ==
    ASSUME StaffInv, NEW d \in Desks, desk[d].at \in {"login", "update", "ownerPin"}
    PROVE  /\ desk[d].who \in People /\ person[desk[d].who].role # "none"
           /\ RowFits(person[desk[d].who]) /\ desk[d].pin \in PinsKept
           /\ desk[d].version \in Nat /\ WasAllowed(desk[d])
<1>1. desk[d] \in RequestShape /\ WasAllowed(desk[d])
      /\ (desk[d].who # 0 => person[desk[d].who].role # "none")
    BY DEF StaffInv, RequestFits
<1>2. desk[d].who \in People \cup {0} /\ desk[d].pin \in PinsKept /\ desk[d].version \in Nat
    BY <1>1 DEF RequestShape
<1>3. desk[d].who # 0
    BY <1>1 DEF WasAllowed
<1> QED
    BY <1>1, <1>2, <1>3 DEF StaffInv, StaffShapes

LEMMA LoginEndsHolds ==
    ASSUME StaffInv, NEW d \in Desks, LoginEnds(d)
    PROVE  StaffInv'
<1> DEFINE p == desk[d].who
<1>1. desk[d].at = "login"
    BY DEF LoginEnds
<1>2. /\ p \in People /\ person[p].role # "none" /\ RowFits(person[p]) /\ desk[d].pin \in PinsKept
      /\ desk[d].version \in Nat /\ desk[d].pin # NoPin
    BY <1>1, DeskFacts DEF WasAllowed
<1>3. desk[d].version <= person[p].version
    BY <1>1 DEF StaffInv, RequestFits
<1>4. Opens(d) => \A s \in sessions' : s \in sessions \/
               (s \in [who : People, version : Nat] /\ s.version <= person[s.who].version)
    BY <1>2, <1>3 DEF Opens
<1>5. CASE desk[d].pin.form = "print"
  <2>1. Opens(d) /\ desk' = [desk EXCEPT ![d] = NoRequest] /\ UNCHANGED <<person, changes, crossed, restored>>
      BY <1>5 DEF LoginEnds
  <2> QED
      BY <1>4, <2>1, TurnedAwayHolds
<1>6. CASE TurnedAway(d)
    BY <1>6, TurnedAwayHolds DEF TurnedAway
<1>7. CASE /\ Unique(p, Fingerprint(desk[d].pin.code))
           /\ person' = [person EXCEPT ![p].pin = Fingerprint(desk[d].pin.code)]
           /\ restored' = IF person[p].pin # desk[d].pin THEN restored \cup {p} ELSE restored
           /\ Opens(d) /\ desk' = [desk EXCEPT ![d] = NoRequest] /\ UNCHANGED <<changes, crossed>>
  <2>1. PICK row : row = [person[p] EXCEPT !.pin = Fingerprint(desk[d].pin.code)]
      OBVIOUS
  <2>2. Fingerprint(desk[d].pin.code) \in PinsKept /\ Fingerprint(desk[d].pin.code).form = "print"
        /\ Fingerprint(desk[d].pin.code).code = desk[d].pin.code
      BY <1>2, PinFacts
  <2>3. /\ row \in [role : StaffRoles \cup {"none"}, pin : PinsKept, version : Nat]
        /\ row.role = person[p].role /\ row.version = person[p].version
        /\ row.pin = Fingerprint(desk[d].pin.code)
      BY <1>2, <2>1, <2>2 DEF RowFits
  <2>4. Writable(d, p, row)
    <3>1. person[p].version \in Nat
        BY <1>2 DEF RowFits
    <3> QED
        BY <1>2, <2>2, <2>3, <3>1 DEF Writable, RowFits
  <2>5. RowWritten(d, p, row)
      BY <1>7, <2>1, <2>2, <2>3 DEF RowWritten, StaffInv, StaffShapes
  <2>6. Owners' = Owners
    <3>1. \A q \in People : person'[q].role = person[q].role
        BY <2>3, <2>5 DEF RowWritten, StaffInv, StaffShapes
    <3> QED
        BY <3>1 DEF Owners
  <2>7. OwnerRemains'
      BY <1>7, <2>6 DEF OwnerRemains, StaffInv
  <2>8. p \in restored' \/ \A q \in Hired \ restored :
                              q # p /\ row.pin # NoPin => person[q].pin.code # row.pin.code
    <3> SUFFICES ASSUME p \notin restored', NEW q \in Hired \ restored, q # p
                 PROVE  person[q].pin.code # row.pin.code
        OBVIOUS
    <3>1. p \notin restored
        BY <1>7
    <3> QED
        BY <1>2, <1>7, <2>2, <2>3, <3>1, FreePin
  <2> HIDE DEF p
  <2> QED
      BY <1>2, <1>4, <1>7, <2>4, <2>5, <2>7, <2>8, WrittenHolds
<1> QED
    BY <1>5, <1>6, <1>7 DEF LoginEnds

LEMMA CreateCommitsHolds ==
    ASSUME StaffInv, NEW d \in Desks, CreateCommits(d)
    PROVE  StaffInv'
<1>1. CASE TurnedAway(d)
    BY <1>1, TurnedAwayHolds DEF TurnedAway
<1>2. ASSUME NEW p \in People \ Hired, Unique(0, desk[d].pin), UNCHANGED sessions,
             Writes(d, p, [role |-> desk[d].role, pin |-> desk[d].pin, version |-> 0])
      PROVE  StaffInv'
  <2>1. PICK row : row = [role |-> desk[d].role, pin |-> desk[d].pin, version |-> 0]
      OBVIOUS
  <2>2. desk[d].at = "create" /\ desk[d] \in RequestShape /\ WasAllowed(desk[d])
      BY DEF CreateCommits, StaffInv, RequestFits
  <2>3. desk[d].who = 0 /\ desk[d].role \in StaffRoles /\ desk[d].pin \in PinsKept
        /\ desk[d].pin.form # "plain"
      BY <2>2 DEF WasAllowed, RequestShape
  <2>4. row.role = desk[d].role /\ row.pin = desk[d].pin /\ row.version = 0
        /\ row \in [role : StaffRoles \cup {"none"}, pin : PinsKept, version : Nat]
      BY <2>1, <2>3
  <2>5. person[p].role = "none" /\ person[p].version = 0 /\ 0 \notin restored
      BY <1>2, StaffAssumption DEF Hired, StaffInv, StaffShapes, RowFits
  <2>6. row.role # "none"
      BY <2>3, <2>4 DEF StaffRoles
  <2>7. Writable(d, p, row)
    <3>1. RowFits(row)
        BY <2>4, <2>6 DEF RowFits
    <3>2. person[p].version <= row.version
        BY <2>4, <2>5
    <3> QED
        BY <2>3, <2>4, <2>5, <2>6, <3>1, <3>2 DEF Writable
  <2>8. Writes(d, p, row)
      BY <1>2, <2>1
  <2>9. RowWritten(d, p, row) /\ crossed' = crossed
      BY <1>2, <2>3, <2>4, <2>5, <2>8 DEF Writes, RowWritten, StaffInv, StaffShapes
  <2>10. OwnerRemains'
    <3>1. \A q \in Owners : person'[q].role = "owner"
        BY <1>2, <2>8 DEF Owners, Hired, Writes, StaffInv, StaffShapes
    <3> QED
        BY <2>9, <3>1 DEF OwnerRemains, Owners, StaffInv
  <2>11. \A q \in Hired \ restored : q # p /\ row.pin # NoPin => person[q].pin.code # row.pin.code
    <3> SUFFICES ASSUME NEW q \in Hired \ restored, row.pin # NoPin
                 PROVE  person[q].pin.code # row.pin.code
        OBVIOUS
    <3>1. desk[d].pin = Fingerprint(desk[d].pin.code)
        BY <2>3, <2>4, PinFacts
    <3>2. q # desk[d].who
        BY <2>3, StaffAssumption DEF Hired
    <3> QED
        BY <1>2, <2>3, <2>4, <2>5, <3>1, <3>2, FreePin
  <2> QED
      BY <1>2, <2>7, <2>9, <2>10, <2>11, WrittenHolds
<1> QED
    BY <1>1, <1>2 DEF CreateCommits

LEMMA ChangeCommitsHolds ==
    ASSUME StaffInv, NEW d \in Desks, ChangeCommits(d)
    PROVE  StaffInv'
<1> DEFINE p == desk[d].who
           role == IF desk[d].at = "update" THEN desk[d].role ELSE person[p].role
<1>1. CASE TurnedAway(d)
    BY <1>1, TurnedAwayHolds DEF TurnedAway
<1>2. CASE /\ Unique(p, desk[d].pin) /\ UNCHANGED sessions
           /\ Writes(d, p, [role |-> role, pin |-> desk[d].pin, version |-> person[p].version + Bumped(d)])
  <2>1. PICK row : row = [role |-> role, pin |-> desk[d].pin, version |-> person[p].version + Bumped(d)]
      OBVIOUS
  <2>2. desk[d].at \in {"update", "ownerPin"}
      BY DEF ChangeCommits
  <2>3. /\ p \in People /\ person[p].role # "none" /\ RowFits(person[p]) /\ desk[d].pin \in PinsKept
        /\ WasAllowed(desk[d])
      BY <2>2, DeskFacts
  <2>4. role \in StaffRoles
      BY <2>2, <2>3 DEF WasAllowed, RowFits, StaffRoles
  <2>5. person[p].version \in Nat /\ person[p].version + Bumped(d) \in Nat
        /\ person[p].version <= person[p].version + Bumped(d)
      BY <2>3 DEF RowFits, Bumped
  <2>6. /\ row.role = role /\ row.pin = desk[d].pin /\ row.version = person[p].version + Bumped(d)
        /\ row \in [role : StaffRoles \cup {"none"}, pin : PinsKept, version : Nat]
      BY <2>1, <2>3, <2>4, <2>5
  <2>7. row.role # "none"
      BY <2>4, <2>6 DEF StaffRoles
  <2>8. row.pin.form = "plain" => row.pin = desk[d].was
      BY <2>2, <2>3, <2>6 DEF WasAllowed
  <2>9. Writable(d, p, row)
    <3>1. RowFits(row) /\ person[p].version <= row.version
        BY <2>5, <2>6, <2>7 DEF RowFits
    <3> QED
        BY <2>3, <2>6, <2>7, <2>8, <3>1 DEF Writable
  <2>10. Writes(d, p, row)
      BY <1>2, <2>1
  <2>11. RowWritten(d, p, row)
      BY <2>3, <2>8, <2>10 DEF Writes, RowWritten, StaffInv, StaffShapes
  <2>12. OwnerRemains'
    <3> SUFFICES ASSUME ~crossed' PROVE Owners' # {}
        BY DEF OwnerRemains
    <3>1. ~crossed /\ (person[p].role = "owner" /\ role # "owner" => desk[d].owners = Owners)
        BY <2>6, <2>10 DEF Writes
    <3>2. PICK q \in Owners : TRUE
        BY <3>1 DEF StaffInv, OwnerRemains
    <3>3. \A o \in People : person'[o] = IF o = p THEN row ELSE person[o]
        BY <2>11 DEF RowWritten, StaffInv, StaffShapes
    <3>4. CASE q # p \/ role = "owner"
        BY <2>6, <3>2, <3>3, <3>4 DEF Owners
    <3>5. CASE q = p /\ role # "owner"
      <4>1. person[p].role = "owner" /\ p \in Owners
          BY <3>2, <3>5 DEF Owners
      <4>2. desk[d].at = "update" /\ desk[d].role = role
          BY <2>2, <3>5, <4>1
      <4>3. PICK o \in Owners : o # p
          BY <2>3, <3>1, <3>5, <4>1, <4>2 DEF WasAllowed
      <4> QED
          BY <3>3, <4>3 DEF Owners
    <3> QED
        BY <3>4, <3>5
  <2>13. \/ p \in restored' \/ (row.pin = person[p].pin /\ person[p].role # "none")
         \/ \A q \in Hired \ restored : q # p /\ row.pin # NoPin => person[q].pin.code # row.pin.code
    <3>1. CASE row.pin.form = "plain"
        BY <2>3, <2>8, <2>10, <3>1 DEF Writes
    <3>2. CASE row.pin.form # "plain"
      <4> SUFFICES ASSUME p \notin restored', NEW q \in Hired \ restored, q # p, row.pin # NoPin
                   PROVE  person[q].pin.code # row.pin.code
          OBVIOUS
      <4>1. desk[d].pin = Fingerprint(desk[d].pin.code) /\ desk[d].pin # NoPin
        <5>1. Plain(desk[d].pin.code).form = "plain"
            BY DEF Plain
        <5> QED
            BY <2>3, <2>6, <3>2, <5>1, PinFacts
      <4>2. p \notin restored
          BY <2>11 DEF RowWritten
      <4> QED
          BY <1>2, <2>6, <4>1, <4>2, FreePin
    <3> QED
        BY <3>1, <3>2
  <2> HIDE DEF p
  <2> QED
      BY <1>2, <2>3, <2>9, <2>11, <2>12, <2>13, WrittenHolds
<1> QED
    BY <1>1, <1>2 DEF ChangeCommits

LEMMA StaffStep ==
    ASSUME StaffInv, [StaffNext]_staffVars
    PROVE  StaffInv'
<1>1. ASSUME NEW d \in Desks, NEW k \in Pins, LoginReads(d, k) \/ OwnerPinReads(d, k)
      PROVE  StaffInv'
    BY <1>1, LoginReadsHold, OwnerPinReadsHold
<1>2. ASSUME NEW d \in Desks, NEW role \in StaffRoles, NEW k \in Pins \cup {-1, 0}, k # -1,
             CreateReads(d, role, k)
      PROVE  StaffInv'
    BY <1>2, CreateReadsHold
<1>3. ASSUME NEW d \in Desks, NEW role \in StaffRoles, NEW k \in Pins \cup {-1, 0},
             NEW p \in Hired, UpdateReads(d, p, role, k)
      PROVE  StaffInv'
    BY <1>3, UpdateReadsHold
<1>4. ASSUME NEW d \in Desks, LoginEnds(d) \/ CreateCommits(d) \/ ChangeCommits(d)
      PROVE  StaffInv'
    BY <1>4, LoginEndsHolds, CreateCommitsHolds, ChangeCommitsHolds
<1>5. CASE UNCHANGED staffVars
  <2>1. UNCHANGED <<person, sessions, desk, crossed, restored>>
      BY <1>5 DEF staffVars
  <2>2. Hired' = Hired /\ Owners' = Owners
      BY <2>1 DEF Hired, Owners
  <2>3. StaffShapes' /\ PinsOpenOneDoor' /\ OwnerRemains'
      BY <2>1, <2>2 DEF StaffInv, StaffShapes, RowFits, PinsOpenOneDoor, OwnerRemains
  <2>4. (\A d \in Desks : RequestFits(desk[d]))'
      BY <2>1, <2>2 DEF StaffInv, RequestFits, WasAllowed, NoOldOne
  <2> QED
      BY <2>3, <2>4 DEF StaffInv
<1> QED
    BY <1>1, <1>2, <1>3, <1>4, <1>5 DEF StaffNext, StaffRoles

LEMMA StaffInvHolds == StaffSpec => []StaffInv
<1>1. StaffInv /\ [StaffNext]_staffVars => StaffInv'
    BY StaffStep
<1> QED
    BY <1>1, StaffInitHolds, PTL DEF StaffSpec

\* The shape of the rows; a session is never of a later version than its owner
\* (StaffTypeOK; authVersion).
THEOREM StaffTypes == StaffSpec => []StaffTypeOK
<1>1. StaffInv => StaffTypeOK
  <2> SUFFICES ASSUME StaffInv PROVE StaffTypeOK
      OBVIOUS
  <2>1. ASSUME NEW p \in People
        PROVE  /\ person[p].role \in {"none", "owner", "cashier"}
               /\ person[p].pin = NoPin \/ person[p].pin.code \in Pins
               /\ person[p].role = "none" => person[p].pin = NoPin
    <3>1. RowFits(person[p])
        BY DEF StaffInv, StaffShapes
    <3>2. person[p].pin \in PinsKept
        BY <3>1 DEF RowFits
    <3> QED
        BY <3>1, <3>2, PinFacts DEF RowFits, StaffRoles
  <2> QED
      BY <2>1 DEF StaffTypeOK, StaffInv, StaffShapes
<1> QED
    BY <1>1, StaffInvHolds, PTL

\* A PIN opens one person's till (PinsOpenOneDoor; pinTakenBy, the index on posPin),
\* unless a late write has put an old PIN back.
THEOREM PinsAlwaysOpenOneDoor == StaffSpec => []PinsOpenOneDoor
<1>1. StaffInv => PinsOpenOneDoor
    BY DEF StaffInv
<1> QED
    BY <1>1, StaffInvHolds, PTL

\* A shop keeps an owner (OwnerRemains; staff.ts), unless a demotion was decided
\* beside another.
THEOREM OwnerAlwaysRemains == StaffSpec => []OwnerRemains
<1>1. StaffInv => OwnerRemains
    BY DEF StaffInv
<1> QED
    BY <1>1, StaffInvHolds, PTL

\* Whoever's PIN or role is changed is signed out (ChangeSignsOut;
\* staff-operations.ts:206), unless a request decided on an older row puts the old
\* PIN and role back.
THEOREM ChangeAlwaysSignsOut == StaffSpec => ChangeSignsOut
<1> DEFINE SignedOutThen == \A p \in Hired : AccessChanges(p) /\ ~PutsBack(p) => NoTillStaysOpen(p)
<1>1. StaffInv /\ [StaffNext]_staffVars => [SignedOutThen]_staffVars
  <2> SUFFICES ASSUME StaffInv, StaffNext, NEW p \in Hired, AccessChanges(p), ~PutsBack(p),
                      NEW s \in sessions, s.who = p, s.version = person'[p].version
               PROVE  FALSE
      BY DEF Served, NoTillStaysOpen
  <2>1. p \in People /\ person[p].version \in Nat /\ s.version \in Nat /\ s.version <= person[p].version
        /\ person = [q \in People |-> person[q]] /\ desk = [e \in Desks |-> desk[e]]
    <3>1. s \in [who : People, version : Nat] /\ s.version <= person[s.who].version
        BY DEF StaffInv, StaffShapes
    <3> QED
        BY <3>1 DEF Hired, StaffInv, StaffShapes, RowFits
  <2>2. PICK d \in Desks : LoginEnds(d) \/ CreateCommits(d) \/ ChangeCommits(d)
    <3>1. person' # person
        BY DEF AccessChanges
    <3>2. \A e \in Desks : \A r : Begins(e, r) => person' = person
        BY DEF Begins
    <3>3. ASSUME NEW e \in Desks, NEW k, NEW role, NEW q,
                 \/ LoginReads(e, k) \/ OwnerPinReads(e, k)
                 \/ CreateReads(e, role, k) \/ UpdateReads(e, q, role, k)
          PROVE  FALSE
        BY <3>1, <3>2, <3>3 DEF LoginReads, OwnerPinReads, CreateReads, UpdateReads
    <3> QED
        BY <3>3 DEF StaffNext
  <2>3. CASE LoginEnds(d)
    <3>1. desk[d].at = "login" /\ desk[d].pin = desk[d].was
        BY <2>3, DeskFacts DEF LoginEnds, WasAllowed
    <3>2. /\ person' = [person EXCEPT ![desk[d].who].pin = Fingerprint(desk[d].pin.code)]
          /\ desk' = [desk EXCEPT ![d] = NoRequest]
        BY <2>3 DEF LoginEnds, TurnedAway, AccessChanges
    <3>3. desk[d].who \in People /\ RowFits(person[desk[d].who])
        BY <3>1, DeskFacts
    <3>4. desk[d].who = p
        BY <2>1, <3>2 DEF AccessChanges
    <3>5. person'[p].pin = Fingerprint(desk[d].pin.code)
        BY <2>1, <3>2, <3>3, <3>4 DEF RowFits
    <3>6. person'[p].pin.code = desk[d].was.code
        BY <3>1, <3>5 DEF Fingerprint
    <3> QED
        BY <2>1, <3>1, <3>2, <3>4, <3>6 DEF PutsBack
  <2>4. CASE CreateCommits(d)
    <3>1. PICK q \in People \ Hired :
              Writes(d, q, [role |-> desk[d].role, pin |-> desk[d].pin, version |-> 0])
        BY <2>4 DEF CreateCommits, TurnedAway, AccessChanges
    <3> QED
        BY <2>1, <3>1 DEF Writes, AccessChanges
  <2>5. CASE ChangeCommits(d)
    <3> DEFINE q == desk[d].who
               role == IF desk[d].at = "update" THEN desk[d].role ELSE person[q].role
    <3>1. PICK row : row = [role |-> role, pin |-> desk[d].pin, version |-> person[q].version + Bumped(d)]
        OBVIOUS
    <3>2. /\ Writes(d, q, row)
          /\ row.role = role /\ row.pin = desk[d].pin /\ row.version = person[q].version + Bumped(d)
        BY <2>5, <3>1 DEF ChangeCommits, TurnedAway, AccessChanges
    <3>3. q = p
        BY <2>1, <3>2 DEF Writes, AccessChanges
    <3>4. person'[p] = row /\ desk'[d] = NoRequest
        BY <2>1, <3>2, <3>3 DEF Writes
    <3>5. CASE ~LeavesAccess(d)
        BY <2>1, <3>2, <3>3, <3>4, <3>5 DEF Bumped
    <3>6. CASE LeavesAccess(d)
      <4>1. person'[p].pin.code = desk[d].was.code /\ person'[p].role = desk[d].wasRole
            /\ desk[d].at = "update"
          BY <3>2, <3>4, <3>6 DEF LeavesAccess
      <4> QED
          BY <3>3, <3>4, <4>1 DEF PutsBack
    <3> QED
        BY <3>5, <3>6
  <2> QED
      BY <2>2, <2>3, <2>4, <2>5
<1>2. StaffSpec => [][SignedOutThen]_staffVars
    BY <1>1, StaffInvHolds, PTL DEF StaffSpec
<1> QED
    BY <1>2 DEF ChangeSignsOut

-----------------------------------------------------------------------------
(***************************************************************************)
(* Copies of the database.  What a run removes is Keep names behind the    *)
(* newest dump; while fewer than Keep dumps start during a run, its own    *)
(* dump is not that old, nor is anything that was proven when it began to  *)
(* remove.  And no two runs write one name, so nobody writes over a dump   *)
(* that was proven.                                                        *)
(***************************************************************************)

RunSteps == {"resting", "dumping", "mirroring", "uploading", "readingBack",
             "listing", "removing", "pruning", "unlinking"}
Unproven == {"dumping", "mirroring", "uploading", "readingBack"}
Proving == {"listing", "removing", "pruning", "unlinking"}
Mirrored == {"uploading", "readingBack"} \cup Proving

RunFits(d) ==
    /\ d.at = "resting" <=> d = Resting
    /\ d.at # "resting" => d.dump \in 1..started
    /\ d.at \in Proving => d.dump <= proven
    /\ \A n \in d.old : n \in Nat /\ n + Keep <= started

BackupShapes ==
    /\ copies = [p \in Places |-> copies[p]] /\ \A p \in Places : Here(p) \subseteq 1..started
    /\ started \in Nat /\ proven \in Nat /\ done \in Nat /\ done <= proven /\ proven <= started
    /\ run \in [Runners -> [at : RunSteps, dump : Nat, old : SUBSET Nat]]
    /\ \A r \in Runners : RunFits(run[r])
    /\ \A q, r \in Runners : run[q].at # "resting" /\ run[q].dump = run[r].dump => q = r

\* Where the dump of a run is.
DumpStands(d) ==
    d.at # "resting" =>
        /\ started < d.dump + Keep
        /\ d.at \in Unproven => d.dump # proven /\ d.dump # done
        /\ d.at \in {"dumping", "mirroring"} => d.dump \notin Here("storage")
        /\ d.at = "dumping" => d.dump \in Here("disk")
        /\ d.at = "mirroring" => d.dump \in WholeIn("disk")
        /\ d.at \in Mirrored => d.dump \in WholeIn("mirror")
        /\ d.at \in Mirrored /\ ~brought => d.dump \in WholeIn("disk")

CopiesStand ==
    /\ \A r \in Runners : DumpStands(run[r])
    /\ proven # 0 => proven \in WholeIn("storage")
    /\ done # 0 => done \in WholeIn("mirror")
    /\ done # 0 /\ ~brought => \E n \in WholeIn("disk") : n >= done

BackupsInv == BackupShapes /\ (lapped \/ CopiesStand)

RunState == [at : RunSteps, dump : Nat, old : SUBSET Nat]

LEMMA NewestOfTwo ==
    ASSUME NEW m \in Nat, NEW n \in Nat
    PROVE  Max({m, n}) \in {m, n} /\ Max({m, n}) >= m /\ Max({m, n}) >= n
<1>1. \E x \in {m, n} : \A y \in {m, n} : x >= y
  <2>1. m >= n \/ n >= m
      OBVIOUS
  <2> QED
      BY <2>1
<1> QED
    BY <1>1 DEF Max

LEMMA GreatestIsThere ==
    ASSUME NEW S, IsFiniteSet(S), S \subseteq Int, S # {}
    PROVE  Max(S) \in S
<1> DEFINE R == {e \in S \X S : e[1] < e[2]}
<1>1. \A x, y \in S : <<x, y>> \in R <=> x < y
    OBVIOUS
<1>2. \A x \in S : x \in Int
    OBVIOUS
<1> HIDE DEF R
<1>4. IsOrder(R, S)
  <2>1. \A x \in S : <<x, x>> \notin R
      BY <1>1, <1>2
  <2>2. \A x, y, z \in S : <<x, y>> \in R /\ <<y, z>> \in R => <<x, z>> \in R
      BY <1>1, <1>2
  <2>3. \A x, y \in S : x # y => <<x, y>> \in R \/ <<y, x>> \in R
      BY <1>1, <1>2
  <2> QED
      BY <2>1, <2>2, <2>3 DEF IsOrder
<1>5. PICK m \in S : \A x \in S \ {m} : <<x, m>> \in R
    BY <1>4, LastOfFinite
<1>6. ASSUME NEW y \in S PROVE m >= y
  <2>1. m \in Int /\ y \in Int
      BY <1>2
  <2>2. CASE y # m
    <3>1. y < m
        BY <1>1, <1>5, <2>2
    <3> QED
        BY <2>1, <3>1
  <2> QED
      BY <2>1, <2>2
<1> QED
    BY <1>6 DEF Max

LEMMA NewestIsThere ==
    ASSUME NEW last \in Nat, NEW S \in SUBSET (1..last), S # {}
    PROVE  Max(S) \in S
<1>1. IsFiniteSet(1..last)
    BY FS_Interval
<1>2. IsFiniteSet(S)
    BY <1>1, FS_Subset
<1>3. S \subseteq Int
    OBVIOUS
<1> QED
    BY <1>2, <1>3, GreatestIsThere

\* What is among the newest Keep is not removed.
LEMMA ExpiredAreOld ==
    ASSUME NEW last \in Nat, NEW S \in SUBSET (1..last)
    PROVE  \A n \in Expired(S) : n \in S /\ n \in Nat /\ n + Keep <= last
<1> SUFFICES ASSUME NEW n \in Expired(S) PROVE n \in S /\ n \in Nat /\ n + Keep <= last
    OBVIOUS
<1> DEFINE newer == {m \in S : m > n}
<1>1. n \in S /\ Cardinality(newer) >= Keep
    BY DEF Expired
<1>2. n \in Nat /\ n \in 1..last
    BY <1>1
<1>3. newer \in SUBSET ((n + 1)..last)
  <2>1. \A m \in newer : m \in 1..last /\ m > n
      OBVIOUS
  <2>2. \A m \in newer : m \in (n + 1)..last
      BY <1>2, <2>1
  <2> HIDE DEF newer
  <2> QED
      BY <2>2
<1>4. Cardinality((n + 1)..last) = last - n /\ IsFiniteSet((n + 1)..last)
    BY <1>2, FS_Interval
<1> HIDE DEF newer
<1>5. Cardinality(newer) <= last - n /\ Cardinality(newer) \in Nat
  <2>1. IsFiniteSet(newer) /\ Cardinality(newer) <= Cardinality((n + 1)..last)
      BY <1>3, <1>4, FS_Subset
  <2>2. Cardinality(newer) \in Nat
      BY <2>1, FS_CardinalityType
  <2> QED
      BY <1>4, <2>1, <2>2
<1> QED
    BY <1>1, <1>2, <1>5, BackupsAssumption

-----------------------------------------------------------------------------
LEMMA WrittenThere ==
    ASSUME copies = [p \in Places |-> copies[p]], NEW p \in Places, NEW n, NEW state,
           copies' = Written(p, n, state)
    PROVE  /\ copies' = [q \in Places |-> copies'[q]]
           /\ Here(p)' = Here(p) \cup {n}
           /\ state = "whole" => WholeIn(p)' = WholeIn(p) \cup {n}
           /\ state # "whole" => WholeIn(p)' = WholeIn(p) \ {n}
           /\ \A q \in Places \ {p} : Here(q)' = Here(q) /\ WholeIn(q)' = WholeIn(q)
<1> DEFINE files == [m \in DOMAIN copies[p] \cup {n} |-> IF m = n THEN state ELSE copies[p][m]]
<1>1. copies' = [copies EXCEPT ![p] = files]
    BY DEF Written
<1>2. /\ DOMAIN files = DOMAIN copies[p] \cup {n}
      /\ \A m \in DOMAIN files : files[m] = IF m = n THEN state ELSE copies[p][m]
    OBVIOUS
<1> HIDE DEF files
<1>3. copies' = [q \in Places |-> copies'[q]] /\ copies'[p] = files
      /\ \A q \in Places \ {p} : copies'[q] = copies[q]
    BY <1>1
<1>4. \A q \in Places \ {p} : Here(q)' = Here(q) /\ WholeIn(q)' = WholeIn(q)
    BY <1>3 DEF Here, WholeIn
<1>5. Here(p)' = Here(p) \cup {n}
    BY <1>2, <1>3 DEF Here
<1>6. \A m : m \in WholeIn(p)' <=> m \in DOMAIN files /\ files[m] = "whole"
    BY <1>3 DEF Here, WholeIn
<1>7. \A m : m \in WholeIn(p) <=> m \in DOMAIN copies[p] /\ copies[p][m] = "whole"
    BY DEF Here, WholeIn
<1> QED
    BY <1>2, <1>3, <1>4, <1>5, <1>6, <1>7

LEMMA WithoutThere ==
    ASSUME copies = [p \in Places |-> copies[p]], NEW p \in Places, NEW n,
           copies' = Without(p, n)
    PROVE  /\ copies' = [q \in Places |-> copies'[q]]
           /\ Here(p)' = Here(p) \ {n} /\ WholeIn(p)' = WholeIn(p) \ {n}
           /\ \A q \in Places \ {p} : Here(q)' = Here(q) /\ WholeIn(q)' = WholeIn(q)
<1> DEFINE files == [m \in DOMAIN copies[p] \ {n} |-> copies[p][m]]
<1>1. copies' = [copies EXCEPT ![p] = files]
    BY DEF Without
<1>2. /\ DOMAIN files = DOMAIN copies[p] \ {n}
      /\ \A m \in DOMAIN files : files[m] = copies[p][m]
    OBVIOUS
<1> HIDE DEF files
<1>3. copies' = [q \in Places |-> copies'[q]] /\ copies'[p] = files
      /\ \A q \in Places \ {p} : copies'[q] = copies[q]
    BY <1>1
<1>4. \A q \in Places \ {p} : Here(q)' = Here(q) /\ WholeIn(q)' = WholeIn(q)
    BY <1>3 DEF Here, WholeIn
<1>5. Here(p)' = Here(p) \ {n}
    BY <1>2, <1>3 DEF Here
<1>6. \A m : m \in WholeIn(p)' <=> m \in DOMAIN files /\ files[m] = "whole"
    BY <1>3 DEF Here, WholeIn
<1>7. \A m : m \in WholeIn(p) <=> m \in DOMAIN copies[p] /\ copies[p][m] = "whole"
    BY DEF Here, WholeIn
<1> QED
    BY <1>2, <1>3, <1>4, <1>5, <1>6, <1>7

LEMMA FilesAsBefore ==
    ASSUME UNCHANGED copies
    PROVE  \A p \in Places : Here(p)' = Here(p) /\ WholeIn(p)' = WholeIn(p)
BY DEF Here, WholeIn

\* One run goes on; the others are what they were.
LEMMA OneRuns ==
    ASSUME BackupShapes, NEW r \in Runners, NEW d \in RunState, run' = [run EXCEPT ![r] = d],
           copies' = [p \in Places |-> copies'[p]], \A p \in Places : Here(p)' \subseteq 1..started',
           started' \in Nat, proven' \in Nat, done' \in Nat,
           started <= started', proven <= proven', done' <= proven', proven' <= started',
           RunFits(d)',
           d.at # "resting" =>
               \/ run[r].at # "resting" /\ d.dump = run[r].dump
               \/ \A q \in Runners : run[q].dump < d.dump
    PROVE  /\ BackupShapes' /\ run'[r] = d
           /\ \A q \in Runners \ {r} : run'[q] = run[q]
<1>1. run \in [Runners -> RunState]
    BY DEF BackupShapes, RunState
<1>2. run' \in [Runners -> RunState] /\ run'[r] = d /\ \A q \in Runners \ {r} : run'[q] = run[q]
    BY <1>1
<1>3. ASSUME NEW q \in Runners PROVE RunFits(run[q])'
  <2>1. CASE q # r
    <3>1. run'[q] = run[q] /\ RunFits(run[q]) /\ run[q] \in RunState
        BY <1>1, <1>2, <2>1 DEF BackupShapes
    <3> PICK e \in RunState : e = run[q]
        BY <3>1
    <3>2. RunFits(e) /\ run'[q] = e
        BY <3>1
    <3>3. /\ started \in Nat /\ started' \in Nat /\ proven \in Nat /\ proven' \in Nat
          /\ started <= started' /\ proven <= proven' /\ Keep \in Nat
        BY BackupsAssumption DEF BackupShapes
    <3>4. RunFits(e)'
        BY <3>2, <3>3 DEF RunFits, RunState
    <3> QED
        BY <3>2, <3>4
  <2>2. CASE q = r
      BY <1>2, <2>2
  <2> QED
      BY <2>1, <2>2
<1>4. ASSUME NEW q \in Runners, NEW p \in Runners,
             run'[q].at # "resting", run'[q].dump = run'[p].dump
      PROVE  q = p
  <2>1. /\ \A x \in Runners : run[x] \in RunState /\ RunFits(run[x])
        /\ \A x, y \in Runners : run[x].at # "resting" /\ run[x].dump = run[y].dump => x = y
      BY <1>1 DEF BackupShapes
  <2>2. \A x \in Runners : run[x].at = "resting" => run[x].dump = 0
      BY <2>1 DEF RunFits, Resting
  <2>3. \A x \in Runners : run[x].at # "resting" => run[x].dump # 0
      BY <2>1 DEF RunFits
  <2>4. d.at = "resting" => d.dump = 0
      BY DEF RunFits, Resting
  <2>5. \A x \in Runners : run[x].dump \in Nat /\ d.dump \in Nat
      BY <2>1 DEF RunState
  <2>6. CASE q # r /\ p # r
      BY <1>2, <1>4, <2>1, <2>6
  <2>7. CASE q # r /\ p = r
      BY <1>2, <1>4, <2>1, <2>2, <2>3, <2>4, <2>5, <2>7
  <2>8. CASE q = r /\ p # r
      BY <1>2, <1>4, <2>1, <2>2, <2>3, <2>4, <2>5, <2>8
  <2> QED
      BY <2>6, <2>7, <2>8
<1> QED
    BY <1>2, <1>3, <1>4 DEF BackupShapes, RunState

LEMMA GoesTo ==
    ASSUME BackupShapes, NEW r \in Runners, NEW step \in RunSteps, Goes(r, step)
    PROVE  /\ [at |-> step, dump |-> run[r].dump, old |-> run[r].old] \in RunState
           /\ run' = [run EXCEPT ![r] = [at |-> step, dump |-> run[r].dump, old |-> run[r].old]]
<1>1. run \in [Runners -> RunState]
    BY DEF BackupShapes, RunState
<1>2. run[r] \in RunState
    BY <1>1
<1>3. [run[r] EXCEPT !.at = step] = [at |-> step, dump |-> run[r].dump, old |-> run[r].old]
    BY <1>2 DEF RunState
<1>4. run' = [run EXCEPT ![r] = [run[r] EXCEPT !.at = step]]
    BY <1>1 DEF Goes
<1> QED
    BY <1>2, <1>3, <1>4 DEF RunState

\* What the step of one run may not do to the dump of another.
Spared(q) ==
    /\ started' < run[q].dump + Keep
    /\ run[q].at \in Unproven => run[q].dump # proven' /\ run[q].dump # done'
    /\ run[q].dump \notin Here("storage") => run[q].dump \notin Here("storage")'
    /\ run[q].dump \in Here("disk") => run[q].dump \in Here("disk")'
    /\ run[q].dump \in WholeIn("disk") /\ (~brought' \/ run[q].dump \notin Here("storage"))
          => run[q].dump \in WholeIn("disk")'
    /\ run[q].dump \in WholeIn("mirror") => run[q].dump \in WholeIn("mirror")'

LEMMA OthersStand ==
    ASSUME NEW q \in Runners, DumpStands(run[q]), run'[q] = run[q], brought => brought',
           run[q].at # "resting" => Spared(q)
    PROVE  DumpStands(run[q])'
<1> PICK d : d = run[q]
    OBVIOUS
<1>1. DumpStands(d) /\ run'[q] = d
    OBVIOUS
<1>2. DumpStands(d)'
    BY <1>1 DEF DumpStands, Spared, Unproven, Proving, Mirrored
<1> QED
    BY <1>1, <1>2

\* What is known of the runs that are under way.
LEMMA RunFacts ==
    ASSUME BackupShapes
    PROVE  /\ run \in [Runners -> RunState] /\ Resting \in RunState /\ Resting.at = "resting"
           /\ started \in Nat /\ proven \in Nat /\ done \in Nat /\ done <= proven /\ proven <= started
           /\ Keep \in Nat \ {0}
           /\ copies = [p \in Places |-> copies[p]] /\ \A p \in Places : Here(p) \subseteq 1..started
           /\ \A p \in Places : WholeIn(p) \subseteq Here(p)
           /\ \A r \in Runners : run[r].at # "resting" => run[r].dump \in 1..started
           /\ \A r \in Runners : run[r].at = "resting" <=> run[r] = Resting
           /\ \A r \in Runners : run[r].dump <= started /\ run[r].dump \in Nat
           /\ \A q, r \in Runners : run[q].at # "resting" /\ q # r => run[q].dump # run[r].dump
           /\ \A r \in Runners : \A n \in run[r].old : n \in Nat /\ n + Keep <= started
           /\ \A r \in Runners : run[r].at \in Proving => run[r].dump <= proven
<1>1. run \in [Runners -> RunState] /\ Resting \in RunState /\ Resting.at = "resting"
    BY DEF BackupShapes, RunState, Resting, RunSteps
<1>2. \A r \in Runners : run[r].at = "resting" => run[r].dump = 0
    BY DEF BackupShapes, RunFits, Resting
<1>3. \A r \in Runners : run[r].at # "resting" => run[r].dump \in 1..started
    BY DEF BackupShapes, RunFits
<1>4. \A r \in Runners : run[r].dump <= started /\ run[r].dump \in Nat
    BY <1>2, <1>3 DEF BackupShapes
<1>5. \A q, r \in Runners : run[q].at # "resting" /\ q # r => run[q].dump # run[r].dump
    BY DEF BackupShapes
<1>6. \A r \in Runners : /\ run[r].at = "resting" <=> run[r] = Resting
                         /\ run[r].at \in Proving => run[r].dump <= proven
                         /\ \A n \in run[r].old : n \in Nat /\ n + Keep <= started
    BY DEF BackupShapes, RunFits
<1>7. /\ started \in Nat /\ proven \in Nat /\ done \in Nat /\ done <= proven /\ proven <= started
      /\ copies = [p \in Places |-> copies[p]] /\ \A p \in Places : Here(p) \subseteq 1..started
    BY DEF BackupShapes
<1>8. \A p \in Places : WholeIn(p) \subseteq Here(p)
    BY DEF WholeIn
<1> QED
    BY <1>1, <1>3, <1>4, <1>5, <1>6, <1>7, <1>8, BackupsAssumption

PlaceNames == "disk" \in Places /\ "mirror" \in Places /\ "storage" \in Places

LEMMA ThreePlaces == PlaceNames
BY DEF PlaceNames, Places

-----------------------------------------------------------------------------
LEMMA BackupsInitHolds == BackupsInit => BackupsInv
<1> SUFFICES ASSUME BackupsInit PROVE BackupsInv
    OBVIOUS
<1>1. copies = [p \in Places |-> copies[p]] /\ \A p \in Places : Here(p) = {}
    BY DEF BackupsInit, Here
<1>2. Resting \in [at : RunSteps, dump : Nat, old : SUBSET Nat] /\ Resting.at = "resting"
      /\ RunFits(Resting)
    BY DEF Resting, RunSteps, RunFits, Proving
<1>3. /\ started = 0 /\ proven = 0 /\ done = 0
      /\ \A r \in Runners : run[r] = Resting
      /\ run \in [Runners -> [at : RunSteps, dump : Nat, old : SUBSET Nat]]
    BY <1>2 DEF BackupsInit
<1>4. BackupShapes
    BY <1>1, <1>2, <1>3 DEF BackupShapes
<1>5. CopiesStand
    BY <1>2, <1>3 DEF CopiesStand, DumpStands
<1> QED
    BY <1>4, <1>5 DEF BackupsInv

LEMMA CreatesHolds ==
    ASSUME BackupsInv, NEW r \in Runners, Creates(r)
    PROVE  BackupsInv'
<1> USE ThreePlaces DEF PlaceNames
<1>1. BackupShapes
    BY DEF BackupsInv
<1> PICK d : d = [at |-> "dumping", dump |-> started + 1, old |-> {}]
    OBVIOUS
<1>2. d \in RunState /\ d.at = "dumping" /\ d.dump = started + 1 /\ d.old = {}
    BY <1>1, RunFacts DEF RunState, RunSteps
<1>3. run' = [run EXCEPT ![r] = d] /\ started' = started + 1
      /\ UNCHANGED <<proven, done, brought>> /\ copies' = Written("disk", started + 1, "cut")
      /\ lapped' = (lapped \/ \E q \in Runners : run[q] # Resting /\ started' - run[q].dump >= Keep)
    BY DEF Creates
<1>4. /\ copies' = [q \in Places |-> copies'[q]]
      /\ Here("disk")' = Here("disk") \cup {started + 1}
      /\ WholeIn("disk")' = WholeIn("disk") \ {started + 1}
      /\ \A q \in Places \ {"disk"} : Here(q)' = Here(q) /\ WholeIn(q)' = WholeIn(q)
    BY <1>1, <1>3, WrittenThere, RunFacts
<1>5. /\ BackupShapes' /\ run'[r] = d
      /\ \A q \in Runners \ {r} : run'[q] = run[q]
  <2>1. \A p \in Places : Here(p)' \subseteq 1..started'
    <3>1. \A p \in Places : Here(p) \subseteq 1..started /\ Here(p)' \subseteq Here(p) \cup {started + 1}
        BY <1>1, <1>4, RunFacts
    <3>2. (1..started) \cup {started + 1} \subseteq 1..started'
        BY <1>1, <1>3, RunFacts
    <3> QED
        BY <3>1, <3>2
  <2>2. RunFits(d)'
    <3>1. started + 1 \in 1..started'
        BY <1>1, <1>3, RunFacts
    <3> QED
        BY <1>2, <1>3, <3>1 DEF RunFits, Resting, Proving
  <2>3. \A q \in Runners : run[q].dump < d.dump
      BY <1>1, <1>2, RunFacts
  <2>4. /\ started' \in Nat /\ proven' \in Nat /\ done' \in Nat /\ started <= started'
        /\ proven <= proven' /\ done' <= proven' /\ proven' <= started'
      BY <1>1, <1>3, RunFacts
  <2> QED
      BY <1>1, <1>2, <1>3, <1>4, <2>1, <2>2, <2>3, <2>4, OneRuns
<1>6. ASSUME ~lapped' PROVE CopiesStand'
  <2>1. CopiesStand
      BY <1>3, <1>6 DEF BackupsInv
  <2>2. started + 1 \notin Here("disk") /\ started + 1 \notin Here("storage")
        /\ started + 1 # proven /\ started + 1 # done /\ \A q \in Runners : run[q].dump # started + 1
      BY <1>1, RunFacts
  <2>3. DumpStands(d)'
    <3>1. started' < d.dump + Keep /\ d.dump # proven' /\ d.dump # done'
        BY <1>1, <1>2, <1>3, <2>2, RunFacts
    <3>2. d.dump \notin Here("storage")' /\ d.dump \in Here("disk")'
        BY <1>2, <1>4, <2>2
    <3> QED
        BY <1>2, <3>1, <3>2 DEF DumpStands, Mirrored, Proving
  <2>4. ASSUME NEW q \in Runners \ {r} PROVE DumpStands(run[q])'
    <3>1. ASSUME run[q].at # "resting" PROVE Spared(q)
      <4>1. ~(started' - run[q].dump >= Keep)
          BY <1>1, <1>3, <1>6, <3>1, RunFacts
      <4>2. started' < run[q].dump + Keep
          BY <1>1, <1>3, <4>1, RunFacts
      <4>3. run[q].at \in Unproven => run[q].dump # proven' /\ run[q].dump # done'
          BY <1>3, <2>1, <3>1 DEF CopiesStand, DumpStands
      <4> QED
          BY <1>4, <2>2, <4>2, <4>3 DEF Spared
    <3> QED
        BY <1>3, <1>5, <2>1, <3>1, OthersStand DEF CopiesStand
  <2>5. \A q \in Runners : DumpStands(run[q])'
      BY <1>5, <2>3, <2>4
  <2>6. /\ proven' # 0 => proven' \in WholeIn("storage")'
        /\ done' # 0 => done' \in WholeIn("mirror")'
        /\ done' # 0 /\ ~brought' => \E n \in WholeIn("disk")' : n >= done'
    <3>1. WholeIn("disk") \subseteq WholeIn("disk")'
        BY <1>1, <1>4, <2>2, RunFacts
    <3> QED
        BY <1>3, <1>4, <2>1, <3>1 DEF CopiesStand
  <2> QED
      BY <2>5, <2>6 DEF CopiesStand
<1> QED
    BY <1>5, <1>6 DEF BackupsInv

\* A run goes on with its dump and starts none.
LEMMA RunsOn ==
    ASSUME BackupShapes, NEW r \in Runners, NEW d \in RunState, run' = [run EXCEPT ![r] = d],
           UNCHANGED <<started, proven, done>>, run[r].at # "resting", d.at # "resting",
           d.dump = run[r].dump, d.at \in Proving => run[r].at \in Proving,
           \A n \in d.old : n \in Nat /\ n + Keep <= started,
           copies' = [p \in Places |-> copies'[p]], \A p \in Places : Here(p)' \subseteq 1..started
    PROVE  /\ BackupShapes' /\ run'[r] = d
           /\ \A q \in Runners \ {r} : run'[q] = run[q]
<1>1. RunFits(d)'
  <2>1. d.dump \in 1..started /\ d.at \in Proving => d.dump <= proven
      BY RunFacts
  <2>2. d.dump \in 1..started'
      BY RunFacts
  <2> QED
      BY <2>1, <2>2, RunFacts DEF RunFits, Resting
<1>2. /\ started' \in Nat /\ proven' \in Nat /\ done' \in Nat /\ started <= started'
      /\ proven <= proven' /\ done' <= proven' /\ proven' <= started'
    BY RunFacts
<1>3. \A p \in Places : Here(p)' \subseteq 1..started'
    OBVIOUS
<1> QED
    BY <1>1, <1>2, <1>3, OneRuns

LEMMA DumpedHolds ==
    ASSUME BackupsInv, NEW r \in Runners, Dumped(r)
    PROVE  BackupsInv'
<1> USE ThreePlaces DEF PlaceNames
<1>1. BackupShapes
    BY DEF BackupsInv
<1>2. /\ run[r].at = "dumping" /\ Goes(r, "mirroring") /\ UNCHANGED <<started, proven, done, brought, lapped>>
      /\ IF run[r].dump \in Here("disk")
         THEN copies' = Written("disk", run[r].dump, "whole") ELSE UNCHANGED copies
    BY DEF Dumped, Restarts
<1> PICK d : d = [at |-> "mirroring", dump |-> run[r].dump, old |-> run[r].old]
    OBVIOUS
<1>3. d \in RunState /\ run' = [run EXCEPT ![r] = d]
    BY <1>1, <1>2, GoesTo DEF RunSteps
<1>4. d.at = "mirroring" /\ d.dump = run[r].dump /\ d.old = run[r].old
    OBVIOUS
<1>5. /\ copies' = [q \in Places |-> copies'[q]]
      /\ Here("disk")' = Here("disk") /\ WholeIn("disk") \subseteq WholeIn("disk")'
      /\ run[r].dump \in Here("disk") => run[r].dump \in WholeIn("disk")'
      /\ \A q \in Places \ {"disk"} : Here(q)' = Here(q) /\ WholeIn(q)' = WholeIn(q)
  <2>1. CASE run[r].dump \in Here("disk")
    <3>1. copies' = Written("disk", run[r].dump, "whole")
        BY <1>2, <2>1
    <3>2. /\ copies' = [q \in Places |-> copies'[q]]
          /\ Here("disk")' = Here("disk") \cup {run[r].dump}
          /\ WholeIn("disk")' = WholeIn("disk") \cup {run[r].dump}
          /\ \A q \in Places \ {"disk"} : Here(q)' = Here(q) /\ WholeIn(q)' = WholeIn(q)
        BY <1>1, <3>1, WrittenThere, RunFacts
    <3> QED
        BY <2>1, <3>2
  <2>2. CASE run[r].dump \notin Here("disk")
      BY <1>1, <1>2, <2>2, FilesAsBefore, RunFacts
  <2> QED
      BY <2>1, <2>2
<1>6. /\ BackupShapes' /\ run'[r] = d
      /\ \A q \in Runners \ {r} : run'[q] = run[q]
  <2>1. \A p \in Places : Here(p)' \subseteq 1..started
      BY <1>1, <1>5, RunFacts
  <2>2. \A n \in d.old : n \in Nat /\ n + Keep <= started
      BY <1>1, <1>4, RunFacts
  <2> QED
      BY <1>1, <1>2, <1>3, <1>4, <1>5, <2>1, <2>2, RunsOn DEF Proving
<1>7. ASSUME ~lapped' PROVE CopiesStand'
  <2>1. CopiesStand
      BY <1>2, <1>7 DEF BackupsInv
  <2>2. DumpStands(run[r])
      BY <2>1 DEF CopiesStand
  <2>3. DumpStands(d)'
    <3>1. /\ started < d.dump + Keep /\ d.dump # proven /\ d.dump # done
          /\ d.dump \notin Here("storage") /\ d.dump \in WholeIn("disk")'
        BY <1>2, <1>4, <1>5, <2>2 DEF DumpStands, Unproven
    <3> QED
        BY <1>2, <1>4, <1>5, <3>1 DEF DumpStands, Mirrored, Proving
  <2>4. ASSUME NEW q \in Runners \ {r} PROVE DumpStands(run[q])'
    <3>1. ASSUME run[q].at # "resting" PROVE Spared(q)
      <4>1. /\ started' < run[q].dump + Keep
            /\ run[q].at \in Unproven => run[q].dump # proven' /\ run[q].dump # done'
          BY <1>2, <2>1, <3>1 DEF CopiesStand, DumpStands
      <4> QED
          BY <1>5, <4>1 DEF Spared
    <3> QED
        BY <1>2, <1>6, <2>1, <3>1, OthersStand DEF CopiesStand
  <2>5. \A q \in Runners : DumpStands(run[q])'
      BY <1>6, <2>3, <2>4
  <2> QED
      BY <1>2, <1>5, <2>1, <2>5 DEF CopiesStand
<1> QED
    BY <1>6, <1>7 DEF BackupsInv

\* A run that ends, well or not, leaves the dumps of the others alone.
LEMMA StopsHolds ==
    ASSUME BackupShapes, NEW r \in Runners, Stops(r), UNCHANGED started,
           copies' = [p \in Places |-> copies'[p]], \A p \in Places : Here(p)' \subseteq 1..started,
           proven' \in Nat, done' \in Nat, proven <= proven', done' <= proven', proven' <= started
    PROVE  /\ BackupShapes' /\ run'[r] = Resting
           /\ \A q \in Runners \ {r} : run'[q] = run[q]
           /\ DumpStands(run[r])'
<1>1. RunFits(Resting)'
    BY DEF RunFits, Resting, Proving
<1>2. Resting \in RunState /\ Resting.at = "resting" /\ started' \in Nat /\ started <= started'
    BY RunFacts
<1>3. /\ BackupShapes' /\ run'[r] = Resting
      /\ \A q \in Runners \ {r} : run'[q] = run[q]
    BY <1>1, <1>2, OneRuns DEF Stops
<1>4. DumpStands(Resting)'
    BY <1>2 DEF DumpStands
<1> QED
    BY <1>3, <1>4

LEMMA MirrorsHolds ==
    ASSUME BackupsInv, NEW r \in Runners, Mirrors(r)
    PROVE  BackupsInv'
<1> USE ThreePlaces DEF PlaceNames
<1>1. BackupShapes
    BY DEF BackupsInv
<1> PICK n : n = run[r].dump
    OBVIOUS
<1>2. /\ run[r].at = "mirroring" /\ n \in Here("disk")
      /\ UNCHANGED <<started, proven, done, brought, lapped>>
      /\ \/ copies' = Written("mirror", n, copies["disk"][n]) /\ Goes(r, "uploading")
         \/ copies' = Written("mirror", n, "cut") /\ Stops(r)
    BY DEF Mirrors, Restarts
<1>3. /\ copies' = [q \in Places |-> copies'[q]]
      /\ Here("mirror")' = Here("mirror") \cup {n}
      /\ \A q \in Places \ {"mirror"} : Here(q)' = Here(q) /\ WholeIn(q)' = WholeIn(q)
      /\ \A m : m # n => (m \in WholeIn("mirror")' <=> m \in WholeIn("mirror"))
      /\ copies' = Written("mirror", n, copies["disk"][n]) /\ n \in WholeIn("disk")
            => n \in WholeIn("mirror")'
  <2>1. ASSUME NEW state, copies' = Written("mirror", n, state)
        PROVE  /\ copies' = [q \in Places |-> copies'[q]]
               /\ Here("mirror")' = Here("mirror") \cup {n}
               /\ \A q \in Places \ {"mirror"} : Here(q)' = Here(q) /\ WholeIn(q)' = WholeIn(q)
               /\ \A m : m # n => (m \in WholeIn("mirror")' <=> m \in WholeIn("mirror"))
               /\ state = "whole" => n \in WholeIn("mirror")'
    <3>1. /\ copies' = [q \in Places |-> copies'[q]]
          /\ Here("mirror")' = Here("mirror") \cup {n}
          /\ state = "whole" => WholeIn("mirror")' = WholeIn("mirror") \cup {n}
          /\ state # "whole" => WholeIn("mirror")' = WholeIn("mirror") \ {n}
          /\ \A q \in Places \ {"mirror"} : Here(q)' = Here(q) /\ WholeIn(q)' = WholeIn(q)
        BY <1>1, <2>1, WrittenThere, RunFacts
    <3> QED
        BY <3>1
  <2>2. n \in WholeIn("disk") => copies["disk"][n] = "whole"
      BY DEF WholeIn
  <2> QED
      BY <1>2, <2>1, <2>2
<1>4. \A p \in Places : Here(p)' \subseteq 1..started
  <2>1. n \in 1..started
      BY <1>1, <1>2, RunFacts
  <2> QED
      BY <1>1, <1>3, <2>1, RunFacts
<1>5. ASSUME NEW q \in Runners \ {r}, CopiesStand, ~lapped, run'[q] = run[q]
      PROVE  DumpStands(run[q])'
  <2>1. ASSUME run[q].at # "resting" PROVE Spared(q)
    <3>1. /\ started' < run[q].dump + Keep
          /\ run[q].at \in Unproven => run[q].dump # proven' /\ run[q].dump # done'
        BY <1>2, <1>5, <2>1 DEF CopiesStand, DumpStands
    <3>2. run[q].dump # n
        BY <1>1, <2>1, RunFacts
    <3> QED
        BY <1>3, <3>1, <3>2 DEF Spared
  <2> QED
      BY <1>2, <1>5, <2>1, OthersStand DEF CopiesStand
<1>6. ASSUME CopiesStand, ~lapped
      PROVE  /\ proven' # 0 => proven' \in WholeIn("storage")'
             /\ done' # 0 => done' \in WholeIn("mirror")'
             /\ done' # 0 /\ ~brought' => \E m \in WholeIn("disk")' : m >= done'
  <2>1. DumpStands(run[r])
      BY <1>6 DEF CopiesStand
  <2>2. n # done
      BY <1>2, <2>1 DEF DumpStands, Unproven
  <2> QED
      BY <1>2, <1>3, <1>6, <2>2 DEF CopiesStand
<1>7. CASE copies' = Written("mirror", n, copies["disk"][n]) /\ Goes(r, "uploading")
  <2> PICK d : d = [at |-> "uploading", dump |-> run[r].dump, old |-> run[r].old]
      OBVIOUS
  <2>1. d \in RunState /\ run' = [run EXCEPT ![r] = d]
      BY <1>1, <1>7, GoesTo DEF RunSteps
  <2>2. d.at = "uploading" /\ d.dump = n /\ d.old = run[r].old
      OBVIOUS
  <2>3. /\ BackupShapes' /\ run'[r] = d
        /\ \A q \in Runners \ {r} : run'[q] = run[q]
    <3>1. \A m \in d.old : m \in Nat /\ m + Keep <= started
        BY <1>1, <2>2, RunFacts
    <3> QED
        BY <1>1, <1>2, <1>3, <1>4, <2>1, <2>2, <3>1, RunsOn DEF Proving
  <2>4. ASSUME ~lapped', CopiesStand PROVE DumpStands(run[r])'
    <3>1. DumpStands(run[r])
        BY <2>4 DEF CopiesStand
    <3>2. started < n + Keep /\ n # proven /\ n # done /\ n \in WholeIn("disk")
        BY <1>2, <3>1 DEF DumpStands, Unproven
    <3>3. n \in WholeIn("mirror")' /\ n \in WholeIn("disk")'
        BY <1>3, <1>7, <3>2
    <3>4. DumpStands(d)'
        BY <1>2, <2>2, <3>2, <3>3 DEF DumpStands
    <3> QED
        BY <2>3, <3>4
  <2> QED
      BY <1>2, <1>5, <1>6, <2>3, <2>4 DEF BackupsInv, CopiesStand
<1>8. CASE copies' = Written("mirror", n, "cut") /\ Stops(r)
  <2>1. /\ BackupShapes' /\ run'[r] = Resting
        /\ \A q \in Runners \ {r} : run'[q] = run[q]
        /\ DumpStands(run[r])'
    <3>1. /\ UNCHANGED started
          /\ proven' \in Nat /\ done' \in Nat /\ proven <= proven' /\ done' <= proven' /\ proven' <= started
        BY <1>1, <1>2, RunFacts
    <3> QED
        BY <1>1, <1>3, <1>4, <1>8, <3>1, StopsHolds
  <2> QED
      BY <1>2, <1>5, <1>6, <2>1 DEF BackupsInv, CopiesStand
<1> QED
    BY <1>2, <1>7, <1>8

LEMMA PutsHolds ==
    ASSUME BackupsInv, NEW r \in Runners, Puts(r)
    PROVE  BackupsInv'
<1> USE ThreePlaces DEF PlaceNames
<1>1. BackupShapes
    BY DEF BackupsInv
<1> PICK n : n = run[r].dump
    OBVIOUS
<1>2. /\ run[r].at = "uploading" /\ n \in Here("disk") /\ Goes(r, "readingBack")
      /\ UNCHANGED <<started, proven, done, brought, lapped>>
      /\ \E state : copies' = Written("storage", n, state)
    BY DEF Puts, Restarts
<1> PICK d : d = [at |-> "readingBack", dump |-> run[r].dump, old |-> run[r].old]
    OBVIOUS
<1>3. d \in RunState /\ run' = [run EXCEPT ![r] = d]
    BY <1>1, <1>2, GoesTo DEF RunSteps
<1>4. d.at = "readingBack" /\ d.dump = n /\ d.old = run[r].old
    OBVIOUS
<1>5. /\ copies' = [q \in Places |-> copies'[q]]
      /\ Here("storage")' = Here("storage") \cup {n}
      /\ \A m : m # n => (m \in WholeIn("storage")' <=> m \in WholeIn("storage"))
      /\ \A q \in Places \ {"storage"} : Here(q)' = Here(q) /\ WholeIn(q)' = WholeIn(q)
  <2> PICK state : copies' = Written("storage", n, state)
      BY <1>2
  <2>1. /\ copies' = [q \in Places |-> copies'[q]]
        /\ Here("storage")' = Here("storage") \cup {n}
        /\ state = "whole" => WholeIn("storage")' = WholeIn("storage") \cup {n}
        /\ state # "whole" => WholeIn("storage")' = WholeIn("storage") \ {n}
        /\ \A q \in Places \ {"storage"} : Here(q)' = Here(q) /\ WholeIn(q)' = WholeIn(q)
      BY <1>1, WrittenThere, RunFacts
  <2> QED
      BY <2>1
<1>6. /\ BackupShapes' /\ run'[r] = d
      /\ \A q \in Runners \ {r} : run'[q] = run[q]
  <2>1. \A p \in Places : Here(p)' \subseteq 1..started
    <3>1. n \in 1..started
        BY <1>1, <1>2, RunFacts
    <3> QED
        BY <1>1, <1>5, <3>1, RunFacts
  <2>2. \A m \in d.old : m \in Nat /\ m + Keep <= started
      BY <1>1, <1>4, RunFacts
  <2> QED
      BY <1>1, <1>2, <1>3, <1>4, <1>5, <2>1, <2>2, RunsOn DEF Proving
<1>7. ASSUME ~lapped' PROVE CopiesStand'
  <2>1. CopiesStand
      BY <1>2, <1>7 DEF BackupsInv
  <2>2. DumpStands(run[r])
      BY <2>1 DEF CopiesStand
  <2>3. DumpStands(d)' /\ n # proven
    <3>1. /\ started < n + Keep /\ n # proven /\ n # done
          /\ n \in WholeIn("mirror") /\ ~brought => n \in WholeIn("disk")
        BY <1>2, <2>2 DEF DumpStands, Unproven, Mirrored
    <3>2. n \in WholeIn("mirror")' /\ (~brought' => n \in WholeIn("disk")')
      <4>1. n \in WholeIn("mirror")
          BY <1>2, <2>2 DEF DumpStands, Mirrored
      <4> QED
          BY <1>2, <1>5, <3>1, <4>1
    <3> QED
        BY <1>2, <1>4, <3>1, <3>2 DEF DumpStands
  <2>4. ASSUME NEW q \in Runners \ {r} PROVE DumpStands(run[q])'
    <3>1. ASSUME run[q].at # "resting" PROVE Spared(q)
      <4>1. /\ started' < run[q].dump + Keep
            /\ run[q].at \in Unproven => run[q].dump # proven' /\ run[q].dump # done'
          BY <1>2, <2>1, <3>1 DEF CopiesStand, DumpStands
      <4>2. run[q].dump # n
          BY <1>1, <3>1, RunFacts
      <4> QED
          BY <1>5, <4>1, <4>2 DEF Spared
    <3> QED
        BY <1>2, <1>6, <2>1, <3>1, OthersStand DEF CopiesStand
  <2>5. \A q \in Runners : DumpStands(run[q])'
      BY <1>6, <2>3, <2>4
  <2> QED
      BY <1>2, <1>5, <2>1, <2>3, <2>5 DEF CopiesStand
<1> QED
    BY <1>6, <1>7 DEF BackupsInv

LEMMA ReadsBackHolds ==
    ASSUME BackupsInv, NEW r \in Runners, ReadsBack(r)
    PROVE  BackupsInv'
<1> USE ThreePlaces DEF PlaceNames
<1>1. BackupShapes
    BY DEF BackupsInv
<1> PICK n : n = run[r].dump
    OBVIOUS
<1>2. /\ run[r].at = "readingBack" /\ n \in WholeIn("storage") /\ proven' = Max({proven, n})
      /\ Goes(r, "listing") /\ UNCHANGED <<copies, started, done, brought, lapped>>
    BY DEF ReadsBack
<1> PICK d : d = [at |-> "listing", dump |-> run[r].dump, old |-> run[r].old]
    OBVIOUS
<1>3. d \in RunState /\ run' = [run EXCEPT ![r] = d]
    BY <1>1, <1>2, GoesTo DEF RunSteps
<1>4. d.at = "listing" /\ d.dump = n /\ d.old = run[r].old
    OBVIOUS
<1>5. /\ \A p \in Places : Here(p)' = Here(p) /\ WholeIn(p)' = WholeIn(p)
      /\ copies' = [q \in Places |-> copies'[q]]
    BY <1>1, <1>2, FilesAsBefore, RunFacts
<1>6. /\ n \in 1..started /\ n \in Nat /\ proven' \in {proven, n} /\ proven' >= proven /\ proven' >= n
      /\ proven' \in Nat /\ proven' <= started
  <2>1. n \in 1..started /\ n \in Nat /\ proven \in Nat /\ proven <= started
      BY <1>1, <1>2, RunFacts
  <2>2. proven' \in {proven, n} /\ proven' >= proven /\ proven' >= n
      BY <1>2, <2>1, NewestOfTwo
  <2> QED
      BY <2>1, <2>2
<1>7. /\ BackupShapes' /\ run'[r] = d
      /\ \A q \in Runners \ {r} : run'[q] = run[q]
  <2>1. RunFits(d)'
    <3>1. \A m \in d.old : m \in Nat /\ m + Keep <= started'
        BY <1>1, <1>2, <1>4, RunFacts
    <3> QED
        BY <1>2, <1>4, <1>6, <3>1 DEF RunFits, Resting
  <2>2. \A p \in Places : Here(p)' \subseteq 1..started'
      BY <1>1, <1>2, <1>5, RunFacts
  <2>3. /\ started' \in Nat /\ done' \in Nat /\ started <= started' /\ proven <= proven'
        /\ done' <= proven' /\ proven' <= started'
      BY <1>1, <1>2, <1>6, RunFacts
  <2> QED
      BY <1>1, <1>2, <1>3, <1>4, <1>5, <1>6, <2>1, <2>2, <2>3, OneRuns
<1>8. ASSUME ~lapped' PROVE CopiesStand'
  <2>1. CopiesStand
      BY <1>2, <1>8 DEF BackupsInv
  <2>2. DumpStands(run[r])
      BY <2>1 DEF CopiesStand
  <2>3. DumpStands(d)'
    <3>1. /\ started < n + Keep /\ n \in WholeIn("mirror")
          /\ ~brought => n \in WholeIn("disk")
        BY <1>2, <2>2 DEF DumpStands, Mirrored
    <3> QED
        BY <1>2, <1>4, <1>5, <3>1 DEF DumpStands, Unproven
  <2>4. ASSUME NEW q \in Runners \ {r} PROVE DumpStands(run[q])'
    <3>1. ASSUME run[q].at # "resting" PROVE Spared(q)
      <4>1. /\ started' < run[q].dump + Keep
            /\ run[q].at \in Unproven => run[q].dump # proven /\ run[q].dump # done'
          BY <1>2, <2>1, <3>1 DEF CopiesStand, DumpStands
      <4>2. run[q].dump # n
          BY <1>1, <3>1, RunFacts
      <4> QED
          BY <1>5, <1>6, <4>1, <4>2 DEF Spared
    <3> QED
        BY <1>2, <1>7, <2>1, <3>1, OthersStand DEF CopiesStand
  <2>5. \A q \in Runners : DumpStands(run[q])'
      BY <1>7, <2>3, <2>4
  <2>6. proven' # 0 => proven' \in WholeIn("storage")'
      BY <1>2, <1>5, <1>6, <2>1 DEF CopiesStand
  <2> QED
      BY <1>2, <1>5, <2>1, <2>5, <2>6 DEF CopiesStand
<1> QED
    BY <1>7, <1>8 DEF BackupsInv

\* A run that has listed, and goes on to remove, changes no copy and no mark.
LEMMA ListsHolds ==
    ASSUME BackupsInv, NEW r \in Runners, Lists(r)
    PROVE  BackupsInv'
<1> USE ThreePlaces DEF PlaceNames
<1>1. BackupShapes
    BY DEF BackupsInv
<1>2. UNCHANGED <<copies, started, proven, done, brought, lapped>>
    BY DEF Lists, Restarts
<1>3. PICK d \in RunState : /\ run' = [run EXCEPT ![r] = d] /\ d.dump = run[r].dump
                            /\ d.at \in {"removing", "unlinking"} /\ run[r].at \in {"listing", "pruning"}
                            /\ \A m \in d.old : m \in Nat /\ m + Keep <= started
  <2>1. run \in [Runners -> RunState] /\ started \in Nat /\ run[r] \in RunState
      BY <1>1, RunFacts
  <2>2. PICK step \in {"removing", "unlinking"}, p \in Places :
           /\ run[r].at \in {"listing", "pruning"}
           /\ run' = [run EXCEPT ![r].at = step, ![r].old = Expired(Here(p))]
      BY DEF Lists
  <2>3. PICK old : old = Expired(Here(p))
      OBVIOUS
  <2>4. Here(p) \in SUBSET (1..started)
      BY <1>1, RunFacts
  <2>5. \A m \in old : m \in Nat /\ m + Keep <= started
      BY <2>1, <2>3, <2>4, ExpiredAreOld
  <2>6. PICK x \in RunState : x = run[r]
      BY <2>1
  <2>7. step \in RunSteps /\ old \in SUBSET Nat
      BY <2>5 DEF RunSteps
  <2>8. PICK y : y = [x EXCEPT !.at = step, !.old = old]
      OBVIOUS
  <2>9. y \in RunState /\ y.at = step /\ y.dump = x.dump /\ y.old = old
      BY <2>6, <2>7, <2>8 DEF RunState
  <2>10. run' = [run EXCEPT ![r] = y]
      BY <2>1, <2>2, <2>3, <2>6, <2>8
  <2> QED
      BY <2>2, <2>5, <2>6, <2>9, <2>10
<1>4. /\ \A p \in Places : Here(p)' = Here(p) /\ WholeIn(p)' = WholeIn(p)
      /\ copies' = [q \in Places |-> copies'[q]] /\ \A p \in Places : Here(p)' \subseteq 1..started
    BY <1>1, <1>2, FilesAsBefore, RunFacts
<1>5. /\ BackupShapes' /\ run'[r] = d
      /\ \A q \in Runners \ {r} : run'[q] = run[q]
  <2>1. run[r].at # "resting" /\ d.at # "resting" /\ run[r].at \in Proving
      BY <1>3 DEF Proving
  <2> QED
      BY <1>1, <1>2, <1>3, <1>4, <2>1, RunsOn
<1>6. ASSUME ~lapped' PROVE CopiesStand'
  <2>1. CopiesStand
      BY <1>2, <1>6 DEF BackupsInv
  <2>2. DumpStands(d)'
    <3>1. DumpStands(run[r])
        BY <2>1 DEF CopiesStand
    <3> QED
        BY <1>2, <1>3, <1>4, <3>1 DEF DumpStands, Unproven, Mirrored, Proving
  <2>3. ASSUME NEW q \in Runners \ {r} PROVE DumpStands(run[q])'
      BY <1>2, <1>4, <1>5, <2>1 DEF CopiesStand, DumpStands
  <2>4. \A q \in Runners : DumpStands(run[q])'
      BY <1>5, <2>2, <2>3
  <2> QED
      BY <1>2, <1>4, <2>1, <2>4 DEF CopiesStand
<1> QED
    BY <1>5, <1>6 DEF BackupsInv

\* A name that goes belongs to no dump under way, and to none that was proven.
LEMMA RemovesHolds ==
    ASSUME BackupsInv, NEW r \in Runners, Removes(r)
    PROVE  BackupsInv'
<1> USE ThreePlaces DEF PlaceNames
<1>1. BackupShapes
    BY DEF BackupsInv
<1>2. PICK n \in run[r].old :
        /\ \/ run[r].at = "removing" /\ copies' = Without("storage", n)
           \/ run[r].at = "unlinking" /\ n \in Here("disk") /\ copies' = Without("disk", n)
        /\ run' = [run EXCEPT ![r].old = @ \ {n}]
        /\ UNCHANGED <<started, proven, done, brought, lapped>>
    BY DEF Removes, Restarts
<1>3. PICK place \in {"storage", "disk"} :
        copies' = Without(place, n) /\ run[r].at = (IF place = "disk" THEN "unlinking" ELSE "removing")
    BY <1>2
<1>4. PICK d \in RunState : /\ run' = [run EXCEPT ![r] = d] /\ d.dump = run[r].dump /\ d.at = run[r].at
                            /\ \A m \in d.old : m \in run[r].old
  <2>1. run \in [Runners -> RunState]
      BY <1>1, RunFacts
  <2>2. PICK x \in RunState : x = run[r]
      BY <2>1
  <2>3. [x EXCEPT !.old = x.old \ {n}] = [at |-> x.at, dump |-> x.dump, old |-> x.old \ {n}]
      BY <2>2 DEF RunState
  <2>4. run' = [run EXCEPT ![r] = [x EXCEPT !.old = x.old \ {n}]]
      BY <1>2, <2>1, <2>2
  <2>5. [at |-> x.at, dump |-> x.dump, old |-> x.old \ {n}] \in RunState
      BY <2>2 DEF RunState
  <2> QED
      BY <2>2, <2>3, <2>4, <2>5
<1>5. /\ copies' = [q \in Places |-> copies'[q]]
      /\ Here(place)' = Here(place) \ {n} /\ WholeIn(place)' = WholeIn(place) \ {n}
      /\ \A q \in Places \ {place} : Here(q)' = Here(q) /\ WholeIn(q)' = WholeIn(q)
    BY <1>1, <1>3, WithoutThere, RunFacts
<1>6. n \in Nat /\ n + Keep <= started /\ run[r].at # "resting" /\ run[r].at \in Proving
    BY <1>1, <1>3, RunFacts DEF Proving
<1>7. /\ BackupShapes' /\ run'[r] = d
      /\ \A q \in Runners \ {r} : run'[q] = run[q]
  <2>1. \A p \in Places : Here(p)' \subseteq 1..started
      BY <1>1, <1>5, RunFacts
  <2>2. \A m \in d.old : m \in Nat /\ m + Keep <= started
      BY <1>1, <1>4, RunFacts
  <2> QED
      BY <1>1, <1>2, <1>4, <1>5, <1>6, <2>1, <2>2, RunsOn
<1>8. ASSUME ~lapped' PROVE CopiesStand'
  <2>1. CopiesStand
      BY <1>2, <1>8 DEF BackupsInv
  <2>2. \A q \in Runners : run[q].at # "resting" => started < run[q].dump + Keep /\ n < run[q].dump
    <3>1. \A q \in Runners : run[q].at # "resting" => started < run[q].dump + Keep
        BY <2>1 DEF CopiesStand, DumpStands
    <3> QED
        BY <1>1, <1>6, <3>1, RunFacts
  <2>3. ASSUME NEW q \in Runners, run[q].at # "resting" PROVE Spared(q)
    <3>1. /\ started' < run[q].dump + Keep
          /\ run[q].at \in Unproven => run[q].dump # proven' /\ run[q].dump # done'
        BY <1>2, <2>1, <2>3 DEF CopiesStand, DumpStands
    <3>2. run[q].dump # n
        BY <1>1, <1>6, <2>2, <2>3, RunFacts
    <3>3. \A p \in Places : /\ run[q].dump \in Here(p)' <=> run[q].dump \in Here(p)
                            /\ run[q].dump \in WholeIn(p)' <=> run[q].dump \in WholeIn(p)
        BY <1>5, <3>2
    <3> QED
        BY <3>1, <3>3 DEF Spared
  <2>4. ASSUME NEW q \in Runners \ {r} PROVE DumpStands(run[q])'
      BY <1>2, <1>7, <2>1, <2>3, OthersStand DEF CopiesStand
  <2>5. DumpStands(d)'
    <3>1. DumpStands(run[r]) /\ Spared(r)
        BY <1>6, <2>1, <2>3 DEF CopiesStand
    <3> QED
        BY <1>2, <1>4, <1>6, <3>1 DEF DumpStands, Spared, Unproven, Mirrored, Proving
  <2>6. \A q \in Runners : DumpStands(run[q])'
      BY <1>7, <2>4, <2>5
  <2>7. proven # 0 => proven \in WholeIn("storage")'
    <3>1. n < proven
      <4>1. run[r].dump <= proven /\ n < run[r].dump
          BY <1>1, <1>6, <2>2, RunFacts
      <4> QED
          BY <1>1, <1>6, <4>1, RunFacts
    <3>2. n # proven
        BY <1>1, <1>6, <3>1, RunFacts
    <3> QED
        BY <1>5, <2>1, <3>2 DEF CopiesStand
  <2>8. done # 0 => done \in WholeIn("mirror")'
      BY <1>5, <2>1 DEF CopiesStand
  <2>9. ASSUME done # 0, ~brought PROVE \E m \in WholeIn("disk")' : m >= done
    <3>1. PICK m \in WholeIn("disk") : m >= done
        BY <2>1, <2>9 DEF CopiesStand
    <3>2. CASE place = "disk" /\ m = n
      <4>1. DumpStands(run[r]) /\ Spared(r)
          BY <1>6, <2>1, <2>3 DEF CopiesStand
      <4>2. run[r].dump \in WholeIn("disk")'
          BY <1>2, <1>6, <2>9, <4>1 DEF DumpStands, Spared, Mirrored
      <4>3. run[r].dump >= done
          BY <1>1, <1>6, <2>2, <3>1, <3>2, RunFacts
      <4> QED
          BY <4>2, <4>3
    <3>3. CASE ~(place = "disk" /\ m = n)
        BY <1>5, <3>1, <3>3
    <3> QED
        BY <3>2, <3>3
  <2> QED
      BY <1>2, <2>6, <2>7, <2>8, <2>9 DEF CopiesStand
<1> QED
    BY <1>7, <1>8 DEF BackupsInv

LEMMA FinishesHolds ==
    ASSUME BackupsInv, NEW r \in Runners, Finishes(r)
    PROVE  BackupsInv'
<1> USE ThreePlaces DEF PlaceNames
<1>1. BackupShapes
    BY DEF BackupsInv
<1> PICK n : n = run[r].dump
    OBVIOUS
<1>2. /\ UNCHANGED <<copies, started, proven, brought, lapped>>
      /\ \/ run[r].at = "removing" /\ Goes(r, "pruning") /\ UNCHANGED done
         \/ run[r].at = "unlinking" /\ Stops(r) /\ done' = Max({done, n})
    BY DEF Finishes
<1>3. /\ \A p \in Places : Here(p)' = Here(p) /\ WholeIn(p)' = WholeIn(p)
      /\ copies' = [q \in Places |-> copies'[q]] /\ \A p \in Places : Here(p)' \subseteq 1..started
    BY <1>1, <1>2, FilesAsBefore, RunFacts
<1>4. CASE run[r].at = "removing" /\ Goes(r, "pruning") /\ UNCHANGED done
  <2> PICK d : d = [at |-> "pruning", dump |-> run[r].dump, old |-> run[r].old]
      OBVIOUS
  <2>1. d \in RunState /\ run' = [run EXCEPT ![r] = d]
      BY <1>1, <1>4, GoesTo DEF RunSteps
  <2>2. d.at = "pruning" /\ d.dump = n /\ d.old = run[r].old
      OBVIOUS
  <2>3. /\ BackupShapes' /\ run'[r] = d
        /\ \A q \in Runners \ {r} : run'[q] = run[q]
    <3>1. \A m \in d.old : m \in Nat /\ m + Keep <= started
        BY <1>1, <2>2, RunFacts
    <3>2. /\ UNCHANGED <<started, proven, done>>
          /\ run[r].at # "resting" /\ d.at # "resting" /\ d.dump = run[r].dump
        BY <1>2, <1>4, <2>2
    <3>3. d.at \in Proving => run[r].at \in Proving
        BY <1>4 DEF Proving
    <3> QED
        BY <1>1, <1>3, <2>1, <3>1, <3>2, <3>3, RunsOn
  <2>4. ASSUME ~lapped' PROVE CopiesStand'
    <3>1. CopiesStand
        BY <1>2, <2>4 DEF BackupsInv
    <3>2. DumpStands(d)'
      <4>1. DumpStands(run[r])
          BY <3>1 DEF CopiesStand
      <4> QED
          BY <1>2, <1>3, <1>4, <2>2, <4>1 DEF DumpStands, Unproven, Mirrored, Proving
    <3>3. ASSUME NEW q \in Runners \ {r} PROVE DumpStands(run[q])'
        BY <1>2, <1>3, <1>4, <2>3, <3>1 DEF CopiesStand, DumpStands
    <3>4. \A q \in Runners : DumpStands(run[q])'
        BY <2>3, <3>2, <3>3
    <3> QED
        BY <1>2, <1>3, <1>4, <3>1, <3>4 DEF CopiesStand
  <2> QED
      BY <2>3, <2>4 DEF BackupsInv
<1>5. CASE run[r].at = "unlinking" /\ Stops(r) /\ done' = Max({done, n})
  <2>1. n \in Nat /\ n <= proven /\ done \in Nat /\ done <= proven /\ n \in 1..started
      BY <1>1, <1>5, RunFacts DEF Proving
  <2>2. done' \in {done, n} /\ done' >= done /\ done' >= n
      BY <1>5, <2>1, NewestOfTwo
  <2>3. /\ BackupShapes' /\ run'[r] = Resting
        /\ \A q \in Runners \ {r} : run'[q] = run[q]
        /\ DumpStands(run[r])'
    <3>1. /\ UNCHANGED started
          /\ proven' \in Nat /\ done' \in Nat /\ proven <= proven' /\ done' <= proven' /\ proven' <= started
        BY <1>1, <1>2, <2>1, <2>2, RunFacts
    <3> QED
        BY <1>1, <1>3, <1>5, <3>1, StopsHolds
  <2>4. ASSUME ~lapped' PROVE CopiesStand'
    <3>1. CopiesStand
        BY <1>2, <2>4 DEF BackupsInv
    <3>2. ASSUME NEW q \in Runners \ {r} PROVE DumpStands(run[q])'
      <4>1. ASSUME run[q].at # "resting" PROVE Spared(q)
        <5>1. /\ started' < run[q].dump + Keep
              /\ run[q].at \in Unproven => run[q].dump # proven' /\ run[q].dump # done
            BY <1>2, <3>1, <4>1 DEF CopiesStand, DumpStands
        <5>2. run[q].dump # n
            BY <1>1, <4>1, RunFacts
        <5> QED
            BY <1>3, <2>2, <5>1, <5>2 DEF Spared
      <4> QED
          BY <1>2, <2>3, <3>1, <4>1, OthersStand DEF CopiesStand
    <3>3. \A q \in Runners : DumpStands(run[q])'
        BY <2>3, <3>2
    <3>4. n \in WholeIn("mirror")' /\ (~brought => n \in WholeIn("disk")')
      <4>1. DumpStands(run[r])
          BY <3>1 DEF CopiesStand
      <4> QED
          BY <1>3, <1>5, <4>1 DEF DumpStands, Mirrored, Proving
    <3>5. done' # 0 => done' \in WholeIn("mirror")'
        BY <1>3, <2>2, <3>1, <3>4 DEF CopiesStand
    <3>6. ASSUME done' # 0, ~brought' PROVE \E m \in WholeIn("disk")' : m >= done'
      <4>1. CASE done' = n
          BY <1>2, <2>1, <3>4, <3>6, <4>1
      <4>2. CASE done' = done
          BY <1>2, <1>3, <3>1, <3>6, <4>2 DEF CopiesStand
      <4> QED
          BY <2>2, <4>1, <4>2
    <3> QED
        BY <1>2, <1>3, <3>1, <3>3, <3>5, <3>6 DEF CopiesStand
  <2> QED
      BY <2>3, <2>4 DEF BackupsInv
<1> QED
    BY <1>2, <1>4, <1>5

LEMMA FailsHolds ==
    ASSUME BackupsInv, NEW r \in Runners, Fails(r)
    PROVE  BackupsInv'
<1> USE ThreePlaces DEF PlaceNames
<1>1. BackupShapes
    BY DEF BackupsInv
<1>2. Stops(r) /\ UNCHANGED <<copies, started, proven, done, brought, lapped>>
    BY DEF Fails, Restarts
<1>3. /\ \A p \in Places : Here(p)' = Here(p) /\ WholeIn(p)' = WholeIn(p)
      /\ copies' = [q \in Places |-> copies'[q]] /\ \A p \in Places : Here(p)' \subseteq 1..started
    BY <1>1, <1>2, FilesAsBefore, RunFacts
<1>4. /\ BackupShapes' /\ run'[r] = Resting
      /\ \A q \in Runners \ {r} : run'[q] = run[q]
      /\ DumpStands(run[r])'
  <2>1. /\ UNCHANGED started
        /\ proven' \in Nat /\ done' \in Nat /\ proven <= proven' /\ done' <= proven' /\ proven' <= started
      BY <1>1, <1>2, RunFacts
  <2> QED
      BY <1>1, <1>2, <1>3, <2>1, StopsHolds
<1>5. ASSUME ~lapped' PROVE CopiesStand'
  <2>1. CopiesStand
      BY <1>2, <1>5 DEF BackupsInv
  <2>2. ASSUME NEW q \in Runners \ {r} PROVE DumpStands(run[q])'
      BY <1>2, <1>3, <1>4, <2>1 DEF CopiesStand, DumpStands
  <2>3. \A q \in Runners : DumpStands(run[q])'
      BY <1>4, <2>2
  <2> QED
      BY <1>2, <1>3, <2>1, <2>3 DEF CopiesStand
<1> QED
    BY <1>4, <1>5 DEF BackupsInv

\* What is brought back is the newest of the storage, and no dump on its way is there.
LEMMA PullsHolds ==
    ASSUME BackupsInv, NEW r \in Runners, Pulls(r)
    PROVE  BackupsInv'
<1> USE ThreePlaces DEF PlaceNames
<1>1. BackupShapes
    BY DEF BackupsInv
<1> PICK n : n = Max(Here("storage"))
    OBVIOUS
<1>2. /\ Here("storage") # {} /\ brought' = TRUE /\ UNCHANGED <<started, run, proven, done, lapped>>
      /\ \E state : copies' = Written("disk", n, state)
    BY DEF Pulls
<1>3. n \in Here("storage") /\ n \in 1..started
  <2>1. Here("storage") \in SUBSET (1..started) /\ started \in Nat
      BY <1>1, RunFacts
  <2>2. Max(Here("storage")) \in Here("storage")
      BY <1>2, <2>1, NewestIsThere
  <2> QED
      BY <2>1, <2>2
<1>4. /\ copies' = [q \in Places |-> copies'[q]]
      /\ Here("disk")' = Here("disk") \cup {n}
      /\ \A m : m # n => (m \in WholeIn("disk")' <=> m \in WholeIn("disk"))
      /\ \A q \in Places \ {"disk"} : Here(q)' = Here(q) /\ WholeIn(q)' = WholeIn(q)
  <2> PICK state : copies' = Written("disk", n, state)
      BY <1>2
  <2>1. /\ copies' = [q \in Places |-> copies'[q]]
        /\ Here("disk")' = Here("disk") \cup {n}
        /\ state = "whole" => WholeIn("disk")' = WholeIn("disk") \cup {n}
        /\ state # "whole" => WholeIn("disk")' = WholeIn("disk") \ {n}
        /\ \A q \in Places \ {"disk"} : Here(q)' = Here(q) /\ WholeIn(q)' = WholeIn(q)
      BY <1>1, WrittenThere, RunFacts
  <2> QED
      BY <2>1
<1>5. BackupShapes'
  <2>1. \A p \in Places : Here(p)' \subseteq 1..started
      BY <1>1, <1>3, <1>4, RunFacts
  <2> QED
      BY <1>1, <1>2, <1>4, <2>1 DEF BackupShapes, RunFits
<1>6. ASSUME ~lapped' PROVE CopiesStand'
  <2>1. CopiesStand
      BY <1>2, <1>6 DEF BackupsInv
  <2>2. ASSUME NEW q \in Runners PROVE DumpStands(run[q])'
    <3>1. ASSUME run[q].at # "resting" PROVE Spared(q)
      <4>1. /\ started' < run[q].dump + Keep
            /\ run[q].at \in Unproven => run[q].dump # proven' /\ run[q].dump # done'
          BY <1>2, <2>1, <3>1 DEF CopiesStand, DumpStands
      <4> QED
          BY <1>2, <1>3, <1>4, <4>1 DEF Spared
    <3> QED
        BY <1>2, <2>1, <3>1, OthersStand DEF CopiesStand
  <2> QED
      BY <1>2, <1>4, <2>1, <2>2 DEF CopiesStand
<1> QED
    BY <1>5, <1>6 DEF BackupsInv

LEMMA BackupsStepHolds == BackupsInv /\ [BackupsNext]_backupsVars => BackupsInv'
<1> SUFFICES ASSUME BackupsInv, [BackupsNext]_backupsVars PROVE BackupsInv'
    OBVIOUS
<1>1. CASE UNCHANGED backupsVars
  <2>1. UNCHANGED <<copies, started, run, proven, done, brought, lapped>>
      BY <1>1 DEF backupsVars
  <2>2. BackupShapes' <=> BackupShapes
      BY <2>1 DEF BackupShapes, RunFits, Here
  <2>3. CopiesStand' <=> CopiesStand
      BY <2>1 DEF CopiesStand, DumpStands, Here, WholeIn
  <2> QED
      BY <2>1, <2>2, <2>3 DEF BackupsInv
<1>2. ASSUME NEW r \in Runners,
             \/ Creates(r) \/ Dumped(r) \/ Mirrors(r) \/ Puts(r) \/ ReadsBack(r) \/ Lists(r)
             \/ Removes(r) \/ Finishes(r) \/ Fails(r) \/ Pulls(r)
      PROVE  BackupsInv'
    BY <1>2, CreatesHolds, DumpedHolds, MirrorsHolds, PutsHolds, ReadsBackHolds, ListsHolds,
       RemovesHolds, FinishesHolds, FailsHolds, PullsHolds
<1> QED
    BY <1>1, <1>2 DEF BackupsNext

LEMMA BackupsAlwaysHold == BackupsSpec => []BackupsInv
<1>1. BackupsInit => BackupsInv
    BY BackupsInitHolds
<1>2. BackupsInv /\ [BackupsNext]_backupsVars => BackupsInv'
    BY BackupsStepHolds
<1> QED
    BY <1>1, <1>2, PTL DEF BackupsSpec

\* A dump that was proven, or whose run has ended well, was started.
THEOREM BackupTypes == BackupsSpec => []BackupsTypeOK
<1>1. BackupsInv => BackupsTypeOK
  <2> SUFFICES ASSUME BackupShapes PROVE BackupsTypeOK
      BY DEF BackupsInv
  <2>1. DOMAIN copies = Places
      BY DEF BackupShapes
  <2> QED
      BY <2>1 DEF BackupShapes, BackupsTypeOK
<1> QED
    BY <1>1, BackupsAlwaysHold, PTL

\* Once a dump was read back from the storage it stays there whole, and once its
\* run has ended well one at least as new is on the disk and on the mirror, for
\* any number of commands at once, however they fail; while fewer than Keep dumps
\* start during a run, and for the disk while nothing was brought back over it.
THEOREM CopyAlwaysRemains == BackupsSpec => []CopyRemains
<1>1. BackupsInv => CopyRemains
  <2> SUFFICES ASSUME BackupShapes, CopiesStand PROVE CopyRemains
      BY DEF BackupsInv, CopyRemains
  <2>1. proven # 0 => proven \in WholeIn("storage") /\ proven >= proven
      BY RunFacts DEF CopiesStand
  <2> QED
      BY <2>1 DEF CopiesStand, CopyRemains
<1> QED
    BY <1>1, BackupsAlwaysHold, PTL

-----------------------------------------------------------------------------
(***************************************************************************)
(* The catalogue.  A request that was found in order carries barcodes that *)
(* are on no other product, and on none that any other request carries,    *)
(* unless two with one barcode overlapped.  A plan writes its rows one     *)
(* after another; what stays true from row to row is that the codes of the *)
(* rows still to come are on no product but theirs.                        *)
(***************************************************************************)
Steps == [row : Rows, id : Nat]
Edits == [id : Nat, name : Names \cup {""}, barcode : {0} \cup Barcodes]

CodesApart(catalogue) ==
    \A i, j \in DOMAIN catalogue : i # j /\ catalogue[i].barcode # 0
                                     => catalogue[i].barcode # catalogue[j].barcode
OnlyOn(catalogue, barcode, id) ==
    barcode # 0 => \A i \in DOMAIN catalogue : catalogue[i].barcode = barcode => i = id

CodesOf(who) ==
    IF who \in Editors THEN {editing[who].barcode}
    ELSE {importing[who][k].row.barcode : k \in DOMAIN importing[who]}

\* A plan whose products are there, and one that writes no barcode twice.
PlanFits(plan, catalogue) == \A k \in DOMAIN plan : plan[k].id \in {0} \cup DOMAIN catalogue
PlanIsApart(plan, catalogue) ==
    /\ \A k \in DOMAIN plan : OnlyOn(catalogue, plan[k].row.barcode, plan[k].id)
    /\ \A k, l \in DOMAIN plan : k # l /\ plan[k].row.barcode # 0
                                   => plan[k].row.barcode # plan[l].row.barcode

CatalogueShapes ==
    /\ products \in Seq(Rows)
    /\ editing \in [Editors -> Edits]
    /\ \A e \in Editors : editing[e].id \in {0} \cup Ids
    /\ \A e \in Editors : editing[e] # NoEdit => editing[e].name \in Names
    /\ importing \in [Importers -> Seq(Steps)]
    /\ \A m \in Importers : PlanFits(importing[m], products)

CodesStayApart ==
    /\ CodesApart(products)
    /\ \A e \in Editors : OnlyOn(products, editing[e].barcode, editing[e].id)
    /\ \A m \in Importers : PlanIsApart(importing[m], products)
    /\ \A w, v \in Editors \cup Importers : w # v => CodesOf(w) \cap CodesOf(v) \subseteq {0}

CatalogueInv == CatalogueShapes /\ (sameCode \/ CodesStayApart)


-----------------------------------------------------------------------------
(* Rows of a plan, one after another. *)
ApplyStep(plan, g, n) == IF n = 0 THEN products ELSE ImportRow(g[n - 1], plan[n])
AppliesUpTo(plan, g) == g = [n \in 0..Len(plan) |-> ApplyStep(plan, g, n)]

LEMMA AppliedByRecursion ==
    ASSUME NEW plan
    PROVE  Applied(plan) = (CHOOSE g : AppliesUpTo(plan, g))[Len(plan)]
BY DEF Applied, AppliesUpTo, ApplyStep

LEMMA AppliedHasFunction ==
    ASSUME NEW plan, Len(plan) \in Nat
    PROVE  \E g : AppliesUpTo(plan, g)
<1> DEFINE Upto(g, m) == /\ g = [n \in 0..Len(plan) |-> g[n]]
                         /\ \A n \in 0..Len(plan) : n <= m => g[n] = ApplyStep(plan, g, n)
           N == {m \in Nat : \E g : Upto(g, m)}
<1>1. 0 \in N
  <2> DEFINE g == [n \in 0..Len(plan) |-> products]
  <2>1. Upto(g, 0)
      BY DEF ApplyStep
  <2> QED
      BY <2>1
<1>2. ASSUME NEW m \in Nat, m \in N
      PROVE  m + 1 \in N
  <2>1. PICK g : Upto(g, m)
      BY <1>2
  <2> DEFINE h == [n \in 0..Len(plan) |-> IF n <= m THEN g[n] ELSE ApplyStep(plan, g, n)]
  <2>2. \A n \in 0..Len(plan) : h[n] = IF n <= m THEN g[n] ELSE ApplyStep(plan, g, n)
      OBVIOUS
  <2>3. h = [n \in 0..Len(plan) |-> h[n]]
      OBVIOUS
  <2> HIDE DEF h
  <2>4. ASSUME NEW n \in 0..Len(plan), n <= m + 1
        PROVE  h[n] = ApplyStep(plan, h, n)
    <3>1. h[n] = ApplyStep(plan, g, n)
        BY <2>1, <2>2, <2>4
    <3>2. n # 0 => h[n - 1] = g[n - 1]
        BY <2>2, <2>4
    <3> QED
        BY <3>1, <3>2 DEF ApplyStep
  <2>5. Upto(h, m + 1)
      BY <2>3, <2>4
  <2> QED
      BY <2>5
<1> HIDE DEF N
<1>3. \A m \in Nat : m \in N
    BY <1>1, <1>2, NatSetInduction
<1>4. PICK g : Upto(g, Len(plan))
    BY <1>3 DEF N
<1>5. AppliesUpTo(plan, g)
    BY <1>4 DEF AppliesUpTo
<1> QED
    BY <1>5

LEMMA AppliedIsFunction ==
    ASSUME NEW plan, Len(plan) \in Nat
    PROVE  \E g : /\ Applied(plan) = g[Len(plan)]
                  /\ \A n \in 0..Len(plan) : g[n] = ApplyStep(plan, g, n)
<1> DEFINE g == CHOOSE g : AppliesUpTo(plan, g)
<1>1. AppliesUpTo(plan, g)
    BY AppliedHasFunction
<1>2. Applied(plan) = g[Len(plan)]
    BY AppliedByRecursion
<1> HIDE DEF g
<1>3. \A n \in 0..Len(plan) : g[n] = ApplyStep(plan, g, n)
    BY <1>1 DEF AppliesUpTo
<1> QED
    BY <1>2, <1>3

\* One row is written: over its product, or as a new one.
StepIsIn(c, step, d) ==
    /\ d \in Seq(Rows) /\ DOMAIN c \subseteq DOMAIN d
    /\ \A i \in DOMAIN d :
          \/ d[i] = step.row /\ (i = step.id \/ (i \notin DOMAIN c /\ step.id = 0))
          \/ i \in DOMAIN c /\ d[i] = c[i] /\ i # step.id
    /\ \A i, j \in DOMAIN d : i \notin DOMAIN c /\ j \notin DOMAIN c => i = j
    /\ \E i \in DOMAIN d : /\ d[i] = step.row
                           /\ i = step.id \/ (i \notin DOMAIN c /\ step.id = 0)

LEMMA RowIsWritten ==
    ASSUME NEW c \in Seq(Rows), NEW step \in Steps, step.id \in {0} \cup DOMAIN c
    PROVE  StepIsIn(c, step, ImportRow(c, step))
<1>0. PICK d : d = ImportRow(c, step)
    OBVIOUS
<1>1. step.row \in Rows /\ step.id \in Nat
    BY DEF Steps
<1>2. DOMAIN c = 1..Len(c) /\ Len(c) \in Nat /\ \A i \in 1..Len(c) : c[i] \in Rows
    OBVIOUS
<1>3. ASSUME step.id = 0
      PROVE  StepIsIn(c, step, d)
  <2>1. d = Append(c, step.row)
      BY <1>0, <1>3 DEF ImportRow
  <2>2. d \in Seq(Rows) /\ Len(d) = Len(c) + 1 /\ DOMAIN d = 1..(Len(c) + 1)
        /\ d[Len(c) + 1] = step.row /\ \A i \in 1..Len(c) : d[i] = c[i]
      BY <2>1, <1>1, <1>2
  <2> QED
      BY <2>2, <1>2, <1>3 DEF StepIsIn
<1>4. ASSUME step.id \in DOMAIN c
      PROVE  StepIsIn(c, step, d)
  <2>1. step.id # 0
      BY <1>2, <1>4
  <2>2. d = [c EXCEPT ![step.id] = step.row]
      BY <1>0, <2>1 DEF ImportRow
  <2>3. d \in Seq(Rows) /\ DOMAIN d = DOMAIN c
        /\ \A i \in DOMAIN c : d[i] = IF i = step.id THEN step.row ELSE c[i]
      BY <2>2, <1>1, <1>2, <1>4
  <2>4. step.id \in DOMAIN d /\ d[step.id] = step.row
      BY <1>4, <2>3
  <2> QED
      BY <2>3, <2>4 DEF StepIsIn
<1> QED
    BY <1>0, <1>3, <1>4

LEMMA RowKeepsApart ==
    ASSUME NEW c \in Seq(Rows), NEW step \in Steps, step.id \in {0} \cup DOMAIN c,
           CodesApart(c), OnlyOn(c, step.row.barcode, step.id)
    PROVE  /\ CodesApart(ImportRow(c, step))
           /\ \A barcode, id : barcode # step.row.barcode /\ OnlyOn(c, barcode, id)
                                 => OnlyOn(ImportRow(c, step), barcode, id)
<1>1. PICK d : d = ImportRow(c, step)
    OBVIOUS
<1>2. /\ \A i \in DOMAIN d :
            \/ d[i] = step.row /\ (i = step.id \/ (i \notin DOMAIN c /\ step.id = 0))
            \/ i \in DOMAIN c /\ d[i] = c[i] /\ i # step.id
      /\ \A i, j \in DOMAIN d : i \notin DOMAIN c /\ j \notin DOMAIN c => i = j
    BY <1>1, RowIsWritten DEF StepIsIn
<1>3. 0 \notin DOMAIN c
    OBVIOUS
<1>4. ASSUME NEW i \in DOMAIN d, NEW j \in DOMAIN d, i # j, d[i].barcode # 0
      PROVE  d[i].barcode # d[j].barcode
  <2>1. CASE d[i] = step.row /\ (i = step.id \/ (i \notin DOMAIN c /\ step.id = 0))
    <3>1. j \in DOMAIN c /\ d[j] = c[j] /\ j # step.id
        BY <1>2, <1>3, <1>4, <2>1
    <3> QED
        BY <3>1, <1>4, <2>1 DEF OnlyOn
  <2>2. CASE i \in DOMAIN c /\ d[i] = c[i] /\ i # step.id
    <3>1. CASE d[j] = step.row
        BY <3>1, <1>4, <2>2 DEF OnlyOn
    <3>2. CASE j \in DOMAIN c /\ d[j] = c[j]
        BY <3>2, <1>4, <2>2 DEF CodesApart
    <3> QED
        BY <3>1, <3>2, <1>2
  <2> QED
      BY <2>1, <2>2, <1>2
<1>5. ASSUME NEW barcode, NEW id, barcode # step.row.barcode, OnlyOn(c, barcode, id)
      PROVE  OnlyOn(d, barcode, id)
    BY <1>2, <1>5 DEF OnlyOn
<1>6. CodesApart(d)
    BY <1>4 DEF CodesApart
<1> QED
    BY <1>1, <1>5, <1>6

LEMMA PlanIsWritten ==
    ASSUME products \in Seq(Rows), NEW plan \in Seq(Steps), PlanFits(plan, products)
    PROVE  /\ Applied(plan) \in Seq(Rows) /\ Ids \subseteq DOMAIN Applied(plan)
           /\ CodesApart(products) /\ PlanIsApart(plan, products) =>
                /\ CodesApart(Applied(plan))
                /\ \A barcode, id : /\ \A k \in DOMAIN plan : plan[k].row.barcode # barcode
                                    /\ OnlyOn(products, barcode, id)
                                    => OnlyOn(Applied(plan), barcode, id)
<1>1. Len(plan) \in Nat /\ DOMAIN plan = 1..Len(plan) /\ \A n \in 1..Len(plan) : plan[n] \in Steps
    OBVIOUS
<1>2. PICK g : /\ Applied(plan) = g[Len(plan)]
               /\ \A n \in 0..Len(plan) : g[n] = ApplyStep(plan, g, n)
    BY <1>1, AppliedIsFunction
<1> DEFINE Sound == CodesApart(products) /\ PlanIsApart(plan, products)
           Shaped(n) == g[n] \in Seq(Rows) /\ Ids \subseteq DOMAIN g[n]
           Spares(n) == \A barcode, id : /\ \A k \in 1..n : plan[k].row.barcode # barcode
                                         /\ OnlyOn(products, barcode, id)
                                         => OnlyOn(g[n], barcode, id)
           N == {n \in Nat : n <= Len(plan) =>
                    Shaped(n) /\ (Sound => CodesApart(g[n]) /\ Spares(n))}
<1>3. 0 \in N
  <2>1. g[0] = products
      BY <1>1, <1>2 DEF ApplyStep
  <2> QED
      BY <2>1 DEF Ids
<1>4. ASSUME NEW n \in Nat, n \in N
      PROVE  n + 1 \in N
  <2> SUFFICES ASSUME n + 1 <= Len(plan)
               PROVE  Shaped(n + 1) /\ (Sound => CodesApart(g[n + 1]) /\ Spares(n + 1))
      OBVIOUS
  <2>1. n + 1 \in 0..Len(plan) /\ n + 1 \in 1..Len(plan) /\ n + 1 # 0 /\ (n + 1) - 1 = n
        /\ n <= Len(plan) /\ \A k \in 1..n : k \in 1..Len(plan) /\ k # n + 1 /\ k \in 1..(n + 1)
      BY <1>1
  <2>2. g[n + 1] = ImportRow(g[n], plan[n + 1])
      BY <1>2, <2>1 DEF ApplyStep
  <2>3. Shaped(n) /\ (Sound => CodesApart(g[n]) /\ Spares(n))
      BY <1>4, <2>1
  <2>4. plan[n + 1] \in Steps /\ plan[n + 1].id \in {0} \cup DOMAIN g[n]
      BY <1>1, <2>1, <2>3 DEF PlanFits, Ids
  <2>5. Shaped(n + 1)
    <3>1. g[n + 1] \in Seq(Rows) /\ DOMAIN g[n] \subseteq DOMAIN g[n + 1]
        BY <2>2, <2>3, <2>4, RowIsWritten DEF StepIsIn
    <3> QED
        BY <3>1, <2>3
  <2>6. ASSUME Sound
        PROVE  CodesApart(g[n + 1]) /\ Spares(n + 1)
    <3>1. \A k \in 1..n : plan[k].row.barcode # plan[n + 1].row.barcode
                            \/ plan[n + 1].row.barcode = 0
        BY <1>1, <2>1, <2>6 DEF PlanIsApart
    <3>2. OnlyOn(products, plan[n + 1].row.barcode, plan[n + 1].id)
        BY <1>1, <2>1, <2>6 DEF PlanIsApart
    <3>3. OnlyOn(g[n], plan[n + 1].row.barcode, plan[n + 1].id)
      <4>1. CASE plan[n + 1].row.barcode = 0
          BY <4>1 DEF OnlyOn
      <4>2. CASE plan[n + 1].row.barcode # 0
          BY <4>2, <2>3, <2>6, <3>1, <3>2
      <4> QED
          BY <4>1, <4>2
    <3>4. CodesApart(g[n])
        BY <2>3, <2>6
    <3>5. /\ CodesApart(g[n + 1])
          /\ \A barcode, id : barcode # plan[n + 1].row.barcode /\ OnlyOn(g[n], barcode, id)
                                => OnlyOn(g[n + 1], barcode, id)
        BY <2>2, <2>3, <2>4, <3>3, <3>4, RowKeepsApart
    <3>6. ASSUME NEW barcode, NEW id, \A k \in 1..(n + 1) : plan[k].row.barcode # barcode,
                 OnlyOn(products, barcode, id)
          PROVE  OnlyOn(g[n + 1], barcode, id)
      <4>1. \A k \in 1..n : plan[k].row.barcode # barcode
          BY <2>1, <3>6
      <4>2. n + 1 \in 1..(n + 1)
          BY <2>1
      <4>3. plan[n + 1].row.barcode # barcode
          BY <4>2, <3>6
      <4>4. OnlyOn(g[n], barcode, id)
          BY <4>1, <2>3, <2>6, <3>6
      <4> QED
          BY <4>3, <4>4, <3>5
    <3> QED
        BY <3>5, <3>6
  <2> QED
      BY <2>5, <2>6
<1> HIDE DEF N
<1>5. \A n \in Nat : n \in N
    BY <1>3, <1>4, NatSetInduction
<1>6. Shaped(Len(plan)) /\ (Sound => CodesApart(g[Len(plan)]) /\ Spares(Len(plan)))
    BY <1>1, <1>5 DEF N
<1> QED
    BY <1>1, <1>2, <1>6

\* Where no two rows of a file are one product, every row is some product's after it.
LEMMA FileIsWritten ==
    ASSUME products \in Seq(Rows), NEW plan \in Seq(Steps), PlanFits(plan, products),
           ~Collides(plan)
    PROVE  \A k \in DOMAIN plan : \E p \in DOMAIN Applied(plan) : Applied(plan)[p] = plan[k].row
<1>1. Len(plan) \in Nat /\ DOMAIN plan = 1..Len(plan) /\ \A n \in 1..Len(plan) : plan[n] \in Steps
    OBVIOUS
<1>2. PICK g : /\ Applied(plan) = g[Len(plan)]
               /\ \A n \in 0..Len(plan) : g[n] = ApplyStep(plan, g, n)
    BY <1>1, AppliedIsFunction
<1>3. 0 \notin Ids
    BY DEF Ids
<1> DEFINE Wrote(n, k) == \E p \in DOMAIN g[n] :
                /\ g[n][p] = plan[k].row
                /\ p = plan[k].id \/ (p \notin Ids /\ plan[k].id = 0)
           N == {n \in Nat : n <= Len(plan) =>
                    /\ g[n] \in Seq(Rows) /\ Ids \subseteq DOMAIN g[n]
                    /\ \A k \in 1..n : Wrote(n, k)}
<1>4. 0 \in N
  <2>1. g[0] = products
      BY <1>1, <1>2 DEF ApplyStep
  <2> QED
      BY <2>1 DEF Ids
<1>5. ASSUME NEW n \in Nat, n \in N
      PROVE  n + 1 \in N
  <2> SUFFICES ASSUME n + 1 <= Len(plan)
               PROVE  /\ g[n + 1] \in Seq(Rows) /\ Ids \subseteq DOMAIN g[n + 1]
                      /\ \A k \in 1..(n + 1) : Wrote(n + 1, k)
      OBVIOUS
  <2>1. n + 1 \in 0..Len(plan) /\ n + 1 \in 1..Len(plan) /\ n + 1 # 0 /\ (n + 1) - 1 = n
        /\ n <= Len(plan) /\ \A k \in 1..n : k \in 1..Len(plan) /\ k # n + 1
      BY <1>1
  <2>2. PICK step : step = plan[n + 1]
      OBVIOUS
  <2>3. PICK c : c = g[n]
      OBVIOUS
  <2>4. PICK d : d = g[n + 1]
      OBVIOUS
  <2>5. d = ImportRow(c, step)
      BY <1>2, <2>1, <2>2, <2>3, <2>4 DEF ApplyStep
  <2>6. c \in Seq(Rows) /\ Ids \subseteq DOMAIN c /\ \A k \in 1..n : Wrote(n, k)
      BY <1>5, <2>1, <2>3
  <2>7. step \in Steps /\ step.id \in {0} \cup Ids /\ step.id \in {0} \cup DOMAIN c
      BY <1>1, <2>1, <2>2, <2>6 DEF PlanFits, Ids
  <2>12. c \in Seq(Rows) /\ step \in Steps /\ step.id \in {0} \cup DOMAIN c
      BY <2>6, <2>7
  <2>8. /\ d \in Seq(Rows) /\ DOMAIN c \subseteq DOMAIN d
        /\ \A i \in DOMAIN d :
              \/ d[i] = step.row /\ (i = step.id \/ (i \notin DOMAIN c /\ step.id = 0))
              \/ i \in DOMAIN c /\ d[i] = c[i] /\ i # step.id
        /\ \A i, j \in DOMAIN d : i \notin DOMAIN c /\ j \notin DOMAIN c => i = j
        /\ \E i \in DOMAIN d : /\ d[i] = step.row
                               /\ i = step.id \/ (i \notin DOMAIN c /\ step.id = 0)
    <3>1. StepIsIn(c, step, d)
        BY <2>5, <2>12, RowIsWritten
    <3> QED
        BY <3>1 DEF StepIsIn
  <2>9. Wrote(n + 1, n + 1)
      BY <2>2, <2>4, <2>6, <2>8
  <2>10. ASSUME NEW k \in 1..n
         PROVE  Wrote(n + 1, k)
    <3>1. PICK p \in DOMAIN c : /\ c[p] = plan[k].row
                                /\ p = plan[k].id \/ (p \notin Ids /\ plan[k].id = 0)
        BY <2>3, <2>6
    <3>2. p # step.id
      <4>1. CASE step.id = 0
          BY <4>1, <2>6
      <4>2. CASE step.id \in Ids
        <5>1. plan[k].id # step.id \/ plan[k].id = 0
            BY <1>1, <2>1, <2>2 DEF Collides
        <5> QED
            BY <5>1, <4>2, <3>1, <1>3
      <4> QED
          BY <4>1, <4>2, <2>7
    <3>3. p \in DOMAIN d /\ d[p] = c[p]
        BY <2>8, <3>1, <3>2
    <3> QED
        BY <2>4, <3>1, <3>3
  <2>11. \A k \in 1..(n + 1) : k \in 1..n \/ k = n + 1
      BY <2>1
  <2> QED
      BY <2>4, <2>6, <2>8, <2>9, <2>10, <2>11
<1> HIDE DEF N
<1>6. \A n \in Nat : n \in N
    BY <1>4, <1>5, NatSetInduction
<1>7. \A k \in 1..Len(plan) : Wrote(Len(plan), k)
    BY <1>1, <1>6 DEF N
<1> QED
    BY <1>1, <1>2, <1>7

-----------------------------------------------------------------------------
(* What a plan is made of. *)

LEMMA MatchFinds ==
    ASSUME products \in Seq(Rows), NEW maps \in Maps, NEW row \in Rows
    PROVE  /\ Match(maps, row) \in {0} \cup Ids /\ Match(maps, row) \in Nat
           /\ Named(row.name) # {} => Match(maps, row) # 0
           /\ CodesApart(products) => OnlyOn(products, row.barcode, Match(maps, row))
<1>1. Ids = 1..Len(products) /\ Len(products) \in Nat /\ 0 \notin Ids /\ Ids \subseteq Nat
    BY DEF Ids
<1>2. row.name \in Names /\ row.barcode \in {0} \cup Barcodes
    BY DEF Rows
<1>3. maps.byName[row.name] \in OneOf(Named(row.name)) /\ Named(row.name) \subseteq Ids
    BY <1>2 DEF Maps, ByName, Named
<1>4. row.barcode # 0 => /\ maps.byBarcode[row.barcode] \in OneOf(Coded(row.barcode))
                         /\ Coded(row.barcode) \subseteq Ids
    BY <1>2 DEF Maps, ByBarcode, Coded, TakenBy
<1>5. Match(maps, row) \in {0} \cup Ids
    BY <1>3, <1>4 DEF Match, HasCode, OneOf
<1>6. Named(row.name) # {} => Match(maps, row) # 0
    BY <1>1, <1>3 DEF Match, HasCode, OneOf
<1>7. ASSUME CodesApart(products)
      PROVE  OnlyOn(products, row.barcode, Match(maps, row))
  <2> SUFFICES ASSUME row.barcode # 0, NEW i \in Ids, products[i].barcode = row.barcode
               PROVE  i = Match(maps, row)
      BY DEF OnlyOn, Ids
  <2>1. i \in Coded(row.barcode)
      BY <1>1 DEF Coded, TakenBy
  <2>2. maps.byBarcode[row.barcode] \in Coded(row.barcode)
      BY <1>4, <2>1 DEF OneOf
  <2>3. Match(maps, row) = maps.byBarcode[row.barcode]
      BY <1>1, <1>4, <2>2 DEF Match, HasCode
  <2>4. Match(maps, row) \in Ids /\ products[Match(maps, row)].barcode = row.barcode
      BY <2>2, <2>3 DEF Coded, TakenBy
  <2> QED
      BY <2>4, <1>7 DEF CodesApart, Ids
<1> QED
    BY <1>1, <1>5, <1>6, <1>7

PlanStands(plan, rows) ==
    /\ plan \in Seq(Steps) /\ PlanFits(plan, products)
    /\ \A k \in DOMAIN plan : /\ \E i \in DOMAIN rows : plan[k].row = rows[i]
                              /\ Named(plan[k].row.name) # {} => plan[k].id # 0
    /\ CodesApart(products) => PlanIsApart(plan, products)

LEMMA PlanIsBuilt ==
    ASSUME products \in Seq(Rows), NEW maps \in Maps, NEW n \in Nat, NEW rows \in [1..n -> Rows]
    PROVE  PlanStands(BuildImportPlan(maps, rows), rows)
<1>0. PICK plan : plan = BuildImportPlan(maps, rows)
    OBVIOUS
<1> DEFINE list == [i \in DOMAIN rows |-> i]
           S == {i \in DOMAIN rows : IsKept(rows, i)}
           kept == Kept(list, S)
<1>1. DOMAIN rows = 1..n /\ \A i \in 1..n : rows[i] \in Rows
    OBVIOUS
<1>2. list \in Seq(1..n) /\ Len(list) = n /\ \A i \in 1..n : list[i] = i
    BY <1>1
<1>3. kept \in Seq((1..n) \cap S)
    BY <1>2, KeptType
<1>4. \A i, j \in DOMAIN kept : kept[i] = kept[j] => i = j
    BY <1>2, KeptOnce
<1>5. plan = [k \in DOMAIN kept |-> [row |-> rows[kept[k]], id |-> Match(maps, rows[kept[k]])]]
    BY <1>0 DEF BuildImportPlan
<1>6. S \subseteq 1..n /\ \A i \in S : FirstOfCode(rows, i)
    BY <1>1 DEF IsKept
<1> HIDE DEF kept, S, list
<1>7. /\ DOMAIN kept = 1..Len(kept) /\ Len(kept) \in Nat
      /\ \A k \in DOMAIN kept : kept[k] \in 1..n /\ kept[k] \in S
    BY <1>3
<1>8. /\ DOMAIN plan = DOMAIN kept
      /\ \A k \in DOMAIN kept : plan[k].row = rows[kept[k]] /\ plan[k].id = Match(maps, rows[kept[k]])
    BY <1>5
<1>9. \A k \in DOMAIN kept : rows[kept[k]] \in Rows
    BY <1>1, <1>7
<1>10. \A k \in DOMAIN kept :
          /\ plan[k].id \in {0} \cup Ids /\ plan[k].id \in Nat
          /\ Named(plan[k].row.name) # {} => plan[k].id # 0
          /\ CodesApart(products) => OnlyOn(products, plan[k].row.barcode, plan[k].id)
    BY <1>8, <1>9, MatchFinds
<1>11. plan \in Seq(Steps)
  <2>1. \A k \in DOMAIN kept : [row |-> rows[kept[k]], id |-> Match(maps, rows[kept[k]])] \in Steps
      BY <1>8, <1>9, <1>10 DEF Steps
  <2>2. plan \in [1..Len(kept) -> Steps]
      BY <1>5, <1>7, <2>1
  <2> QED
      BY <2>2, <1>7
<1>12. PlanFits(plan, products)
    BY <1>8, <1>10 DEF PlanFits, Ids
<1>13. \A k \in DOMAIN plan : /\ \E i \in 1..n : plan[k].row = rows[i]
                              /\ Named(plan[k].row.name) # {} => plan[k].id # 0
    BY <1>7, <1>8, <1>10
<1>14. ASSUME NEW k \in DOMAIN plan, NEW l \in DOMAIN plan, k # l, plan[k].row.barcode # 0
       PROVE  plan[k].row.barcode # plan[l].row.barcode
  <2>1. /\ kept[k] \in 1..n /\ kept[l] \in 1..n /\ kept[k] # kept[l]
        /\ FirstOfCode(rows, kept[k]) /\ FirstOfCode(rows, kept[l])
      BY <1>4, <1>6, <1>7, <1>8, <1>14
  <2>2. kept[k] \in 1..(kept[l] - 1) \/ kept[l] \in 1..(kept[k] - 1)
      BY <2>1
  <2> QED
      BY <1>8, <1>14, <2>1, <2>2 DEF FirstOfCode
<1>15. CodesApart(products) => PlanIsApart(plan, products)
    BY <1>8, <1>10, <1>14 DEF PlanIsApart
<1> QED
    BY <1>0, <1>1, <1>11, <1>12, <1>13, <1>15 DEF PlanStands

-----------------------------------------------------------------------------
(* One step. *)
LEMMA CatalogueInitHolds == CatalogueInit => CatalogueInv
<1> SUFFICES ASSUME CatalogueInit PROVE CatalogueInv
    OBVIOUS
<1>1. products = <<>> /\ Ids = {} /\ DOMAIN products = {} /\ products \in Seq(Rows)
    BY DEF CatalogueInit, Ids
<1>2. \A e \in Editors : editing[e] = NoEdit /\ editing[e] \in Edits /\ editing[e].id = 0
                         /\ editing[e].barcode = 0
    BY DEF CatalogueInit, NoEdit, Edits
<1>3. <<>> \in Seq(Steps) /\ DOMAIN <<>> = {}
    OBVIOUS
<1>4. \A m \in Importers : importing[m] = <<>>
                           /\ DOMAIN importing[m] = {}
    BY <1>3 DEF CatalogueInit, NoFile
<1>5. editing \in [Editors -> Edits]
    BY <1>2 DEF CatalogueInit
<1>6. importing \in [Importers -> Seq(Steps)]
    BY <1>3 DEF CatalogueInit, NoFile
<1>7. CatalogueShapes
    BY <1>1, <1>2, <1>4, <1>5, <1>6 DEF CatalogueShapes, PlanFits
<1>8. \A w \in Editors \cup Importers : CodesOf(w) \subseteq {0}
    BY <1>2, <1>4 DEF CodesOf
<1>9. CodesStayApart
    BY <1>1, <1>2, <1>4, <1>8 DEF CodesStayApart, CodesApart, OnlyOn, PlanIsApart
<1> QED
    BY <1>7, <1>9 DEF CatalogueInv

\* What the others carry is what CodesOf says they do.
LEMMA OthersCarry ==
    ASSUME NEW who \in Editors \cup Importers
    PROVE  \A w \in (Editors \cup Importers) \ {who} : CodesOf(w) \subseteq Underway(who)
<1> SUFFICES ASSUME NEW w \in (Editors \cup Importers) \ {who} PROVE CodesOf(w) \subseteq Underway(who)
    OBVIOUS
<1>1. CASE w \in Editors
    BY <1>1 DEF CodesOf, Underway
<1>2. CASE w \notin Editors
  <2>1. w \in Importers \ {who}
      BY <1>2
  <2>2. CodesOf(w) = {importing[w][k].row.barcode : k \in DOMAIN importing[w]}
      BY <1>2 DEF CodesOf
  <2>3. \A k \in DOMAIN importing[w] : importing[w][k] \in ToSet(importing[w])
      BY DEF ToSet
  <2>4. \A k \in DOMAIN importing[w] :
           importing[w][k].row.barcode
               \in {step.row.barcode : step \in ToSet(importing[w])}
      BY <2>3
  <2> QED
      BY <2>1, <2>2, <2>4 DEF Underway
<1> QED
    BY <1>1, <1>2

LEMMA EditReadsHolds ==
    ASSUME CatalogueInv, NEW e \in Editors, NEW id \in {0} \cup Ids, NEW name \in Names,
           NEW barcode \in {0} \cup Barcodes, EditReads(e, id, name, barcode)
    PROVE  CatalogueInv'
<1>1. PICK edit : edit = [id |-> id, name |-> name, barcode |-> barcode]
    OBVIOUS
<1>2. edit.id = id /\ edit.name = name /\ edit.barcode = barcode
    BY <1>1
<1>3. products \in Seq(Rows) /\ Ids = 1..Len(products) /\ Len(products) \in Nat
    BY DEF CatalogueInv, CatalogueShapes, Ids
<1>4. edit \in Edits
  <2>1. id \in Nat
      BY <1>3
  <2> QED
      BY <1>1, <2>1 DEF Edits
<1>5. editing' = [editing EXCEPT ![e] = edit] /\ UNCHANGED <<products, importing>>
      /\ Meets(e, {barcode}) /\ BarcodeFree(barcode, id)
    BY <1>1 DEF EditReads
<1>6. editing' \in [Editors -> Edits] /\ editing'[e] = edit
      /\ \A f \in Editors \ {e} : editing'[f] = editing[f]
    BY <1>4, <1>5 DEF CatalogueInv, CatalogueShapes
<1>7. Ids' = Ids
    BY <1>5 DEF Ids
<1>8. CatalogueShapes'
    BY <1>2, <1>5, <1>6, <1>7 DEF CatalogueInv, CatalogueShapes
<1>9. ASSUME ~sameCode'
      PROVE  CodesStayApart'
  <2>1. ~sameCode /\ {barcode} \cap Underway(e) \subseteq {0}
      BY <1>5, <1>9 DEF Meets
  <2>2. CodesStayApart
      BY <2>1 DEF CatalogueInv
  <2>3. OnlyOn(products, barcode, id)
      BY <1>5 DEF BarcodeFree, TakenBy, OnlyOn, Ids
  <2>4. \A f \in Editors : OnlyOn(products', editing'[f].barcode, editing'[f].id)
      BY <1>2, <1>5, <1>6, <2>2, <2>3 DEF CodesStayApart
  <2>5. CodesOf(e)' = {barcode}
      BY <1>2, <1>6 DEF CodesOf
  <2>6. ASSUME NEW w \in (Editors \cup Importers) \ {e} PROVE CodesOf(w)' = CodesOf(w)
    <3>1. (w \in Editors => editing'[w] = editing[w]) /\ importing'[w] = importing[w]
        BY <1>5, <1>6
    <3> QED
        BY <3>1 DEF CodesOf
  <2>7. \A w \in (Editors \cup Importers) \ {e} : CodesOf(w) \cap {barcode} \subseteq {0}
      BY <2>1, OthersCarry
  <2>8. \A w, v \in Editors \cup Importers : w # v => CodesOf(w)' \cap CodesOf(v)' \subseteq {0}
      BY <2>2, <2>5, <2>6, <2>7 DEF CodesStayApart
  <2> QED
      BY <1>5, <2>2, <2>4, <2>8 DEF CodesStayApart
<1> QED
    BY <1>8, <1>9 DEF CatalogueInv

LEMMA EditCommitsHolds ==
    ASSUME CatalogueInv, NEW e \in Editors, EditCommits(e)
    PROVE  CatalogueInv'
<1>1. PICK edit : edit = editing[e]
    OBVIOUS
<1>2. PICK step : step = [row |-> [name |-> edit.name, barcode |-> edit.barcode], id |-> edit.id]
    OBVIOUS
<1>3. products \in Seq(Rows) /\ Ids = 1..Len(products) /\ Len(products) \in Nat
      /\ DOMAIN products = Ids
    BY DEF CatalogueInv, CatalogueShapes, Ids
<1>4. edit # NoEdit /\ edit \in Edits /\ edit.name \in Names /\ edit.id \in {0} \cup Ids
    BY <1>1 DEF CatalogueInv, CatalogueShapes, EditCommits
<1>5. step \in Steps /\ step.id = edit.id /\ step.row.barcode = edit.barcode
    BY <1>2, <1>4 DEF Steps, Rows, Edits
<1>6. products' = ImportRow(products, step)
    BY <1>1, <1>2, <1>3, <1>4, <1>5 DEF EditCommits, ImportRow
<1>7. products' \in Seq(Rows) /\ Ids \subseteq DOMAIN products'
    BY <1>3, <1>4, <1>5, <1>6, RowIsWritten DEF StepIsIn
<1>8. editing' = [editing EXCEPT ![e] = NoEdit] /\ sameCode' = sameCode
      /\ importing' = importing
    BY DEF EditCommits
<1>9. NoEdit \in Edits /\ NoEdit.id = 0 /\ NoEdit.barcode = 0
    BY DEF NoEdit, Edits
<1>10. editing' \in [Editors -> Edits] /\ editing'[e] = NoEdit
       /\ \A f \in Editors \ {e} : editing'[f] = editing[f]
    BY <1>8, <1>9 DEF CatalogueInv, CatalogueShapes
<1>11. importing' \in [Importers -> Seq(Steps)]
       /\ \A m \in Importers : importing'[m] = importing[m]
    BY <1>8 DEF CatalogueInv, CatalogueShapes
<1>12. CatalogueShapes'
    BY <1>3, <1>7, <1>9, <1>10, <1>11 DEF CatalogueInv, CatalogueShapes, PlanFits, Ids
<1>13. ASSUME ~sameCode'
       PROVE  CodesStayApart'
  <2>1. CodesStayApart
      BY <1>8, <1>13 DEF CatalogueInv
  <2>2. CodesApart(products) /\ OnlyOn(products, step.row.barcode, step.id)
      BY <1>1, <1>5, <2>1 DEF CodesStayApart
  <2>3. /\ CodesApart(products')
        /\ \A barcode, id : barcode # edit.barcode /\ OnlyOn(products, barcode, id)
                              => OnlyOn(products', barcode, id)
      BY <1>3, <1>4, <1>5, <1>6, <2>2, RowKeepsApart
  <2>4. CodesOf(e) = {edit.barcode} /\ CodesOf(e)' = {0}
      BY <1>1, <1>9, <1>10 DEF CodesOf
  <2>5. ASSUME NEW w \in (Editors \cup Importers) \ {e} PROVE CodesOf(w)' = CodesOf(w)
    <3>1. CASE w \in Editors
        BY <3>1, <1>10 DEF CodesOf
    <3>2. CASE w \notin Editors
      <4>1. importing'[w] = importing[w]
          BY <3>2, <1>11
      <4> QED
          BY <3>2, <4>1 DEF CodesOf
    <3> QED
        BY <3>1, <3>2
  <2>6. \A w \in (Editors \cup Importers) \ {e} : \A barcode \in CodesOf(w) :
           barcode = 0 \/ barcode # edit.barcode
      BY <2>1, <2>4 DEF CodesStayApart
  <2>7. \A barcode, id : (barcode = 0 \/ barcode # edit.barcode) /\ OnlyOn(products, barcode, id)
                           => OnlyOn(products', barcode, id)
      BY <2>3 DEF OnlyOn
  <2>8. ASSUME NEW f \in Editors
        PROVE  OnlyOn(products', editing'[f].barcode, editing'[f].id)
    <3>1. CASE f = e
        BY <3>1, <1>9, <1>10 DEF OnlyOn
    <3>2. CASE f # e
      <4>1. editing[f].barcode \in CodesOf(f)
          BY DEF CodesOf
      <4> QED
          BY <3>2, <4>1, <1>10, <2>1, <2>6, <2>7 DEF CodesStayApart
    <3> QED
        BY <3>1, <3>2
  <2>9. ASSUME NEW m \in Importers
        PROVE  PlanIsApart(importing'[m], products')
    <3>1. PICK plan : plan = importing[m]
        OBVIOUS
    <3>2. m \notin Editors /\ m # e
        BY CatalogueAssumption
    <3>3. \A k \in DOMAIN plan : plan[k].row.barcode \in CodesOf(m)
        BY <3>1, <3>2 DEF CodesOf
    <3>4. \A k \in DOMAIN plan :
              plan[k].row.barcode = 0 \/ plan[k].row.barcode # edit.barcode
        BY <2>6, <3>2, <3>3
    <3>5. PlanIsApart(plan, products)
        BY <2>1, <3>1 DEF CodesStayApart
    <3>6. PlanIsApart(plan, products')
        BY <2>7, <3>4, <3>5 DEF PlanIsApart
    <3> QED
        BY <1>11, <3>1, <3>6
  <2>10. \A w, v \in Editors \cup Importers : w # v => CodesOf(w)' \cap CodesOf(v)' \subseteq {0}
      BY <2>1, <2>4, <2>5 DEF CodesStayApart
  <2> QED
      BY <2>3, <2>8, <2>9, <2>10 DEF CodesStayApart
<1> QED
    BY <1>8, <1>12, <1>13 DEF CatalogueInv

LEMMA ImportReadsHolds ==
    ASSUME CatalogueInv, NEW m \in Importers, ImportReads(m)
    PROVE  CatalogueInv'
<1>1. PICK maps \in Maps, rows \in Files :
         LET plan == BuildImportPlan(maps, rows) IN
         /\ importing' = [importing EXCEPT ![m] = plan]
         /\ Meets(m, {row.barcode : row \in ToSet(rows)})
    BY DEF ImportReads
<1>2. UNCHANGED <<products, editing>>
    BY DEF ImportReads
<1>4. PICK n \in Nat : rows \in [1..n -> Rows]
    BY <1>1 DEF Files
<1>5. PICK plan : plan = BuildImportPlan(maps, rows)
    OBVIOUS
<1>6. products \in Seq(Rows)
    BY DEF CatalogueInv, CatalogueShapes
<1>7. /\ plan \in Seq(Steps) /\ PlanFits(plan, products)
      /\ \A k \in DOMAIN plan : \E i \in 1..n : plan[k].row = rows[i]
      /\ CodesApart(products) => PlanIsApart(plan, products)
  <2>1. PlanStands(plan, rows) /\ DOMAIN rows = 1..n
      BY <1>4, <1>5, <1>6, PlanIsBuilt
  <2> QED
      BY <2>1 DEF PlanStands
<1>8. /\ importing' \in [Importers -> Seq(Steps)]
      /\ importing'[m] = plan
      /\ \A o \in Importers \ {m} : importing'[o] = importing[o]
    BY <1>1, <1>5, <1>7 DEF CatalogueInv, CatalogueShapes
<1>9. CatalogueShapes'
    BY <1>2, <1>7, <1>8 DEF CatalogueInv, CatalogueShapes, Ids
<1>10. ASSUME ~sameCode'
       PROVE  CodesStayApart'
  <2>1. ~sameCode /\ {row.barcode : row \in ToSet(rows)} \cap Underway(m) \subseteq {0}
      BY <1>1, <1>10 DEF Meets
  <2>2. CodesStayApart
      BY <2>1 DEF CatalogueInv
  <2>3. \A o \in Importers : PlanIsApart(importing'[o], products')
      BY <1>2, <1>7, <1>8, <2>2 DEF CodesStayApart
  <2>4. m \notin Editors
      BY CatalogueAssumption
  <2>5. CodesOf(m)' \subseteq {row.barcode : row \in ToSet(rows)}
    <3>1. CodesOf(m)' = {plan[k].row.barcode : k \in DOMAIN plan}
        BY <1>8, <2>4 DEF CodesOf
    <3>2. \A i \in 1..n : rows[i] \in ToSet(rows)
        BY <1>4 DEF ToSet
    <3> QED
        BY <1>7, <3>1, <3>2
  <2>6. ASSUME NEW w \in (Editors \cup Importers) \ {m} PROVE CodesOf(w)' = CodesOf(w)
    <3>1. editing'[w] = editing[w] /\ (w \notin Editors => importing'[w] = importing[w])
        BY <1>2, <1>8
    <3> QED
        BY <3>1 DEF CodesOf
  <2>7. \A w \in (Editors \cup Importers) \ {m} : CodesOf(w) \cap CodesOf(m)' \subseteq {0}
      BY <2>1, <2>5, OthersCarry
  <2>8. \A w, v \in Editors \cup Importers : w # v => CodesOf(w)' \cap CodesOf(v)' \subseteq {0}
      BY <2>2, <2>6, <2>7 DEF CodesStayApart
  <2> QED
      BY <1>2, <2>2, <2>3, <2>8 DEF CodesStayApart
<1> QED
    BY <1>9, <1>10 DEF CatalogueInv

LEMMA ImportCommitsHolds ==
    ASSUME CatalogueInv, NEW m \in Importers, ImportCommits(m)
    PROVE  CatalogueInv'
<1>1. PICK plan : plan = importing[m]
    OBVIOUS
<1>2. products \in Seq(Rows) /\ plan \in Seq(Steps) /\ PlanFits(plan, products) /\ 0 \notin Ids
    BY <1>1 DEF CatalogueInv, CatalogueShapes, Ids
<1>3. products' = Applied(plan) /\ UNCHANGED <<editing, sameCode>>
    BY <1>1 DEF ImportCommits
<1>4. /\ products' \in Seq(Rows) /\ Ids \subseteq DOMAIN products'
      /\ CodesApart(products) /\ PlanIsApart(plan, products) =>
           /\ CodesApart(products')
           /\ \A barcode, id : /\ \A k \in DOMAIN plan : plan[k].row.barcode # barcode
                               /\ OnlyOn(products, barcode, id)
                               => OnlyOn(products', barcode, id)
    BY <1>2, <1>3, PlanIsWritten
<1>5. <<>> \in Seq(Steps) /\ DOMAIN <<>> = {}
    OBVIOUS
<1>6. /\ importing' \in [Importers -> Seq(Steps)]
      /\ importing'[m] = <<>>
      /\ \A o \in Importers \ {m} : importing'[o] = importing[o]
    BY <1>5 DEF ImportCommits, NoFile, CatalogueInv, CatalogueShapes
<1>7. CatalogueShapes'
    BY <1>3, <1>4, <1>5, <1>6 DEF CatalogueInv, CatalogueShapes, PlanFits, Ids
<1>8. ASSUME ~sameCode'
      PROVE  CodesStayApart'
  <2>1. CodesStayApart
      BY <1>3, <1>8 DEF CatalogueInv
  <2>2. m \notin Editors
      BY CatalogueAssumption
  <2>3. CodesOf(m) = {plan[k].row.barcode : k \in DOMAIN plan} /\ CodesOf(m)' = {}
      BY <1>1, <1>5, <1>6, <2>2 DEF CodesOf
  <2>4. ASSUME NEW w \in (Editors \cup Importers) \ {m} PROVE CodesOf(w)' = CodesOf(w)
    <3>1. editing'[w] = editing[w] /\ (w \notin Editors => importing'[w] = importing[w])
        BY <1>3, <1>6
    <3> QED
        BY <3>1 DEF CodesOf
  <2>5. CodesApart(products) /\ PlanIsApart(plan, products)
      BY <1>1, <2>1 DEF CodesStayApart
  <2>6. ASSUME NEW w \in (Editors \cup Importers) \ {m}, NEW barcode \in CodesOf(w), NEW id,
               OnlyOn(products, barcode, id)
        PROVE  OnlyOn(products', barcode, id)
    <3>1. CASE barcode = 0
        BY <3>1 DEF OnlyOn
    <3>2. CASE barcode # 0
      <4>1. barcode \notin CodesOf(m)
          BY <2>1, <3>2 DEF CodesStayApart
      <4>2. \A k \in DOMAIN plan : plan[k].row.barcode # barcode
          BY <2>3, <4>1
      <4> QED
          BY <1>4, <2>5, <2>6, <4>2
    <3> QED
        BY <3>1, <3>2
  <2>7. ASSUME NEW f \in Editors
        PROVE  OnlyOn(products', editing'[f].barcode, editing'[f].id)
    <3>1. f \in (Editors \cup Importers) \ {m} /\ editing[f].barcode \in CodesOf(f)
        BY <2>2 DEF CodesOf
    <3>2. OnlyOn(products, editing[f].barcode, editing[f].id)
        BY <2>1 DEF CodesStayApart
    <3> QED
        BY <1>3, <2>6, <3>1, <3>2
  <2>8. ASSUME NEW o \in Importers
        PROVE  PlanIsApart(importing'[o], products')
    <3>1. CASE o = m
        BY <3>1, <1>5, <1>6 DEF PlanIsApart
    <3>2. CASE o # m
      <4>1. PICK other : other = importing[o]
          OBVIOUS
      <4>2. o \notin Editors
          BY CatalogueAssumption
      <4>3. \A k \in DOMAIN other : other[k].row.barcode \in CodesOf(o)
          BY <4>1, <4>2 DEF CodesOf
      <4>4. PlanIsApart(other, products)
          BY <2>1, <4>1 DEF CodesStayApart
      <4>5. \A k \in DOMAIN other : OnlyOn(products', other[k].row.barcode, other[k].id)
          BY <2>6, <3>2, <4>3, <4>4 DEF PlanIsApart
      <4>6. PlanIsApart(other, products')
          BY <4>4, <4>5 DEF PlanIsApart
      <4> QED
          BY <1>6, <3>2, <4>1, <4>6
    <3> QED
        BY <3>1, <3>2
  <2>9. \A w, v \in Editors \cup Importers : w # v => CodesOf(w)' \cap CodesOf(v)' \subseteq {0}
      BY <2>1, <2>3, <2>4 DEF CodesStayApart
  <2> QED
      BY <1>4, <2>5, <2>7, <2>8, <2>9 DEF CodesStayApart
<1> QED
    BY <1>3, <1>7, <1>8 DEF CatalogueInv

LEMMA CatalogueInvHolds == CatalogueSpec => []CatalogueInv
<1>1. CatalogueInv /\ [CatalogueNext]_catalogueVars => CatalogueInv'
  <2> SUFFICES ASSUME CatalogueInv, [CatalogueNext]_catalogueVars PROVE CatalogueInv'
      OBVIOUS
  <2>1. ASSUME NEW e \in Editors, EditCommits(e) PROVE CatalogueInv'
      BY <2>1, EditCommitsHolds
  <2>2. ASSUME NEW e \in Editors, NEW id \in {0} \cup Ids, NEW name \in Names,
               NEW barcode \in {0} \cup Barcodes, EditReads(e, id, name, barcode)
        PROVE  CatalogueInv'
      BY <2>2, EditReadsHolds
  <2>3. ASSUME NEW m \in Importers, ImportReads(m) PROVE CatalogueInv'
      BY <2>3, ImportReadsHolds
  <2>4. ASSUME NEW m \in Importers, ImportCommits(m) PROVE CatalogueInv'
      BY <2>4, ImportCommitsHolds
  <2>5. CASE UNCHANGED catalogueVars
    <3>1. UNCHANGED <<products, editing, importing, sameCode>>
        BY <2>5 DEF catalogueVars
    <3>2. CatalogueShapes' = CatalogueShapes
        BY <3>1 DEF CatalogueShapes, Ids
    <3>3. \A w \in Editors \cup Importers : CodesOf(w)' = CodesOf(w)
        BY <3>1 DEF CodesOf
    <3>4. CodesStayApart' <=> CodesStayApart
        BY <3>1, <3>3 DEF CodesStayApart
    <3> QED
        BY <3>1, <3>2, <3>4 DEF CatalogueInv
  <2> QED
      BY <2>1, <2>2, <2>3, <2>4, <2>5 DEF CatalogueNext
<1> QED
    BY <1>1, CatalogueInitHolds, PTL DEF CatalogueSpec

\* No barcode is on two products, unless two requests with one barcode overlapped
\* (BarcodesAreApart): for any number of people, files, rows and products.
THEOREM BarcodesAlwaysApart == CatalogueSpec => []BarcodesAreApart
<1>1. CatalogueInv => BarcodesAreApart
    BY DEF CatalogueInv, CodesStayApart, CodesApart, BarcodesAreApart, Ids
<1> QED
    BY <1>1, CatalogueInvHolds, PTL

\* Every product has a name and a code, and a plan is about products that are there.
THEOREM CatalogueTypes == CatalogueSpec => []CatalogueTypeOK
<1>1. ASSUME CatalogueInv
      PROVE  CatalogueTypeOK
  <2>1. \A i \in Ids : products[i] \in Rows
      BY <1>1 DEF CatalogueInv, CatalogueShapes, Ids
  <2>2. ASSUME NEW m \in Importers, NEW step \in ToSet(importing[m])
        PROVE  step.id \in {0} \cup Ids
      BY <1>1, <2>2 DEF CatalogueInv, CatalogueShapes, PlanFits, ToSet, Ids
  <2> QED
      BY <2>1, <2>2 DEF CatalogueTypeOK, Rows
<1> QED
    BY <1>1, CatalogueInvHolds, PTL

-----------------------------------------------------------------------------
(* Importing a file again: each of its rows is still some product's, so the name *)
(* of the row finds one.                                                         *)
FileStands ==
    /\ imported \in Seq(Rows)
    /\ \A k \in DOMAIN imported : \E p \in Ids : products[p] = imported[k]

LEMMA FileStandsOn ==
    ASSUME CatalogueInv, FileStands, [CatalogueNext]_catalogueVars
    PROVE  FileStands'
<1>1. <<>> \in Seq(Rows) /\ DOMAIN <<>> = {}
    OBVIOUS
<1>2. ASSUME NEW e \in Editors, EditCommits(e) PROVE FileStands'
    BY <1>1, <1>2 DEF EditCommits, FileStands
<1>3. ASSUME NEW m \in Importers, ImportCommits(m) PROVE FileStands'
  <2>1. PICK plan : plan = importing[m]
      OBVIOUS
  <2>2. products \in Seq(Rows) /\ plan \in Seq(Steps) /\ PlanFits(plan, products)
      BY <2>1 DEF CatalogueInv, CatalogueShapes
  <2>3. CASE Collides(plan)
      BY <1>1, <1>3, <2>1, <2>3 DEF ImportCommits, FileStands
  <2>4. CASE ~Collides(plan)
    <3>1. products' = Applied(plan) /\ imported' = [i \in DOMAIN plan |-> plan[i].row]
        BY <1>3, <2>1, <2>4 DEF ImportCommits
    <3>2. \A k \in DOMAIN plan : \E p \in Ids' : products'[p] = plan[k].row
        BY <2>2, <2>4, <3>1, FileIsWritten DEF Ids
    <3>3. DOMAIN plan = 1..Len(plan) /\ Len(plan) \in Nat /\ \A k \in DOMAIN plan : plan[k].row \in Rows
      <4>1. DOMAIN plan = 1..Len(plan) /\ Len(plan) \in Nat /\ \A k \in DOMAIN plan : plan[k] \in Steps
          BY <2>2
      <4> QED
          BY <4>1 DEF Steps
    <3>4. imported' \in Seq(Rows)
        BY <3>1, <3>3
    <3> QED
        BY <3>1, <3>2, <3>4 DEF FileStands
  <2> QED
      BY <2>3, <2>4
<1>4. CASE UNCHANGED <<products, imported>>
    BY <1>4 DEF FileStands, Ids
<1>5. ASSUME NEW e \in Editors, NEW id \in {0} \cup Ids, NEW name \in Names,
             NEW barcode \in {0} \cup Barcodes, EditReads(e, id, name, barcode)
      PROVE  FileStands'
    BY <1>4, <1>5 DEF EditReads
<1>6. ASSUME NEW m \in Importers, ImportReads(m) PROVE FileStands'
    BY <1>4, <1>6 DEF ImportReads
<1> QED
    BY <1>2, <1>3, <1>4, <1>5, <1>6 DEF CatalogueNext, catalogueVars

\* A file that is imported again makes no product and brings no goods in
\* (ImportTwiceIsOnce): for any files, and whichever product a map keeps.
THEOREM ImportTwiceIsAlwaysOnce == CatalogueSpec => []ImportTwiceIsOnce
<1>1. CatalogueInit => FileStands
  <2>1. <<>> \in Seq(Rows) /\ DOMAIN <<>> = {}
      OBVIOUS
  <2> QED
      BY <2>1 DEF CatalogueInit, FileStands
<1>2. CatalogueSpec => []FileStands
    BY <1>1, FileStandsOn, CatalogueInvHolds, PTL DEF CatalogueSpec
<1>3. ASSUME CatalogueInv, FileStands
      PROVE  ImportTwiceIsOnce
  <2> SUFFICES ASSUME NEW maps \in Maps, NEW step \in ToSet(BuildImportPlan(maps, imported))
               PROVE  step.id # 0
      BY DEF ImportTwiceIsOnce
  <2>0. PICK rows : rows = imported
      OBVIOUS
  <2>1. PICK plan : plan = BuildImportPlan(maps, rows)
      OBVIOUS
  <2>2. PICK n \in Nat : rows \in [1..n -> Rows]
      BY <1>3, <2>0 DEF FileStands
  <2>3. products \in Seq(Rows)
      BY <1>3 DEF CatalogueInv, CatalogueShapes
  <2>4. /\ plan \in Seq(Steps) /\ PlanFits(plan, products)
        /\ \A k \in DOMAIN plan : /\ \E i \in 1..n : plan[k].row = rows[i]
                                  /\ Named(plan[k].row.name) # {} => plan[k].id # 0
        /\ CodesApart(products) => PlanIsApart(plan, products)
    <3>1. PlanStands(plan, rows) /\ DOMAIN rows = 1..n
        BY <2>1, <2>2, <2>3, PlanIsBuilt
    <3> QED
        BY <3>1 DEF PlanStands
  <2>5. PICK k \in DOMAIN plan : step = plan[k]
      BY <2>0, <2>1 DEF ToSet
  <2>6. PICK i \in 1..n : plan[k].row = rows[i]
      BY <2>4
  <2>7. PICK p \in Ids : products[p] = rows[i]
      BY <1>3, <2>0, <2>2 DEF FileStands
  <2>8. p \in Named(plan[k].row.name)
      BY <2>6, <2>7 DEF Named
  <2> QED
      BY <2>4, <2>5, <2>8
<1> QED
    BY <1>2, <1>3, CatalogueInvHolds, PTL

-----------------------------------------------------------------------------
(***************************************************************************)
(* The morning summary, for any number of shops, places and calls, however *)
(* many shops a call takes.                                                *)
(***************************************************************************)
\* The shops that had their summary marked today, whatever became of it.
Visited == {s \in Shops : summarised[s] # Yet /\ Day(summarised[s]) = Day(clock)}

Walks == [at : {"none", "walking", "sending"}, now : Nat, todo : SUBSET Shops,
          handled : Nat, shop : Nat]

\* A call that is under way is of an hour that was, and has something to do only
\* when that hour was morning.
MorningShapes ==
    /\ clock \in Nat /\ finished \in Nat /\ tariffOn \subseteq Shops
    /\ summarised \in [Shops -> {Yet} \cup {t \in Nat : t <= clock /\ IsMorning(t)}]
    /\ call \in [Calls -> Walks]
    /\ \A c \in Calls :
          /\ call[c].handled <= PerCall /\ call[c].now <= clock
          /\ call[c].at = "none" => call[c] = NoCall
          /\ call[c].todo # {} => IsMorning(call[c].now)
          /\ call[c].at = "sending" => call[c].shop \in Shops
    /\ \A letter \in sent : letter[3] \in Nat /\ letter[3] <= Day(clock)

\* Where no two calls walk at once, the one that does is today's, has none of those
\* before it that were visited, and all that were not.
OneWalks ==
    /\ \A c, d \in Calls : call[c] # NoCall /\ call[d] # NoCall => c = d
    /\ \A c \in Calls : call[c] # NoCall =>
          /\ Day(call[c].now) = Day(clock)
          /\ call[c].todo \cap Visited = {}
          /\ IsMorning(call[c].now) => tariffOn \subseteq Visited \cup call[c].todo

\* What calls took they visited: what each of them that ended took is PerCall, or all.
AllOrEnough ==
    \/ tariffOn \subseteq Visited
    \/ /\ finished * PerCall <= Cardinality(Visited)
       /\ \A c \in Calls : finished * PerCall + call[c].handled <= Cardinality(Visited)

\* Sent is what was marked before, and what is about to be sent was not sent yet.
SentOnce ==
    /\ ~twice
    /\ \A letter \in sent : letter[3] = Day(clock) => letter[1] \in Visited
    /\ \A c \in Calls : call[c].at = "sending" =>
          /\ call[c].shop \in Visited
          /\ \A letter \in sent : letter[3] = Day(clock) => letter[1] # call[c].shop

MorningInv == MorningShapes /\ (calm => OneWalks /\ AllOrEnough /\ SentOnce)

-----------------------------------------------------------------------------
LEMMA DaysGoOn ==
    /\ \A t \in Nat : Day(t) \in Nat
    /\ \A t \in Nat, u \in Nat : t <= u => Day(t) <= Day(u)
BY DEF Day

LEMMA NobodyWalks == NoCall \in Walks /\ NoCall.at = "none" /\ NoCall.todo = {} /\ NoCall.handled = 0
BY DEF NoCall, Walks

LEMMA YetIsNoHour == Yet \notin Nat
BY DEF Yet

LEMMA VisitedCounts ==
    /\ Visited \subseteq Shops /\ IsFiniteSet(Visited) /\ Cardinality(Visited) \in Nat
    /\ Cardinality(Visited) <= Cardinality(Shops)
    /\ Cardinality(Visited) = Cardinality(Shops) => Visited = Shops
<1>1. Visited \subseteq Shops /\ IsFiniteSet(Shops)
    BY MorningAssumption DEF Visited
<1> QED
    BY <1>1, FS_Subset, FS_CardinalityType

LEMMA MorningInitHolds == MorningInit => MorningInv
<1> SUFFICES ASSUME MorningInit PROVE MorningInv
    OBVIOUS
<1>1. /\ clock = 0 /\ tariffOn \subseteq Shops /\ summarised = [s \in Shops |-> Yet]
      /\ sent = {} /\ twice = FALSE /\ finished = 0 /\ call = [c \in Calls |-> NoCall]
    BY DEF MorningInit
<1>2. \A c \in Calls : call[c] = NoCall
    BY <1>1
<1>3. MorningShapes
    BY <1>1, <1>2, NobodyWalks, MorningAssumption DEF MorningShapes, NoCall
<1>4. OneWalks /\ SentOnce
    BY <1>1, <1>2, NobodyWalks DEF OneWalks, SentOnce
<1>5. AllOrEnough
  <2>1. 0 * PerCall = 0
      BY MorningAssumption
  <2> QED
      BY <1>1, <1>2, <2>1, NobodyWalks, VisitedCounts DEF AllOrEnough
<1> QED
    BY <1>3, <1>4, <1>5 DEF MorningInv

\* Another hour of the day leaves visited what was; another day begins anew.
LEMMA PassesHourHolds == ASSUME MorningInv, PassesHour PROVE MorningInv'
<1>1. /\ clock' = clock + 1 /\ tariffOn' = tariffOn /\ summarised' = summarised /\ sent' = sent
      /\ call' = call
    BY DEF PassesHour
<1>2. MorningShapes
    BY DEF MorningInv
<1>3. clock \in Nat /\ clock' \in Nat /\ clock <= clock'
    BY <1>1, <1>2 DEF MorningShapes
<1>4. Day(clock) \in Nat /\ Day(clock') \in Nat /\ Day(clock) <= Day(clock')
    BY <1>3, DaysGoOn
<1>5. finished' \in Nat
  <2>1. finished \in Nat
      BY <1>2 DEF MorningShapes
  <2>2. CASE Day(clock') = Day(clock)
      BY <2>1, <2>2 DEF PassesHour
  <2>3. CASE Day(clock') # Day(clock)
      BY <2>3 DEF PassesHour
  <2> QED
      BY <2>2, <2>3
<1>6. MorningShapes'
  <2>1. \A s \in Shops : summarised[s] \in {Yet} \cup {t \in Nat : t <= clock' /\ IsMorning(t)}
    <3>1. \A t \in Nat : t <= clock => t <= clock'
        BY <1>3
    <3> QED
        BY <1>2, <3>1 DEF MorningShapes
  <2>2. summarised' \in [Shops -> {Yet} \cup {t \in Nat : t <= clock' /\ IsMorning(t)}]
      BY <1>1, <1>2, <2>1 DEF MorningShapes
  <2>3. \A c \in Calls : call'[c].now <= clock'
    <3>1. \A c \in Calls : call[c].now \in Nat /\ call[c].now <= clock
        BY <1>2 DEF MorningShapes, Walks
    <3> QED
        BY <1>1, <1>3, <3>1
  <2>4. \A letter \in sent' : letter[3] \in Nat /\ letter[3] <= Day(clock')
    <3>1. \A letter \in sent : letter[3] \in Nat /\ letter[3] <= Day(clock)
        BY <1>2 DEF MorningShapes
    <3> QED
        BY <1>1, <1>4, <3>1
  <2>5. call' \in [Calls -> Walks] /\ tariffOn' \subseteq Shops
        /\ \A c \in Calls : /\ call'[c].handled <= PerCall
                            /\ call'[c].at = "none" => call'[c] = NoCall
                            /\ call'[c].todo # {} => IsMorning(call'[c].now)
                            /\ call'[c].at = "sending" => call'[c].shop \in Shops
      BY <1>1, <1>2 DEF MorningShapes
  <2> QED
      BY <1>3, <1>5, <2>2, <2>3, <2>4, <2>5 DEF MorningShapes
<1>7. ASSUME calm' PROVE (OneWalks /\ AllOrEnough /\ SentOnce)'
  <2>1. CASE Day(clock') = Day(clock)
    <3>1. calm' = calm /\ twice' = twice /\ finished' = finished
        BY <2>1 DEF PassesHour
    <3>2. OneWalks /\ AllOrEnough /\ SentOnce
        BY <1>7, <3>1 DEF MorningInv
    <3>3. Visited' = Visited
        BY <1>1, <2>1 DEF Visited
    <3> QED
        BY <1>1, <2>1, <3>1, <3>2, <3>3 DEF OneWalks, AllOrEnough, SentOnce
  <2>2. CASE Day(clock') # Day(clock)
    <3>1. twice' = FALSE /\ finished' = 0 /\ \A c \in Calls : call[c] = NoCall
        BY <1>7, <2>2 DEF PassesHour
    <3>2. \A letter \in sent' : letter[3] # Day(clock')
      <4>1. \A letter \in sent : letter[3] \in Nat /\ letter[3] <= Day(clock)
          BY <1>2 DEF MorningShapes
      <4> QED
          BY <1>1, <1>4, <2>2, <4>1
    <3>3. OneWalks' /\ SentOnce'
        BY <1>1, <3>1, <3>2, NobodyWalks DEF OneWalks, SentOnce
    <3>4. AllOrEnough'
      <4>1. 0 * PerCall = 0 /\ 0 + 0 = 0
          BY MorningAssumption
      <4>2. Visited' \subseteq Shops /\ Cardinality(Visited') \in Nat
        <5>1. Visited' \subseteq Shops /\ IsFiniteSet(Shops)
            BY MorningAssumption DEF Visited
        <5> QED
            BY <5>1, FS_Subset, FS_CardinalityType
      <4>3. Cardinality(Visited)' \in Nat
          BY <4>2
      <4> QED
          BY <1>1, <3>1, <4>1, <4>3, NobodyWalks DEF AllOrEnough
    <3> QED
        BY <3>3, <3>4
  <2> QED
      BY <2>1, <2>2
<1> QED
    BY <1>6, <1>7 DEF MorningInv

\* What a call takes with it: the shops that are due at the hour it came.
LEMMA AsksHolds == ASSUME MorningInv, NEW c \in Calls, Asks(c) PROVE MorningInv'
<1>1. PICK due : due = {s \in Shops : s \in tariffOn /\ DueForSummary(clock, summarised[s])}
    OBVIOUS
<1>2. PICK walk : walk = [NoCall EXCEPT !.at = "walking", !.now = clock, !.todo = due]
    OBVIOUS
<1>3. /\ call[c] = NoCall /\ call' = [call EXCEPT ![c] = walk]
      /\ calm' = (calm /\ \A other \in Calls : call[other] = NoCall)
      /\ UNCHANGED <<clock, tariffOn, summarised, sent, twice, finished>>
    BY <1>1, <1>2 DEF Asks
<1>4. MorningShapes
    BY DEF MorningInv
<1>5. walk.at = "walking" /\ walk.now = clock /\ walk.todo = due /\ walk.handled = 0
      /\ walk.shop = 0 /\ walk \in Walks
  <2>1. due \subseteq Shops /\ clock \in Nat
      BY <1>1, <1>4 DEF MorningShapes
  <2> QED
      BY <1>2, <2>1 DEF NoCall, Walks
<1>6. call' \in [Calls -> Walks] /\ call'[c] = walk /\ \A d \in Calls \ {c} : call'[d] = call[d]
    BY <1>3, <1>4, <1>5 DEF MorningShapes
<1>7. due # {} => IsMorning(clock)
    BY <1>1 DEF DueForSummary
<1>8. MorningShapes'
  <2>1. \A d \in Calls :
          /\ call'[d].handled <= PerCall /\ call'[d].now <= clock
          /\ call'[d].at = "none" => call'[d] = NoCall
          /\ call'[d].todo # {} => IsMorning(call'[d].now)
          /\ call'[d].at = "sending" => call'[d].shop \in Shops
    <3>1. 0 <= PerCall /\ clock <= clock
        BY <1>4, MorningAssumption DEF MorningShapes
    <3>2. ASSUME NEW d \in Calls, d # c
          PROVE  /\ call'[d].handled <= PerCall /\ call'[d].now <= clock
                 /\ call'[d].at = "none" => call'[d] = NoCall
                 /\ call'[d].todo # {} => IsMorning(call'[d].now)
                 /\ call'[d].at = "sending" => call'[d].shop \in Shops
        BY <1>4, <1>6, <3>2 DEF MorningShapes
    <3> QED
        BY <1>5, <1>6, <1>7, <3>1, <3>2
  <2> QED
      BY <1>3, <1>4, <1>6, <2>1 DEF MorningShapes
<1>9. Visited' = Visited
    BY <1>3 DEF Visited
<1>10. ASSUME calm' PROVE (OneWalks /\ AllOrEnough /\ SentOnce)'
  <2>1. OneWalks /\ AllOrEnough /\ SentOnce /\ \A d \in Calls : call[d] = NoCall
      BY <1>3, <1>10 DEF MorningInv
  <2>2. \A d \in Calls \ {c} : call'[d] = NoCall
      BY <1>6, <2>1
  <2>3. due \cap Visited = {}
      BY <1>1, YetIsNoHour DEF Visited, DueForSummary
  <2>4. IsMorning(clock) => tariffOn \subseteq Visited \cup due
      BY <1>1, <1>4 DEF Visited, DueForSummary, MorningShapes
  <2>5. OneWalks'
      BY <1>3, <1>5, <1>6, <1>9, <2>2, <2>3, <2>4 DEF OneWalks
  <2>6. AllOrEnough'
    <3>1. \A d \in Calls : call'[d].handled = call[d].handled
        BY <1>3, <1>5, <1>6, <2>1, NobodyWalks
    <3> QED
        BY <1>3, <1>9, <2>1, <3>1 DEF AllOrEnough
  <2>7. SentOnce'
    <3>1. \A d \in Calls : call'[d].at # "sending"
        BY <1>5, <1>6, <2>2, NobodyWalks
    <3> QED
        BY <1>3, <1>9, <2>1, <3>1 DEF SentOnce
  <2> QED
      BY <2>5, <2>6, <2>7
<1> QED
    BY <1>8, <1>10 DEF MorningInv

\* One shop is written down: it is visited then, and before the call no more.
LEMMA MarksHolds == ASSUME MorningInv, NEW c \in Calls, Marks(c) PROVE MorningInv'
<1>1. PICK old : old = call[c]
    OBVIOUS
<1>2. PICK s \in old.todo :
         /\ summarised' = [summarised EXCEPT ![s] = old.now]
         /\ call' = [call EXCEPT ![c].at = "sending", ![c].todo = @ \ {s},
                                 ![c].handled = @ + 1, ![c].shop = s]
    BY <1>1 DEF Marks
<1>3. PICK walk : walk = [at |-> "sending", now |-> old.now, todo |-> old.todo \ {s},
                          handled |-> old.handled + 1, shop |-> s]
    OBVIOUS
<1>4. MorningShapes
    BY DEF MorningInv
<1>5. /\ old \in Walks /\ old.handled \in Nat /\ old.handled < PerCall /\ old.at = "walking"
      /\ old.now \in Nat /\ old.now <= clock /\ IsMorning(old.now)
      /\ old.todo \subseteq Shops /\ s \in Shops
    BY <1>1, <1>2, <1>4 DEF MorningShapes, Walks, Marks
<1>6. /\ walk.at = "sending" /\ walk.todo = old.todo \ {s} /\ walk.handled = old.handled + 1
      /\ walk.shop = s /\ walk.now = old.now
    BY <1>3
<1>7. walk \in Walks
  <2>1. s \in Nat /\ old.handled + 1 \in Nat /\ old.todo \ {s} \in SUBSET Shops
      BY <1>5, MorningAssumption
  <2> QED
      BY <1>3, <1>5, <2>1 DEF Walks
<1>8. call' \in [Calls -> Walks] /\ call'[c] = walk /\ \A d \in Calls \ {c} : call'[d] = call[d]
  <2>1. call' = [call EXCEPT ![c] = walk]
      BY <1>1, <1>2, <1>3, <1>4 DEF MorningShapes, Walks
  <2> QED
      BY <1>4, <1>7, <2>1 DEF MorningShapes
<1>9. UNCHANGED <<clock, tariffOn, sent, twice, finished, calm>>
    BY DEF Marks
<1>10. /\ summarised' \in [Shops -> {Yet} \cup {t \in Nat : t <= clock /\ IsMorning(t)}]
       /\ summarised'[s] = old.now /\ \A u \in Shops \ {s} : summarised'[u] = summarised[u]
    BY <1>2, <1>4, <1>5 DEF MorningShapes
<1>11. MorningShapes'
  <2>1. \A d \in Calls :
          /\ call'[d].handled <= PerCall /\ call'[d].now <= clock
          /\ call'[d].at = "none" => call'[d] = NoCall
          /\ call'[d].todo # {} => IsMorning(call'[d].now)
          /\ call'[d].at = "sending" => call'[d].shop \in Shops
    <3>1. old.handled + 1 <= PerCall
        BY <1>5, MorningAssumption
    <3>2. ASSUME NEW d \in Calls, d # c
          PROVE  /\ call'[d].handled <= PerCall /\ call'[d].now <= clock
                 /\ call'[d].at = "none" => call'[d] = NoCall
                 /\ call'[d].todo # {} => IsMorning(call'[d].now)
                 /\ call'[d].at = "sending" => call'[d].shop \in Shops
        BY <1>4, <1>8, <3>2 DEF MorningShapes
    <3> QED
        BY <1>5, <1>6, <1>8, <3>1, <3>2
  <2> QED
      BY <1>4, <1>8, <1>9, <1>10, <2>1 DEF MorningShapes
<1>12. ASSUME calm PROVE (OneWalks /\ AllOrEnough /\ SentOnce)'
  <2>1. OneWalks /\ AllOrEnough /\ SentOnce
      BY <1>12 DEF MorningInv
  <2>2. old # NoCall /\ \A d \in Calls \ {c} : call[d] = NoCall /\ call'[d] = NoCall
      BY <1>1, <1>5, <1>8, <2>1, NobodyWalks DEF OneWalks
  <2>3. /\ Day(old.now) = Day(clock) /\ old.todo \cap Visited = {}
        /\ tariffOn \subseteq Visited \cup old.todo
      BY <1>1, <1>5, <2>1, <2>2 DEF OneWalks
  <2>4. Visited' = Visited \cup {s} /\ s \notin Visited
    <3>1. old.now # Yet
        BY <1>5, YetIsNoHour
    <3>2. s \in Visited'
        BY <1>5, <1>9, <1>10, <2>3, <3>1 DEF Visited
    <3>3. \A u \in Shops \ {s} : u \in Visited' <=> u \in Visited
        BY <1>9, <1>10 DEF Visited
    <3>4. Visited \subseteq Shops /\ Visited' \subseteq Shops
        BY DEF Visited
    <3> QED
        BY <1>2, <1>5, <2>3, <3>2, <3>3, <3>4
  <2>5. OneWalks'
    <3>1. walk.todo \cap Visited' = {} /\ tariffOn \subseteq Visited' \cup walk.todo
        BY <1>6, <2>3, <2>4
    <3> QED
        BY <1>6, <1>8, <1>9, <2>2, <2>3, <3>1 DEF OneWalks
  <2>6. AllOrEnough'
    <3>1. Cardinality(Visited') = Cardinality(Visited) + 1 /\ Cardinality(Visited) \in Nat
        BY <2>4, VisitedCounts, FS_AddElement
    <3>2. finished * PerCall \in Nat
        BY <1>4, MorningAssumption DEF MorningShapes
    <3>3. CASE tariffOn \subseteq Visited
        BY <1>9, <2>4, <3>3 DEF AllOrEnough
    <3>4. CASE ~(tariffOn \subseteq Visited)
      <4>1. finished * PerCall + old.handled <= Cardinality(Visited)
            /\ finished * PerCall <= Cardinality(Visited)
          BY <1>1, <2>1, <3>4 DEF AllOrEnough
      <4>2. finished * PerCall + walk.handled <= Cardinality(Visited')
            /\ finished * PerCall <= Cardinality(Visited') /\ finished * PerCall + 0 <= Cardinality(Visited')
          BY <1>5, <1>6, <3>1, <3>2, <4>1
      <4>3. \A d \in Calls : finished' * PerCall + call'[d].handled <= Cardinality(Visited')
          BY <1>8, <1>9, <2>2, <4>2, NobodyWalks
      <4> QED
          BY <1>9, <4>2, <4>3 DEF AllOrEnough
    <3> QED
        BY <3>3, <3>4
  <2>7. SentOnce'
    <3>1. \A letter \in sent : letter[3] = Day(clock) => letter[1] # s
        BY <2>1, <2>4 DEF SentOnce
    <3> QED
        BY <1>6, <1>8, <1>9, <2>1, <2>2, <2>4, <3>1, NobodyWalks DEF SentOnce
  <2> QED
      BY <2>5, <2>6, <2>7
<1> QED
    BY <1>9, <1>11, <1>12 DEF MorningInv

\* Nothing of this shop went out today before: so nothing goes out again.
LEMMA SendsHolds == ASSUME MorningInv, NEW c \in Calls, SendsPushToOwners(c) PROVE MorningInv'
<1>1. PICK old : old = call[c]
    OBVIOUS
<1>2. PICK counted \in SUBSET Sites :
         /\ sent' = sent \cup {<<old.shop, site, Day(old.now)>> : site \in counted}
         /\ twice' = (twice \/ {<<old.shop, site, Day(old.now)>> : site \in counted} \cap sent # {})
    BY <1>1 DEF SendsPushToOwners
<1>3. MorningShapes
    BY DEF MorningInv
<1>4. PICK walk : walk = [old EXCEPT !.at = "walking"]
    OBVIOUS
<1>5. /\ old \in Walks /\ old.at = "sending" /\ old.now \in Nat /\ old.now <= clock
      /\ old.shop \in Shops /\ clock \in Nat
    BY <1>1, <1>3 DEF MorningShapes, Walks, SendsPushToOwners
<1>6. /\ walk \in Walks /\ walk.at = "walking" /\ walk.todo = old.todo
      /\ walk.handled = old.handled /\ walk.shop = old.shop /\ walk.now = old.now
    BY <1>4, <1>5 DEF Walks
<1>7. call' \in [Calls -> Walks] /\ call'[c] = walk /\ \A d \in Calls \ {c} : call'[d] = call[d]
    BY <1>1, <1>3, <1>4, <1>6 DEF MorningShapes, SendsPushToOwners
<1>8. UNCHANGED <<clock, tariffOn, summarised, finished, calm>>
    BY DEF SendsPushToOwners
<1>9. \A letter \in sent' : letter \in sent \/ (letter[1] = old.shop /\ letter[3] = Day(old.now))
    BY <1>2
<1>10. MorningShapes'
  <2>1. \A d \in Calls :
          /\ call'[d].handled <= PerCall /\ call'[d].now <= clock
          /\ call'[d].at = "none" => call'[d] = NoCall
          /\ call'[d].todo # {} => IsMorning(call'[d].now)
          /\ call'[d].at = "sending" => call'[d].shop \in Shops
    <3>2. ASSUME NEW d \in Calls, d # c
          PROVE  /\ call'[d].handled <= PerCall /\ call'[d].now <= clock
                 /\ call'[d].at = "none" => call'[d] = NoCall
                 /\ call'[d].todo # {} => IsMorning(call'[d].now)
                 /\ call'[d].at = "sending" => call'[d].shop \in Shops
        BY <1>3, <1>7, <3>2 DEF MorningShapes
    <3>3. old.handled <= PerCall /\ (old.todo # {} => IsMorning(old.now))
        BY <1>1, <1>3 DEF MorningShapes
    <3> QED
        BY <1>5, <1>6, <1>7, <3>2, <3>3
  <2>2. Day(old.now) \in Nat /\ Day(old.now) <= Day(clock)
      BY <1>5, DaysGoOn
  <2>3. \A letter \in sent' : letter[3] \in Nat /\ letter[3] <= Day(clock)
      BY <1>3, <1>9, <2>2 DEF MorningShapes
  <2> QED
      BY <1>3, <1>7, <1>8, <2>1, <2>3 DEF MorningShapes
<1>11. Visited' = Visited
    BY <1>8 DEF Visited
<1>12. ASSUME calm PROVE (OneWalks /\ AllOrEnough /\ SentOnce)'
  <2>1. OneWalks /\ AllOrEnough /\ SentOnce
      BY <1>12 DEF MorningInv
  <2>2. old # NoCall /\ \A d \in Calls \ {c} : call[d] = NoCall /\ call'[d] = NoCall
      BY <1>1, <1>5, <1>7, <2>1, NobodyWalks DEF OneWalks
  <2>3. /\ Day(old.now) = Day(clock) /\ old.todo \cap Visited = {}
        /\ IsMorning(old.now) => tariffOn \subseteq Visited \cup old.todo
      BY <1>1, <2>1, <2>2 DEF OneWalks
  <2>4. OneWalks'
      BY <1>6, <1>7, <1>8, <1>11, <2>2, <2>3 DEF OneWalks
  <2>5. AllOrEnough'
    <3>1. \A d \in Calls : call'[d].handled = call[d].handled
        BY <1>1, <1>6, <1>7
    <3> QED
        BY <1>8, <1>11, <2>1, <3>1 DEF AllOrEnough
  <2>6. /\ old.shop \in Visited /\ ~twice
        /\ \A letter \in sent : letter[3] = Day(clock) => letter[1] # old.shop
      BY <1>1, <1>5, <2>1 DEF SentOnce
  <2>7. ~twice'
    <3>1. \A site : <<old.shop, site, Day(old.now)>> \notin sent
        BY <2>3, <2>6
    <3> QED
        BY <1>2, <2>6, <3>1
  <2>8. \A letter \in sent' : letter[3] = Day(clock) => letter[1] \in Visited
      BY <1>9, <2>1, <2>6 DEF SentOnce
  <2>9. \A d \in Calls : call'[d].at # "sending"
      BY <1>6, <1>7, <2>2, NobodyWalks
  <2>10. SentOnce'
      BY <1>8, <1>11, <2>7, <2>8, <2>9 DEF SentOnce
  <2> QED
      BY <2>4, <2>5, <2>10
<1> QED
    BY <1>8, <1>10, <1>12 DEF MorningInv

\* A call that is gone leaves what it did, and nothing else.
LEMMA CallIsGone ==
    ASSUME MorningInv, NEW c \in Calls, call' = [call EXCEPT ![c] = NoCall],
           UNCHANGED <<clock, tariffOn, summarised, sent, twice, calm>>, finished' \in Nat,
           calm => AllOrEnough'
    PROVE  MorningInv'
<1>1. MorningShapes
    BY DEF MorningInv
<1>2. call' \in [Calls -> Walks] /\ call'[c] = NoCall /\ \A d \in Calls \ {c} : call'[d] = call[d]
    BY <1>1, NobodyWalks DEF MorningShapes
<1>3. MorningShapes'
  <2>1. \A d \in Calls :
          /\ call'[d].handled <= PerCall /\ call'[d].now <= clock
          /\ call'[d].at = "none" => call'[d] = NoCall
          /\ call'[d].todo # {} => IsMorning(call'[d].now)
          /\ call'[d].at = "sending" => call'[d].shop \in Shops
    <3>1. 0 <= PerCall /\ 0 <= clock
        BY <1>1, MorningAssumption DEF MorningShapes
    <3>2. ASSUME NEW d \in Calls, d # c
          PROVE  /\ call'[d].handled <= PerCall /\ call'[d].now <= clock
                 /\ call'[d].at = "none" => call'[d] = NoCall
                 /\ call'[d].todo # {} => IsMorning(call'[d].now)
                 /\ call'[d].at = "sending" => call'[d].shop \in Shops
        BY <1>1, <1>2, <3>2 DEF MorningShapes
    <3>3. NoCall.now = 0
        BY DEF NoCall
    <3> QED
        BY <1>2, <3>1, <3>2, <3>3, NobodyWalks
  <2> QED
      BY <1>1, <1>2, <2>1 DEF MorningShapes
<1>4. Visited' = Visited
    BY DEF Visited
<1>5. ASSUME calm PROVE OneWalks' /\ SentOnce'
  <2>1. OneWalks /\ SentOnce
      BY <1>5 DEF MorningInv
  <2>2. \A d \in Calls : call'[d] # NoCall => d # c /\ call'[d] = call[d]
      BY <1>2
  <2>3. \A d \in Calls : call'[d].at = "sending" => call'[d] = call[d]
      BY <1>2, NobodyWalks
  <2>4. OneWalks'
      BY <1>4, <2>1, <2>2 DEF OneWalks
  <2>5. SentOnce'
      BY <1>4, <2>1, <2>3 DEF SentOnce
  <2> QED
      BY <2>4, <2>5
<1> QED
    BY <1>3, <1>5 DEF MorningInv

LEMMA DiesHolds == ASSUME MorningInv, NEW c \in Calls, Dies(c) PROVE MorningInv'
<1>1. /\ call' = [call EXCEPT ![c] = NoCall]
      /\ UNCHANGED <<clock, tariffOn, summarised, sent, twice, calm>> /\ finished' = finished
    BY DEF Dies
<1>2. finished \in Nat /\ call \in [Calls -> Walks] /\ finished' \in Nat
    BY <1>1 DEF MorningInv, MorningShapes
<1>3. ASSUME calm PROVE AllOrEnough'
  <2>1. AllOrEnough
      BY <1>3 DEF MorningInv
  <2>2. Visited' = Visited
      BY <1>1 DEF Visited
  <2>3. CASE tariffOn \subseteq Visited
      BY <1>1, <2>2, <2>3 DEF AllOrEnough
  <2>4. CASE ~(tariffOn \subseteq Visited)
    <3>1. finished * PerCall <= Cardinality(Visited) /\ finished * PerCall \in Nat
          /\ \A d \in Calls : finished * PerCall + call[d].handled <= Cardinality(Visited)
        BY <2>1, <2>4, <1>2, MorningAssumption DEF AllOrEnough
    <3>2. finished * PerCall + 0 <= Cardinality(Visited)
        BY <3>1
    <3>3. \A d \in Calls : call'[d] = IF d = c THEN NoCall ELSE call[d]
        BY <1>1, <1>2
    <3>4. \A d \in Calls : finished * PerCall + call'[d].handled <= Cardinality(Visited)
        BY <3>1, <3>2, <3>3, NobodyWalks
    <3> QED
        BY <1>1, <2>2, <3>1, <3>4 DEF AllOrEnough
  <2> QED
      BY <2>3, <2>4
<1> QED
    BY <1>1, <1>2, <1>3, CallIsGone

\* It has none before it any more, or took as many as a call takes.
LEMMA AnswersHolds == ASSUME MorningInv, NEW c \in Calls, Answers(c) PROVE MorningInv'
<1>1. /\ call' = [call EXCEPT ![c] = NoCall]
      /\ UNCHANGED <<clock, tariffOn, summarised, sent, twice, calm>>
      /\ finished' = IF IsMorning(call[c].now) /\ Day(call[c].now) = Day(clock)
                     THEN finished + 1 ELSE finished
      /\ call[c].at = "walking" /\ (call[c].todo = {} \/ call[c].handled >= PerCall)
    BY DEF Answers
<1>2. finished \in Nat /\ call \in [Calls -> Walks] /\ finished' \in Nat
    BY <1>1 DEF MorningInv, MorningShapes
<1>3. call[c].handled \in Nat /\ call[c].handled <= PerCall /\ call[c] # NoCall
    BY <1>1, <1>2, NobodyWalks DEF MorningInv, MorningShapes, Walks
<1>4. Visited' = Visited
    BY <1>1 DEF Visited
<1>5. ASSUME calm PROVE AllOrEnough'
  <2>1. OneWalks /\ AllOrEnough
      BY <1>5 DEF MorningInv
  <2>2. \A d \in Calls : call'[d] = NoCall
    <3>1. \A d \in Calls \ {c} : call[d] = NoCall
        BY <1>3, <2>1 DEF OneWalks
    <3> QED
        BY <1>1, <1>2, <3>1
  <2>3. CASE tariffOn \subseteq Visited
      BY <1>1, <1>4, <2>3 DEF AllOrEnough
  <2>4. CASE ~(tariffOn \subseteq Visited)
    <3>1. finished * PerCall <= Cardinality(Visited) /\ finished * PerCall \in Nat
          /\ finished * PerCall + call[c].handled <= Cardinality(Visited)
          /\ Cardinality(Visited) \in Nat
        BY <2>1, <2>4, <1>2, MorningAssumption, VisitedCounts DEF AllOrEnough
    <3>2. finished' * PerCall <= Cardinality(Visited)
      <4>1. CASE finished' = finished
          BY <3>1, <4>1
      <4>2. CASE finished' # finished
        <5>1. IsMorning(call[c].now) /\ finished' = finished + 1
            BY <1>1, <4>2
        <5>2. call[c].todo # {}
            BY <1>3, <2>1, <2>4, <5>1 DEF OneWalks
        <5>3. call[c].handled = PerCall
            BY <1>1, <1>3, <5>2, MorningAssumption
        <5>4. (finished + 1) * PerCall = finished * PerCall + PerCall
            BY <1>2, MorningAssumption
        <5> QED
            BY <3>1, <5>1, <5>3, <5>4
      <4> QED
          BY <4>1, <4>2
    <3>3. finished' * PerCall \in Nat
      <4>1. \A m, n \in Nat : m * n \in Nat
          OBVIOUS
      <4> QED
          BY <1>2, <4>1, MorningAssumption
    <3>4. finished' * PerCall + 0 <= Cardinality(Visited)
        BY <3>2, <3>3
    <3> QED
        BY <1>1, <1>4, <2>2, <3>2, <3>4, NobodyWalks DEF AllOrEnough
  <2> QED
      BY <2>3, <2>4
<1> QED
    BY <1>1, <1>2, <1>5, CallIsGone

LEMMA MorningInvHolds == MorningSpec => []MorningInv
<1>1. ASSUME MorningInv, [MorningNext]_morningVars PROVE MorningInv'
  <2>1. ASSUME PassesHour PROVE MorningInv'
      BY <1>1, <2>1, PassesHourHolds
  <2>2. ASSUME NEW c \in Calls, Asks(c) PROVE MorningInv'
      BY <1>1, <2>2, AsksHolds
  <2>3. ASSUME NEW c \in Calls, Marks(c) PROVE MorningInv'
      BY <1>1, <2>3, MarksHolds
  <2>4. ASSUME NEW c \in Calls, SendsPushToOwners(c) PROVE MorningInv'
      BY <1>1, <2>4, SendsHolds
  <2>5. ASSUME NEW c \in Calls, Answers(c) PROVE MorningInv'
      BY <1>1, <2>5, AnswersHolds
  <2>6. ASSUME NEW c \in Calls, Dies(c) PROVE MorningInv'
      BY <1>1, <2>6, DiesHolds
  <2>7. CASE UNCHANGED morningVars
    <3>1. Visited' = Visited
        BY <2>7 DEF morningVars, Visited
    <3> QED
        BY <1>1, <2>7, <3>1
           DEF morningVars, MorningInv, MorningShapes, OneWalks, AllOrEnough, SentOnce
  <2> QED
      BY <1>1, <2>1, <2>2, <2>3, <2>4, <2>5, <2>6, <2>7 DEF MorningNext
<1> QED
    BY <1>1, MorningInitHolds, PTL DEF MorningSpec

\* Summaries are marked with morning hours that were, and a call takes PerCall shops
\* at most (MorningTypeOK).
THEOREM MorningTypes == MorningSpec => []MorningTypeOK
<1>1. MorningInv => MorningTypeOK
  <2> SUFFICES ASSUME MorningInv PROVE MorningTypeOK
      OBVIOUS
  <2>1. MorningShapes
      BY DEF MorningInv
  <2>2. \A t \in Nat : t <= clock => t \in 0..clock
      BY <2>1 DEF MorningShapes
  <2> QED
      BY <2>1, <2>2 DEF MorningShapes, MorningTypeOK
<1> QED
    BY <1>1, MorningInvHolds, PTL

\* While no two calls walk at once no summary goes out twice a day (OnceAMorning),
\* whatever died in between.
THEOREM AlwaysOnceAMorning == MorningSpec => []OnceAMorning
<1>1. MorningInv => OnceAMorning
    BY DEF MorningInv, OnceAMorning, SentOnce
<1> QED
    BY <1>1, MorningInvHolds, PTL

\* Once as many calls came to their end as it takes PerCall shops at a time, every
\* shop that pays was visited (EveryoneIsReached).
THEOREM EveryoneIsAlwaysReached == MorningSpec => []EveryoneIsReached
<1>1. MorningInv => EveryoneIsReached
  <2> SUFFICES ASSUME MorningInv, calm, finished * PerCall >= Cardinality(Shops)
               PROVE  tariffOn \subseteq Visited
      BY DEF EveryoneIsReached, Visited
  <2>1. CASE finished * PerCall <= Cardinality(Visited)
    <3>1. finished * PerCall \in Nat /\ tariffOn \subseteq Shops
        BY MorningAssumption DEF MorningInv, MorningShapes
    <3>2. IsFiniteSet(Shops) /\ Cardinality(Shops) \in Nat
        BY MorningAssumption, FS_CardinalityType
    <3>3. Cardinality(Visited) = Cardinality(Shops)
        BY <2>1, <3>1, <3>2, VisitedCounts
    <3> QED
        BY <3>1, <3>3, VisitedCounts
  <2> QED
      BY <2>1 DEF MorningInv, AllOrEnough
<1> QED
    BY <1>1, MorningInvHolds, PTL

-----------------------------------------------------------------------------
(***************************************************************************)
(* What to order, for any policies, demands, packs, lead times and dates,  *)
(* and any number of screens and orders.                                   *)
(***************************************************************************)
OrderRows ==
    [ordered : Nat \ {0}, received : Nat, status : {"draft", "sent", "cancelled", "called off"},
     due : Int, upTo : Nat, overtaken : BOOLEAN]
LookingRows ==
    [at : {"away", "looking", "ordering"}, day : Nat, read : SUBSET Figures, found : Nat,
     suggestion : Nat, upTo : Nat, overtaken : BOOLEAN]

\* What is owed on an order on a day, and on all of them.
OwedOn(o, d) ==
    IF o.status = "sent" /\ ~(d > o.due + Max({Lead, Grace})) THEN Outstanding(o) ELSE 0
OwedOnAll(list, d) == Sum([i \in DOMAIN list |-> OwedOn(list[i], d)])

ReplenishmentShapes ==
    /\ date \in Nat /\ inStock \in Nat /\ inTransit \in Nat
    /\ orders \in Seq(OrderRows) /\ looking \in [Screens -> LookingRows]
    /\ \A b \in Screens :
          /\ looking[b].at = "looking" =>
                looking[b].read \subseteq {"stock", "transit"} /\ looking[b].day <= date
          /\ looking[b].at = "ordering" => looking[b].read = Figures /\ looking[b].suggestion # 0

\* What is there of the figures that were read.
Held(read, stock, transit) ==
    (IF "stock" \in read THEN stock ELSE 0) + (IF "transit" \in read THEN transit ELSE 0)

\* While nothing has overtaken it, a screen has found at least what is there, and
\* there is room for what it suggests.
RoomForMore(quantity, upTo) == AtHandAndComing + quantity < upTo + UnitsPerPack
ScreensKnow ==
    \A b \in Screens : ~looking[b].overtaken =>
        /\ looking[b].at = "looking" => Held(looking[b].read, inStock, inTransit) <= looking[b].found
        /\ looking[b].at = "ordering" => RoomForMore(looking[b].suggestion, looking[b].upTo)

ReplenishmentInv == ReplenishmentShapes /\ ScreensKnow /\ NeverOrderedTwice

-----------------------------------------------------------------------------
LEMMA OwedType ==
    ASSUME NEW o \in OrderRows, NEW d \in Int
    PROVE  /\ Outstanding(o) \in Nat /\ OwedOn(o, d) \in Nat
           /\ Outstanding(o) = IF o.received < o.ordered THEN o.ordered - o.received ELSE 0
           /\ o.status # "sent" => OwedOn(o, d) = 0
<1>1. o.ordered \in Nat /\ o.received \in Nat
    BY DEF OrderRows
<1>2. PICK n : n = o.ordered - o.received
    OBVIOUS
<1>3. n \in Int /\ (o.received < o.ordered <=> n > 0)
    BY <1>1, <1>2
<1>4. Max({n, 0}) = IF n > 0 THEN n ELSE 0
  <2>1. PICK m : m = IF n > 0 THEN n ELSE 0
      OBVIOUS
  <2>2. m \in {n, 0} /\ (\A y \in {n, 0} : m >= y) /\ \A y \in {n, 0} : (\A z \in {n, 0} : y >= z) => y = m
      BY <1>3, <2>1
  <2>3. Max({n, 0}) = m
      BY <2>2 DEF Max
  <2> QED
      BY <2>1, <2>3
<1>5. Outstanding(o) = IF n > 0 THEN n ELSE 0
    BY <1>2, <1>4 DEF Outstanding
<1>6. Outstanding(o) \in Nat
    BY <1>3, <1>5
<1> QED
    BY <1>2, <1>3, <1>5, <1>6 DEF OwedOn

OrderList(list) == list \in Seq(OrderRows)

LEMMA OrdersOf ==
    ASSUME NEW list, OrderList(list)
    PROVE  /\ DOMAIN list = 1..Len(list) /\ Len(list) \in Nat /\ IsFiniteSet(DOMAIN list)
           /\ \A i \in DOMAIN list : list[i] \in OrderRows
<1>1. DOMAIN list = 1..Len(list) /\ Len(list) \in Nat /\ \A i \in DOMAIN list : list[i] \in OrderRows
    BY DEF OrderList
<1> QED
    BY <1>1, FS_Interval

LEMMA OwedOnAllType ==
    ASSUME NEW list, OrderList(list), NEW d \in Int
    PROVE  /\ OwedOnAll(list, d) \in Nat /\ IsFiniteSet(DOMAIN list)
           /\ [i \in DOMAIN list |-> OwedOn(list[i], d)] \in [DOMAIN list -> Nat]
<1>1. PICK f : f = [i \in DOMAIN list |-> OwedOn(list[i], d)]
    OBVIOUS
<1>2. \A i \in DOMAIN list : OwedOn(list[i], d) \in Nat
    BY OrdersOf, OwedType
<1>3. f \in [DOMAIN list -> Nat]
    BY <1>1, <1>2
<1> QED
    BY <1>1, <1>3, OrdersOf, NatSum DEF OwedOnAll

\* One order changes.
LEMMA OneOrderChanges ==
    ASSUME NEW list, OrderList(list), NEW new, OrderList(new), NEW d \in Int,
           NEW k \in DOMAIN list, DOMAIN new = DOMAIN list,
           \A i \in DOMAIN list \ {k} : new[i] = list[i]
    PROVE  /\ OwedOnAll(new, d) = OwedOnAll(list, d) + OwedOn(new[k], d) - OwedOn(list[k], d)
           /\ OwedOn(new[k], d) \in Nat /\ OwedOn(list[k], d) \in Nat
<1>1. PICK f : f = [i \in DOMAIN list |-> OwedOn(list[i], d)]
    OBVIOUS
<1>2. PICK h : h = [i \in DOMAIN list |-> OwedOn(new[i], d)]
    OBVIOUS
<1>3. f \in [DOMAIN list -> Nat] /\ h \in [DOMAIN list -> Nat] /\ IsFiniteSet(DOMAIN list)
  <2>1. f \in [DOMAIN list -> Nat] /\ IsFiniteSet(DOMAIN list)
      BY <1>1, OwedOnAllType
  <2>2. [i \in DOMAIN new |-> OwedOn(new[i], d)] \in [DOMAIN new -> Nat]
      BY OwedOnAllType
  <2> QED
      BY <1>2, <2>1, <2>2
<1>4. OneChanged(f, h, DOMAIN list, k)
  <2>1. f \in [DOMAIN list -> Int] /\ h \in [DOMAIN list -> Int]
      BY <1>3
  <2>2. \A i \in DOMAIN list \ {k} : h[i] = f[i]
      BY <1>1, <1>2
  <2> QED
      BY <1>3, <2>1, <2>2 DEF OneChanged
<1>5. Sum(h) = Sum(f) + h[k] - f[k] /\ Sum(f) \in Int /\ Sum(h) \in Int
  <2>1. PICK S : S = DOMAIN list
      OBVIOUS
  <2>2. OneChanged(f, h, S, k)
      BY <1>4, <2>1
  <2> QED
      BY <2>2, OneChanges
<1>6. OwedOnAll(list, d) = Sum(f) /\ OwedOnAll(new, d) = Sum(h)
    BY <1>1, <1>2 DEF OwedOnAll
<1>7. f[k] = OwedOn(list[k], d) /\ h[k] = OwedOn(new[k], d) /\ f[k] \in Nat /\ h[k] \in Nat
    BY <1>1, <1>2, <1>3
<1> QED
    BY <1>5, <1>6, <1>7

\* A draft is nothing that is owed.
LEMMA DraftOwesNothing ==
    ASSUME NEW list, OrderList(list), NEW o \in OrderRows, o.status = "draft", NEW d \in Int
    PROVE  OwedOnAll(Append(list, o), d) = OwedOnAll(list, d)
<1>1. PICK n : n = Len(list)
    OBVIOUS
<1>2. PICK new : new = Append(list, o)
    OBVIOUS
<1>3. list \in Seq(OrderRows) /\ n \in Nat /\ DOMAIN list = 1..n
    BY <1>1 DEF OrderList
<1>4. /\ DOMAIN new = 1..(n + 1) /\ new[n + 1] = o /\ \A i \in 1..n : new[i] = list[i]
    BY <1>1, <1>2, <1>3
<1>5. 1..(n + 1) = (1..n) \cup {n + 1} /\ n + 1 \notin 1..n /\ IsFiniteSet(1..n)
  <2>1. IsFiniteSet(1..n)
      BY <1>3, FS_Interval
  <2>2. 1..(n + 1) = (1..n) \cup {n + 1} /\ n + 1 \notin 1..n
      BY <1>3
  <2> QED
      BY <2>1, <2>2
<1>6. PICK f : f = [i \in DOMAIN list |-> OwedOn(list[i], d)]
    OBVIOUS
<1>7. PICK h : h = [i \in DOMAIN new |-> OwedOn(new[i], d)]
    OBVIOUS
<1>8. f \in [1..n -> Nat]
    BY <1>3, <1>6, OwedOnAllType
<1>9. h[n + 1] = 0 /\ \A i \in 1..n : h[i] = f[i]
  <2>1. OwedOn(o, d) = 0
      BY DEF OwedOn
  <2> QED
      BY <1>3, <1>4, <1>5, <1>6, <1>7, <2>1
<1>10. \A i \in 1..n : h[i] \in Int /\ f[i] \in Int
    BY <1>8, <1>9
<1>11. SumOver(h, (1..n) \cup {n + 1}) = SumOver(h, 1..n) + h[n + 1]
  <2>1. PICK S : S = 1..n
      OBVIOUS
  <2>2. PICK x : x = n + 1
      OBVIOUS
  <2>3. IsFiniteSet(S) /\ x \notin S /\ h[x] \in Int /\ \A y \in S : h[y] \in Int
      BY <1>5, <1>9, <1>10, <2>1, <2>2
  <2>4. SumOver(h, S \cup {x}) = SumOver(h, S) + h[x]
      BY <2>3, SumOverAdd
  <2> QED
      BY <2>1, <2>2, <2>4
<1>12. SumOver(h, 1..n) = SumOver(f, 1..n) /\ SumOver(f, 1..n) \in Int
    BY <1>5, <1>9, <1>10, SumOverSame, SumOverType
<1>13. Sum(h) = SumOver(h, 1..(n + 1)) /\ Sum(f) = SumOver(f, 1..n)
  <2>1. DOMAIN h = 1..(n + 1) /\ DOMAIN f = 1..n
      BY <1>3, <1>4, <1>6, <1>7
  <2> QED
      BY <2>1, SumIsOverDomain
<1>14. Sum(h) = Sum(f)
  <2>1. SumOver(h, 1..(n + 1)) = SumOver(h, 1..n) + h[n + 1]
      BY <1>5, <1>11
  <2> QED
      BY <1>9, <1>12, <1>13, <2>1
<1>15. OwedOnAll(new, d) = Sum(h) /\ OwedOnAll(list, d) = Sum(f)
    BY <1>6, <1>7 DEF OwedOnAll
<1> QED
    BY <1>2, <1>14, <1>15

\* What is given up is given up for good, unless it comes.
LEMMA OwedLater ==
    ASSUME NEW list, OrderList(list), NEW d \in Int, NEW e \in Int, d <= e
    PROVE  OwedOnAll(list, e) <= OwedOnAll(list, d)
<1>1. PICK f : f = [i \in DOMAIN list |-> OwedOn(list[i], d)]
    OBVIOUS
<1>2. PICK h : h = [i \in DOMAIN list |-> OwedOn(list[i], e)]
    OBVIOUS
<1>4. f \in [DOMAIN list -> Nat] /\ h \in [DOMAIN list -> Nat] /\ IsFiniteSet(DOMAIN list)
    BY <1>1, <1>2, OwedOnAllType
<1>5. \A i \in DOMAIN list : h[i] <= f[i]
  <2> SUFFICES ASSUME NEW i \in DOMAIN list PROVE h[i] <= f[i]
      OBVIOUS
  <2>1. f[i] = OwedOn(list[i], d) /\ h[i] = OwedOn(list[i], e) /\ f[i] \in Nat /\ h[i] \in Nat
      BY <1>1, <1>2, <1>4
  <2>2. PICK late : late = list[i].due + Max({Lead, Grace})
      OBVIOUS
  <2>3. late \in Int
    <3>1. list[i].due \in Int
        BY OrdersOf DEF OrderRows
    <3>2. Lead \in Nat /\ Grace \in Nat
        BY ReplenishmentAssumption
    <3>3. Max({Lead, Grace}) \in {Lead, Grace}
        BY <3>2, NewestOfTwo
    <3> QED
        BY <2>2, <3>1, <3>2, <3>3
  <2>4. d > late => e > late
      BY <2>3
  <2>5. OwedOn(list[i], e) = OwedOn(list[i], d) \/ OwedOn(list[i], e) = 0
      BY <2>2, <2>4 DEF OwedOn
  <2> QED
      BY <2>1, <2>5
<1>6. \A i \in DOMAIN list : f[i] \in Int /\ h[i] \in Int
    BY <1>4
<1>7. SumOver(h, DOMAIN list) <= SumOver(f, DOMAIN list)
    BY <1>4, <1>5, <1>6, SumOverMonotone
<1>8. DOMAIN f = DOMAIN list /\ DOMAIN h = DOMAIN list
    BY <1>4
<1> QED
    BY <1>1, <1>2, <1>7, <1>8, SumIsOverDomain DEF OwedOnAll

\* Whole packs for what is missing, and less than a pack more.
LEMMA PacksFill ==
    ASSUME NEW quantity \in Int
    PROVE  /\ RoundToPacks(quantity) \in Nat
           /\ RoundToPacks(quantity) # 0 => RoundToPacks(quantity) < quantity + UnitsPerPack
<1>1. UnitsPerPack \in Nat \ {0}
    BY ReplenishmentAssumption
<1>2. CASE quantity <= 0
    BY <1>2 DEF RoundToPacks
<1>3. CASE ~(quantity <= 0)
  <2>1. PICK x : x = quantity + UnitsPerPack - 1
      OBVIOUS
  <2>2. x \in Nat
      BY <1>1, <1>3, <2>1
  <2>3. PICK q : q = x \div UnitsPerPack
      OBVIOUS
  <2>4. q \in Nat /\ q * UnitsPerPack \in Nat /\ q * UnitsPerPack <= x
    <3>1. q \in Nat /\ UnitsPerPack * q <= x
        BY <1>1, <2>2, <2>3
    <3>2. q * UnitsPerPack = UnitsPerPack * q /\ q * UnitsPerPack \in Nat
        BY <1>1, <3>1
    <3> QED
        BY <3>1, <3>2
  <2>5. RoundToPacks(quantity) = q * UnitsPerPack
      BY <1>3, <2>1, <2>3 DEF RoundToPacks
  <2>6. PICK n : n = q * UnitsPerPack
      OBVIOUS
  <2>7. n \in Nat /\ n <= x
      BY <2>4, <2>6
  <2>8. n < quantity + UnitsPerPack
      BY <1>1, <2>1, <2>7
  <2> QED
      BY <2>5, <2>6, <2>7, <2>8
<1> QED
    BY <1>2, <1>3

\* What is suggested fills up to where it is meant to, and less than a pack beyond.
LEMMA SuggestionFits ==
    ASSUME NEW position \in Nat, NEW policy \in Policies, NEW cover \in Covers
    PROVE  /\ RecommendOrder(position, policy, cover) \in Nat /\ OrderUpTo(policy, cover) \in Nat
           /\ RecommendOrder(position, policy, cover) # 0 =>
                 position + RecommendOrder(position, policy, cover) < OrderUpTo(policy, cover) + UnitsPerPack
<1>1. policy.min \in Nat /\ policy.target \in Nat /\ cover \in Nat /\ UnitsPerPack \in Nat \ {0}
    BY ReplenishmentAssumption
<1>2. PICK up : up = OrderUpTo(policy, cover)
    OBVIOUS
<1>3. up \in Nat
    BY <1>1, <1>2 DEF OrderUpTo
<1>4. PICK n : n = RoundToPacks(up - position)
    OBVIOUS
<1>5. up - position \in Int
    BY <1>3
<1>6. n \in Nat /\ (n # 0 => n < (up - position) + UnitsPerPack)
    BY <1>4, <1>5, PacksFill
<1>7. RecommendOrder(position, policy, cover) \in {n, 0}
    BY <1>2, <1>4 DEF RecommendOrder
<1>8. n # 0 => position + n < up + UnitsPerPack
    BY <1>1, <1>3, <1>6
<1> QED
    BY <1>2, <1>3, <1>6, <1>7, <1>8

-----------------------------------------------------------------------------
(* Steps that leave the screens and the drafts as they are, but for what   *)
(* overtakes them.                                                         *)

LEMMA AtHand ==
    ASSUME ReplenishmentShapes
    PROVE  /\ AtHandAndComing = inStock + inTransit + OwedOnAll(orders, date)
           /\ OwedOnAll(orders, date) \in Nat /\ AtHandAndComing \in Nat
           /\ inStock \in Nat /\ inTransit \in Nat /\ date \in Nat
           /\ OrderList(orders)
<1>1. Owed = OwedOnAll(orders, date)
    BY DEF Owed, OwedOnAll, OwedOn, GivenUp
<1>2. inStock \in Nat /\ inTransit \in Nat /\ date \in Nat /\ OrderList(orders)
    BY DEF ReplenishmentShapes, OrderList
<1>3. OwedOnAll(orders, date) \in Nat
    BY <1>2, OwedOnAllType
<1>4. AtHandAndComing = inStock + inTransit + OwedOnAll(orders, date)
    BY <1>1 DEF AtHandAndComing
<1> QED
    BY <1>2, <1>3, <1>4

LEMMA HeldType ==
    ASSUME NEW read, NEW stock \in Nat, NEW transit \in Nat
    PROVE  Held(read, stock, transit) \in Nat
BY DEF Held

SameScreen(b) ==
    /\ looking'[b].at = looking[b].at /\ looking'[b].read = looking[b].read
    /\ looking'[b].found = looking[b].found /\ looking'[b].suggestion = looking[b].suggestion
    /\ looking'[b].upTo = looking[b].upTo /\ looking'[b].day = looking[b].day
    /\ looking[b].overtaken => looking'[b].overtaken

SameDraft(i) ==
    /\ i \in DOMAIN orders /\ orders[i].status = "draft" /\ ~orders[i].overtaken
    /\ orders'[i].ordered = orders[i].ordered /\ orders'[i].upTo = orders[i].upTo

LEMMA ShapesGoOn ==
    ASSUME ReplenishmentShapes, date' \in Nat, date <= date', inStock' \in Nat, inTransit' \in Nat,
           OrderList(orders'), looking' \in [Screens -> LookingRows], \A b \in Screens : SameScreen(b)
    PROVE  ReplenishmentShapes'
<1>1. orders' \in Seq(OrderRows)
    BY DEF OrderList
<1>2. ASSUME NEW b \in Screens
      PROVE  /\ looking'[b].at = "looking" =>
                   looking'[b].read \subseteq {"stock", "transit"} /\ looking'[b].day <= date'
             /\ looking'[b].at = "ordering" => looking'[b].read = Figures /\ looking'[b].suggestion # 0
  <2>1. looking[b].day \in Nat /\ date \in Nat
      BY DEF ReplenishmentShapes, LookingRows
  <2>2. /\ looking[b].at = "looking" =>
                looking[b].read \subseteq {"stock", "transit"} /\ looking[b].day <= date
        /\ looking[b].at = "ordering" => looking[b].read = Figures /\ looking[b].suggestion # 0
      BY DEF ReplenishmentShapes
  <2>3. looking[b].day <= date => looking[b].day <= date'
      BY <2>1
  <2> QED
      BY <2>2, <2>3 DEF SameScreen
<1> QED
    BY <1>1, <1>2 DEF ReplenishmentShapes, LookingRows, OrderRows, Figures

LEMMA ScreensGoOn ==
    ASSUME ReplenishmentShapes, ScreensKnow, ReplenishmentShapes',
           \A b \in Screens : SameScreen(b),
           \A b \in Screens : ~looking'[b].overtaken =>
              /\ looking[b].at = "looking" =>
                    Held(looking[b].read, inStock', inTransit') <= Held(looking[b].read, inStock, inTransit)
              /\ looking[b].at = "ordering" => AtHandAndComing' <= AtHandAndComing
    PROVE  ScreensKnow'
<1>1. ASSUME NEW b \in Screens, ~looking'[b].overtaken
      PROVE  /\ looking'[b].at = "looking" =>
                   Held(looking'[b].read, inStock', inTransit') <= looking'[b].found
             /\ looking'[b].at = "ordering" =>
                   AtHandAndComing' + looking'[b].suggestion < looking'[b].upTo + UnitsPerPack
  <2>1. ~looking[b].overtaken
      BY <1>1 DEF SameScreen
  <2>2. CASE looking[b].at = "looking"
    <3>1. Held(looking[b].read, inStock, inTransit) <= looking[b].found
        BY <2>1, <2>2 DEF ScreensKnow
    <3>2. Held(looking[b].read, inStock', inTransit') <= Held(looking[b].read, inStock, inTransit)
        BY <1>1, <2>2
    <3>3. PICK r : r = looking[b].read
        OBVIOUS
    <3>4. inStock \in Nat /\ inTransit \in Nat /\ inStock' \in Nat /\ inTransit' \in Nat /\ looking[b].found \in Nat
        BY DEF ReplenishmentShapes, LookingRows
    <3>5. Held(r, inStock', inTransit') <= looking[b].found
      <4>1. PICK old : old = Held(r, inStock, inTransit)
          OBVIOUS
      <4>2. PICK now : now = Held(r, inStock', inTransit')
          OBVIOUS
      <4>3. old \in Nat /\ now \in Nat
          BY <3>4, <4>1, <4>2, HeldType
      <4>4. old <= looking[b].found /\ now <= old
          BY <3>1, <3>2, <3>3, <4>1, <4>2
      <4>5. now <= looking[b].found
          BY <3>4, <4>3, <4>4
      <4> QED
          BY <4>2, <4>5
    <3> QED
        BY <2>2, <3>3, <3>5 DEF SameScreen
  <2>3. CASE looking[b].at = "ordering"
    <3>1. AtHandAndComing + looking[b].suggestion < looking[b].upTo + UnitsPerPack
        BY <2>1, <2>3 DEF ScreensKnow, RoomForMore
    <3>2. AtHandAndComing' <= AtHandAndComing
        BY <1>1, <2>3
    <3>3. AtHandAndComing \in Nat
        BY AtHand
    <3>4. inStock' \in Nat /\ inTransit' \in Nat /\ date' \in Nat /\ OrderList(orders')
        BY DEF ReplenishmentShapes, OrderList
    <3>5. AtHandAndComing' \in Nat
      <4>1. Owed' = OwedOnAll(orders', date')
          BY DEF Owed, OwedOnAll, OwedOn, GivenUp
      <4>2. OwedOnAll(orders', date') \in Nat
          BY <3>4, OwedOnAllType
      <4> QED
          BY <3>4, <4>1, <4>2 DEF AtHandAndComing
    <3>6. looking[b].suggestion \in Nat /\ looking[b].upTo \in Nat /\ UnitsPerPack \in Nat
        BY ReplenishmentAssumption DEF ReplenishmentShapes, LookingRows
    <3>7. AtHandAndComing' + looking[b].suggestion < looking[b].upTo + UnitsPerPack
        BY <3>1, <3>2, <3>3, <3>5, <3>6
    <3> QED
        BY <2>3, <3>7 DEF SameScreen
  <2>4. looking'[b].at = looking[b].at
      BY DEF SameScreen
  <2> QED
      BY <2>2, <2>3, <2>4
<1> QED
    BY <1>1 DEF ScreensKnow, RoomForMore

LEMMA DraftsGoOn ==
    ASSUME ReplenishmentShapes, NeverOrderedTwice, ReplenishmentShapes',
           \A i \in DOMAIN orders' : orders'[i].status = "draft" /\ ~orders'[i].overtaken =>
              SameDraft(i) /\ AtHandAndComing' <= AtHandAndComing
    PROVE  NeverOrderedTwice'
<1> SUFFICES ASSUME NEW i \in DOMAIN orders', orders'[i].status = "draft", ~orders'[i].overtaken
             PROVE  AtHandAndComing' + orders'[i].ordered < orders'[i].upTo + UnitsPerPack
    BY DEF NeverOrderedTwice
<1>1. SameDraft(i) /\ AtHandAndComing' <= AtHandAndComing
    OBVIOUS
<1>2. AtHandAndComing + orders[i].ordered < orders[i].upTo + UnitsPerPack
    BY <1>1 DEF SameDraft, NeverOrderedTwice
<1>3. AtHandAndComing \in Nat /\ OrderList(orders)
    BY AtHand
<1>4. AtHandAndComing' \in Nat
  <2>1. inStock' \in Nat /\ inTransit' \in Nat /\ date' \in Nat /\ OrderList(orders')
      BY DEF ReplenishmentShapes, OrderList
  <2>2. Owed' = OwedOnAll(orders', date')
      BY DEF Owed, OwedOnAll, OwedOn, GivenUp
  <2>3. OwedOnAll(orders', date') \in Nat
      BY <2>1, OwedOnAllType
  <2> QED
      BY <2>1, <2>2, <2>3 DEF AtHandAndComing
<1>5. orders[i].ordered \in Nat /\ orders[i].upTo \in Nat /\ UnitsPerPack \in Nat
  <2>1. orders[i] \in OrderRows
      BY <1>1, <1>3, OrdersOf DEF SameDraft
  <2> QED
      BY <2>1, ReplenishmentAssumption DEF OrderRows
<1>6. AtHandAndComing' + orders[i].ordered < orders[i].upTo + UnitsPerPack
    BY <1>1, <1>2, <1>3, <1>4, <1>5
<1> QED
    BY <1>1, <1>6 DEF SameDraft

LEMMA ScreensAfterIs ==
    ASSUME ReplenishmentShapes, NEW from, NEW to, looking' = ScreensAfter(from, to)
    PROVE  /\ looking' \in [Screens -> LookingRows] /\ \A b \in Screens : SameScreen(b)
           /\ \A b \in Screens : Misses(looking[b].read, from, to) => looking'[b].overtaken
<1>1. \A b \in Screens : looking[b] \in LookingRows
    BY DEF ReplenishmentShapes
<1>2. \A b \in Screens : Misses(looking[b].read, from, to) \in BOOLEAN
    BY DEF Misses
<1>3. \A b \in Screens : looking'[b] =
          [looking[b] EXCEPT !.overtaken = @ \/ Misses(looking[b].read, from, to)]
    BY DEF ScreensAfter
<1>4. \A b \in Screens :
         /\ looking'[b] \in LookingRows /\ SameScreen(b)
         /\ Misses(looking[b].read, from, to) => looking'[b].overtaken
  <2> SUFFICES ASSUME NEW b \in Screens
               PROVE  /\ looking'[b] \in LookingRows /\ SameScreen(b)
                      /\ Misses(looking[b].read, from, to) => looking'[b].overtaken
      OBVIOUS
  <2>1. PICK r : r = looking[b]
      OBVIOUS
  <2>2. PICK missed : missed = Misses(looking[b].read, from, to)
      OBVIOUS
  <2>3. missed \in BOOLEAN /\ r \in LookingRows
      BY <1>1, <1>2, <2>1, <2>2
  <2>4. looking'[b] = [r EXCEPT !.overtaken = r.overtaken \/ missed]
      BY <1>3, <2>1, <2>2
  <2>5. looking'[b] \in LookingRows
      BY <2>3, <2>4 DEF LookingRows
  <2>6. /\ looking'[b].at = r.at /\ looking'[b].read = r.read /\ looking'[b].found = r.found
        /\ looking'[b].suggestion = r.suggestion /\ looking'[b].upTo = r.upTo
        /\ looking'[b].day = r.day /\ looking'[b].overtaken = (r.overtaken \/ missed)
      BY <2>3, <2>4 DEF LookingRows
  <2> QED
      BY <2>1, <2>2, <2>5, <2>6 DEF SameScreen
<1>5. looking' = [b \in Screens |->
          [looking[b] EXCEPT !.overtaken = @ \/ Misses(looking[b].read, from, to)]]
    BY DEF ScreensAfter
<1> QED
    BY <1>4, <1>5

LEMMA DraftsAfterAre ==
    ASSUME NEW list, OrderList(list), NEW from, NEW to
    PROVE  /\ OrderList(DraftsAfter(from, to, list)) /\ DOMAIN DraftsAfter(from, to, list) = DOMAIN list
           /\ \A i \in DOMAIN list : LET o == DraftsAfter(from, to, list)[i] IN
                 /\ o.ordered = list[i].ordered /\ o.upTo = list[i].upTo /\ o.status = list[i].status
                 /\ list[i].overtaken => o.overtaken
                 /\ list[i].status = "draft" /\ Misses(Figures, from, to) => o.overtaken
           /\ \A d \in Int : OwedOnAll(DraftsAfter(from, to, list), d) = OwedOnAll(list, d)
<1>1. PICK new : new = DraftsAfter(from, to, list)
    OBVIOUS
<1>2. PICK miss : miss = Misses(Figures, from, to) /\ miss \in BOOLEAN
    BY DEF Misses
<1>3. list \in Seq(OrderRows) /\ DOMAIN list = 1..Len(list) /\ Len(list) \in Nat
    BY OrdersOf DEF OrderList
<1>4. new = [i \in DOMAIN list |-> [list[i] EXCEPT
                !.overtaken = @ \/ (list[i].status = "draft" /\ miss)]]
    BY <1>1, <1>2 DEF DraftsAfter
<1>5. \A i \in DOMAIN list : list[i] \in OrderRows
    BY OrdersOf
<1>6. \A i \in DOMAIN list :
         /\ new[i] \in OrderRows /\ new[i].ordered = list[i].ordered /\ new[i].upTo = list[i].upTo
         /\ new[i].status = list[i].status /\ new[i].received = list[i].received /\ new[i].due = list[i].due
         /\ list[i].overtaken => new[i].overtaken
         /\ list[i].status = "draft" /\ miss => new[i].overtaken
    BY <1>2, <1>4, <1>5 DEF OrderRows
<1>7. DOMAIN new = DOMAIN list /\ new \in Seq(OrderRows)
  <2>1. DOMAIN new = DOMAIN list
      BY <1>4
  <2>2. new \in [1..Len(list) -> OrderRows]
      BY <1>3, <1>4, <1>6, <2>1
  <2> QED
      BY <1>3, <2>1, <2>2
<1>8. ASSUME NEW d \in Int PROVE OwedOnAll(new, d) = OwedOnAll(list, d)
  <2>1. \A i \in DOMAIN list : OwedOn(new[i], d) = OwedOn(list[i], d)
      BY <1>6 DEF OwedOn, Outstanding
  <2>2. [i \in DOMAIN new |-> OwedOn(new[i], d)] = [i \in DOMAIN list |-> OwedOn(list[i], d)]
      BY <1>7, <2>1
  <2>3. PICK one : one = [i \in DOMAIN new |-> OwedOn(new[i], d)]
      OBVIOUS
  <2>4. PICK other : other = [i \in DOMAIN list |-> OwedOn(list[i], d)]
      OBVIOUS
  <2>5. OwedOnAll(new, d) = Sum(one)
      BY <2>3 DEF OwedOnAll
  <2>6. OwedOnAll(list, d) = Sum(other)
      BY <2>4 DEF OwedOnAll
  <2>7. one = other
      BY <2>2, <2>3, <2>4
  <2> QED
      BY <2>5, <2>6, <2>7
<1> QED
    BY <1>1, <1>2, <1>6, <1>7, <1>8 DEF OrderList

-----------------------------------------------------------------------------
(* The screens.                                                            *)

LEMMA OneScreen ==
    ASSUME ReplenishmentInv, date' = date, inStock' = inStock, inTransit' = inTransit,
           orders' = orders, NEW b \in Screens, NEW r \in LookingRows,
           looking' = [looking EXCEPT ![b] = r],
           r.at = "looking" => r.read \subseteq {"stock", "transit"} /\ r.day <= date,
           r.at = "ordering" => r.read = Figures /\ r.suggestion # 0,
           ~r.overtaken =>
              /\ r.at = "looking" => Held(r.read, inStock, inTransit) <= r.found
              /\ r.at = "ordering" => RoomForMore(r.suggestion, r.upTo)
    PROVE  ReplenishmentInv'
<1>1. looking \in [Screens -> LookingRows]
    BY DEF ReplenishmentInv, ReplenishmentShapes
<1>2. looking' \in [Screens -> LookingRows] /\ looking'[b] = r
      /\ \A s \in Screens \ {b} : looking'[s] = looking[s]
    BY <1>1
<1>3. ReplenishmentShapes'
    BY <1>2 DEF ReplenishmentInv, ReplenishmentShapes, LookingRows, OrderRows, Figures
<1>4. AtHandAndComing' = AtHandAndComing
    BY DEF AtHandAndComing, Owed, GivenUp
<1>5. NeverOrderedTwice'
    BY <1>4 DEF ReplenishmentInv, NeverOrderedTwice
<1>6. ScreensKnow'
  <2>1. ASSUME NEW s \in Screens, ~looking'[s].overtaken
        PROVE  /\ looking'[s].at = "looking" =>
                     Held(looking'[s].read, inStock, inTransit) <= looking'[s].found
               /\ looking'[s].at = "ordering" => RoomForMore(looking'[s].suggestion, looking'[s].upTo)
    <3>1. CASE s = b
        BY <1>2, <2>1, <3>1
    <3>2. CASE s # b
        BY <1>2, <2>1, <3>2 DEF ReplenishmentInv, ScreensKnow
    <3> QED
        BY <3>1, <3>2
  <2> QED
      BY <1>4, <2>1 DEF ScreensKnow, RoomForMore
<1> QED
    BY <1>3, <1>5, <1>6 DEF ReplenishmentInv

LEMMA StartsLookingKeeps ==
    ASSUME ReplenishmentInv, NEW b \in Screens, StartsLooking(b)
    PROVE  ReplenishmentInv'
<1>1. PICK r : r = [NotLooking EXCEPT !.at = "looking", !.day = date]
    OBVIOUS
<1>2. date \in Nat /\ inStock \in Nat /\ inTransit \in Nat
    BY DEF ReplenishmentInv, ReplenishmentShapes
<1>3. r = [at |-> "looking", day |-> date, read |-> {}, found |-> 0,
           suggestion |-> 0, upTo |-> 0, overtaken |-> FALSE]
    BY <1>1 DEF NotLooking
<1>4. r \in LookingRows
    BY <1>2, <1>3 DEF LookingRows
<1>5. Held(r.read, inStock, inTransit) <= r.found
    BY <1>3 DEF Held
<1>6. looking' = [looking EXCEPT ![b] = r] /\ date' = date /\ inStock' = inStock
      /\ inTransit' = inTransit /\ orders' = orders
    BY <1>1 DEF StartsLooking
<1>7. r.at = "looking" /\ r.read \subseteq {"stock", "transit"} /\ r.day <= date
    BY <1>2, <1>3
<1>8. r.at # "ordering"
    BY <1>7
<1> QED
    BY <1>4, <1>5, <1>6, <1>7, <1>8, OneScreen

LEMMA ReadsKeeps ==
    ASSUME ReplenishmentInv, NEW b \in Screens, NEW figure, NEW amount,
           \/ figure = "stock" /\ amount = inStock
           \/ figure = "transit" /\ amount = inTransit,
           Reads(b, figure, amount)
    PROVE  ReplenishmentInv'
<1>1. PICK r : r = [looking[b] EXCEPT !.read = @ \cup {figure}, !.found = @ + amount]
    OBVIOUS
<1>2. PICK s : s = looking[b]
    OBVIOUS
<1>3. /\ date \in Nat /\ inStock \in Nat /\ inTransit \in Nat
      /\ s \in LookingRows /\ looking \in [Screens -> LookingRows]
    BY <1>2 DEF ReplenishmentInv, ReplenishmentShapes
<1>4. s.at = "looking" /\ figure \notin s.read /\ s.read \subseteq {"stock", "transit"} /\ s.day <= date
    BY <1>2 DEF Reads, ReplenishmentInv, ReplenishmentShapes
<1>5. amount \in Nat
    BY <1>3
<1>6. r = [s EXCEPT !.read = s.read \cup {figure}, !.found = s.found + amount]
    BY <1>1, <1>2
<1>7. s.found + amount \in Nat /\ s.read \cup {figure} \subseteq {"stock", "transit"}
    BY <1>3, <1>4, <1>5 DEF LookingRows
<1>8. r \in LookingRows
    BY <1>3, <1>6, <1>7 DEF LookingRows, Figures
<1>9. r.at = "looking" /\ r.read = s.read \cup {figure} /\ r.found = s.found + amount
      /\ r.day = s.day /\ r.overtaken = s.overtaken
    BY <1>3, <1>4, <1>6 DEF LookingRows
<1>10. ~s.overtaken => Held(s.read, inStock, inTransit) <= s.found
    BY <1>2, <1>4 DEF ReplenishmentInv, ScreensKnow
<1>11. Held(s.read \cup {figure}, inStock, inTransit) = Held(s.read, inStock, inTransit) + amount
    BY <1>3, <1>4 DEF Held
<1>12. ~r.overtaken => Held(r.read, inStock, inTransit) <= r.found
  <2>1. PICK held : held = Held(s.read, inStock, inTransit)
      OBVIOUS
  <2>2. held \in Nat /\ s.found \in Nat
      BY <1>3, <2>1, HeldType DEF LookingRows
  <2>3. held <= s.found => held + amount <= s.found + amount
      BY <1>5, <2>2
  <2> QED
      BY <1>9, <1>10, <1>11, <2>1, <2>3
<1>13. looking' = [looking EXCEPT ![b] = r] /\ date' = date /\ inStock' = inStock
       /\ inTransit' = inTransit /\ orders' = orders
  <2>1. looking' = [looking EXCEPT ![b].read = @ \cup {figure}, ![b].found = @ + amount]
      BY DEF Reads
  <2>2. looking' = [looking EXCEPT ![b] = r]
      BY <1>1, <1>3, <2>1
  <2> QED
      BY <2>2 DEF Reads
<1>14. r.read \subseteq {"stock", "transit"} /\ r.day <= date /\ r.at # "ordering"
    BY <1>4, <1>7, <1>9
<1> QED
    BY <1>8, <1>12, <1>13, <1>14, OneScreen

\* What it has found with what is coming is at least all there is.
LEMMA ReadsOrdersKeeps ==
    ASSUME ReplenishmentInv, NEW b \in Screens, ReadsOrders(b)
    PROVE  ReplenishmentInv'
<1>1. PICK s : s = looking[b]
    OBVIOUS
<1>2. /\ date \in Nat /\ inStock \in Nat /\ inTransit \in Nat /\ s \in LookingRows
      /\ OrderList(orders) /\ AtHandAndComing = inStock + inTransit + OwedOnAll(orders, date)
  <2>1. s \in LookingRows
      BY <1>1 DEF ReplenishmentInv, ReplenishmentShapes
  <2>2. ReplenishmentShapes
      BY DEF ReplenishmentInv
  <2> QED
      BY <2>1, <2>2, AtHand
<1>3. s.at = "looking" /\ s.read = {"stock", "transit"} /\ s.day <= date
    BY <1>1 DEF ReadsOrders, ReplenishmentInv, ReplenishmentShapes
<1>4. s.day \in Nat /\ s.found \in Nat /\ s.overtaken \in BOOLEAN
    BY <1>2 DEF LookingRows
<1>5. PICK coming : coming = OwedOnAll(orders, s.day)
    OBVIOUS
<1>6. coming \in Nat /\ OwedOnAll(orders, date) <= coming /\ OwedOnAll(orders, date) \in Nat
  <2>1. PICK d : d = s.day
      OBVIOUS
  <2>2. d \in Int /\ date \in Int /\ d <= date
      BY <1>2, <1>3, <1>4, <2>1
  <2>3. OwedOnAll(orders, date) <= OwedOnAll(orders, d)
      BY <1>2, <2>2, OwedLater
  <2>4. OwedOnAll(orders, d) \in Nat /\ OwedOnAll(orders, date) \in Nat
      BY <1>2, <2>2, OwedOnAllType
  <2> QED
      BY <1>5, <2>1, <2>3, <2>4
<1>7. PICK found : found = s.found + coming
    OBVIOUS
<1>8. found \in Nat
    BY <1>4, <1>6, <1>7
<1>9. ~s.overtaken => AtHandAndComing <= found
  <2>1. ~s.overtaken => Held(s.read, inStock, inTransit) <= s.found
      BY <1>1, <1>3 DEF ReplenishmentInv, ScreensKnow
  <2>2. Held(s.read, inStock, inTransit) = inStock + inTransit
      BY <1>2, <1>3 DEF Held
  <2>3. ~s.overtaken => inStock + inTransit <= s.found
      BY <2>1, <2>2
  <2> QED
      BY <1>2, <1>4, <1>6, <1>7, <2>3
<1>10. Coming(s.day) = coming
    BY <1>5 DEF Coming, OwedOnAll, OwedOn, OnOrder, GivenUp
<1>11. PICK policy \in Policies, cover \in Covers :
          looking' = [looking EXCEPT ![b] =
                IF RecommendOrder(found, policy, cover) = 0 THEN NotLooking
                ELSE [NotLooking EXCEPT
                        !.at = "ordering", !.read = Figures,
                        !.suggestion = RecommendOrder(found, policy, cover),
                        !.upTo = OrderUpTo(policy, cover), !.overtaken = s.overtaken]]
    BY <1>1, <1>7, <1>10 DEF ReadsOrders
<1>12. PICK n : n = RecommendOrder(found, policy, cover)
    OBVIOUS
<1>13. PICK up : up = OrderUpTo(policy, cover)
    OBVIOUS
<1>14. n \in Nat /\ up \in Nat /\ (n # 0 => found + n < up + UnitsPerPack) /\ UnitsPerPack \in Nat
    BY <1>8, <1>11, <1>12, <1>13, SuggestionFits, ReplenishmentAssumption
<1>15. date' = date /\ inStock' = inStock /\ inTransit' = inTransit /\ orders' = orders
    BY DEF ReadsOrders
<1>16. CASE n = 0
  <2>1. PICK r : r = NotLooking
      OBVIOUS
  <2>2. r \in LookingRows /\ r.at = "away"
      BY <2>1 DEF NotLooking, LookingRows
  <2>3. looking' = [looking EXCEPT ![b] = r]
      BY <1>11, <1>12, <1>16, <2>1
  <2>4. r.at # "looking" /\ r.at # "ordering"
      BY <2>2
  <2> QED
      BY <1>15, <2>2, <2>3, <2>4, OneScreen
<1>17. CASE n # 0
  <2>1. PICK r : r = [NotLooking EXCEPT !.at = "ordering", !.read = Figures, !.suggestion = n,
                         !.upTo = up, !.overtaken = s.overtaken]
      OBVIOUS
  <2>2. r \in LookingRows /\ r.at = "ordering" /\ r.read = Figures /\ r.suggestion = n
        /\ r.upTo = up /\ r.overtaken = s.overtaken
    <3>1. NotLooking \in LookingRows
        BY DEF NotLooking, LookingRows
    <3> QED
        BY <1>4, <1>14, <2>1, <3>1 DEF LookingRows
  <2>4. looking' = [looking EXCEPT ![b] = r]
      BY <1>11, <1>12, <1>13, <1>17, <2>1
  <2>5. ~r.overtaken => RoomForMore(n, up)
    <3>1. AtHandAndComing \in Nat
        BY <1>2, <1>6
    <3>2. found + n < up + UnitsPerPack
        BY <1>14, <1>17
    <3>3. AtHandAndComing <= found => AtHandAndComing + n < up + UnitsPerPack
        BY <1>8, <1>14, <3>1, <3>2
    <3> QED
        BY <1>9, <2>2, <3>3 DEF RoomForMore
  <2>6. r.at # "looking" /\ r.suggestion # 0
      BY <1>17, <2>2
  <2> QED
      BY <1>15, <2>2, <2>4, <2>5, <2>6, OneScreen
<1> QED
    BY <1>16, <1>17

\* A draft of what a screen shows knows what the screen knows.
LEMMA MakesOrderKeeps ==
    ASSUME ReplenishmentInv, NEW b \in Screens, MakesOrder(b)
    PROVE  ReplenishmentInv'
<1>1. PICK s : s = looking[b]
    OBVIOUS
<1>2. /\ s \in LookingRows /\ OrderList(orders) /\ date \in Nat
      /\ AtHandAndComing = inStock + inTransit + OwedOnAll(orders, date)
  <2>1. s \in LookingRows
      BY <1>1 DEF ReplenishmentInv, ReplenishmentShapes
  <2>2. ReplenishmentShapes
      BY DEF ReplenishmentInv
  <2> QED
      BY <2>1, <2>2, AtHand
<1>3. s.at = "ordering" /\ s.suggestion \in Nat \ {0} /\ s.upTo \in Nat /\ s.overtaken \in BOOLEAN
  <2>1. s.at = "ordering"
      BY <1>1 DEF MakesOrder
  <2> QED
      BY <1>1, <1>2, <2>1 DEF ReplenishmentInv, ReplenishmentShapes, LookingRows
<1>4. PICK days \in {Lead} \cup Promised : orders' = Append(orders,
             [ordered |-> s.suggestion, received |-> 0, status |-> "draft", due |-> date + days,
              upTo |-> s.upTo, overtaken |-> s.overtaken])
    BY <1>1 DEF MakesOrder
<1>5. PICK o : o = [ordered |-> s.suggestion, received |-> 0, status |-> "draft", due |-> date + days,
                    upTo |-> s.upTo, overtaken |-> s.overtaken]
    OBVIOUS
<1>6. days \in Int
    BY <1>4, ReplenishmentAssumption
<1>7. o \in OrderRows /\ o.status = "draft" /\ o.ordered = s.suggestion /\ o.upTo = s.upTo
      /\ o.overtaken = s.overtaken
    BY <1>2, <1>3, <1>5, <1>6 DEF OrderRows
<1>8. PICK n : n = Len(orders)
    OBVIOUS
<1>9. orders \in Seq(OrderRows) /\ n \in Nat /\ DOMAIN orders = 1..n
    BY <1>2, <1>8, OrdersOf DEF OrderList
<1>10. orders' = Append(orders, o)
    BY <1>4, <1>5
<1>11. /\ orders' \in Seq(OrderRows) /\ DOMAIN orders' = 1..(n + 1) /\ orders'[n + 1] = o
       /\ \A i \in 1..n : orders'[i] = orders[i]
    BY <1>7, <1>8, <1>9, <1>10
<1>12. date' = date /\ inStock' = inStock /\ inTransit' = inTransit /\ looking' = looking
    BY DEF MakesOrder
<1>13. AtHandAndComing' = AtHandAndComing
  <2>1. PICK d : d = date
      OBVIOUS
  <2>2. OwedOnAll(orders', d) = OwedOnAll(orders, d)
    <3>1. d \in Int
        BY <1>2, <2>1
    <3>2. OwedOnAll(Append(orders, o), d) = OwedOnAll(orders, d)
        BY <1>2, <1>7, <3>1, DraftOwesNothing
    <3> QED
        BY <1>10, <3>2
  <2>3. Owed' = OwedOnAll(orders', date')
      BY DEF Owed, OwedOnAll, OwedOn, GivenUp
  <2> QED
      BY <1>2, <1>12, <2>1, <2>2, <2>3 DEF AtHandAndComing
<1>14. ReplenishmentShapes'
    BY <1>11, <1>12 DEF ReplenishmentInv, ReplenishmentShapes, LookingRows, Figures
<1>15. ScreensKnow'
    BY <1>12, <1>13 DEF ReplenishmentInv, ScreensKnow, RoomForMore
<1>16. NeverOrderedTwice'
  <2>1. ASSUME NEW i \in 1..(n + 1), orders'[i].status = "draft", ~orders'[i].overtaken
        PROVE  AtHandAndComing + orders'[i].ordered < orders'[i].upTo + UnitsPerPack
    <3>1. CASE i = n + 1
      <4>1. orders'[i] = o /\ ~s.overtaken
          BY <1>7, <1>11, <2>1, <3>1
      <4>2. RoomForMore(s.suggestion, s.upTo)
          BY <1>1, <1>3, <4>1 DEF ReplenishmentInv, ScreensKnow
      <4> QED
          BY <1>7, <4>1, <4>2 DEF RoomForMore
    <3>2. CASE i # n + 1
      <4>1. i \in 1..n
          BY <1>9, <3>2
      <4>2. orders'[i] = orders[i] /\ i \in DOMAIN orders
          BY <1>9, <1>11, <4>1
      <4> QED
          BY <2>1, <4>2 DEF ReplenishmentInv, NeverOrderedTwice
    <3> QED
        BY <3>1, <3>2
  <2> QED
      BY <1>11, <1>13, <2>1 DEF NeverOrderedTwice
<1> QED
    BY <1>14, <1>15, <1>16 DEF ReplenishmentInv

LEMMA DecidedIs ==
    ASSUME OrderList(orders), NEW k \in DOMAIN orders, NEW status \in {"sent", "cancelled"}
    PROVE  /\ OrderList(Decided(k, status)) /\ DOMAIN Decided(k, status) = DOMAIN orders
           /\ Decided(k, status)[k].status = status
           /\ \A i \in DOMAIN orders \ {k} : Decided(k, status)[i] = orders[i]
<1>1. PICK o : o = orders[k]
    OBVIOUS
<1>2. orders \in Seq(OrderRows) /\ DOMAIN orders = 1..Len(orders) /\ o \in OrderRows
    BY <1>1, OrdersOf DEF OrderList
<1>3. PICK new : new = [o EXCEPT !.status = status, !.upTo = 0, !.overtaken = FALSE]
    OBVIOUS
<1>4. new \in OrderRows /\ new.status = status
    BY <1>2, <1>3 DEF OrderRows
<1>5. Decided(k, status) = [orders EXCEPT ![k] = new]
    BY <1>1, <1>2, <1>3 DEF Decided
<1> QED
    BY <1>2, <1>4, <1>5 DEF OrderList

\* Nothing is owed on what is not sent.
LEMMA UnsentToUnsent ==
    ASSUME OrderList(orders), OrderList(orders'), date \in Nat, NEW k \in DOMAIN orders,
           DOMAIN orders' = DOMAIN orders, \A i \in DOMAIN orders \ {k} : orders'[i] = orders[i],
           orders[k].status # "sent", orders'[k].status # "sent"
    PROVE  OwedOnAll(orders', date) = OwedOnAll(orders, date)
<1>1. PICK d : d = date
    OBVIOUS
<1>2. PICK new : new = orders'
    OBVIOUS
<1>3. d \in Int /\ OrderList(new) /\ DOMAIN new = DOMAIN orders /\ \A i \in DOMAIN orders \ {k} : new[i] = orders[i]
    BY <1>1, <1>2
<1>4. OwedOnAll(new, d) = OwedOnAll(orders, d) + OwedOn(new[k], d) - OwedOn(orders[k], d)
    BY <1>3, OneOrderChanges
<1>5. OwedOn(new[k], d) = 0 /\ OwedOn(orders[k], d) = 0
    BY <1>2 DEF OwedOn
<1>6. OwedOnAll(orders, d) \in Nat
    BY <1>3, OwedOnAllType
<1> QED
    BY <1>1, <1>2, <1>4, <1>5, <1>6

\* One order changes, of which there is no more owed.
LEMMA OnlyOrders ==
    ASSUME ReplenishmentInv, date' = date, inStock' = inStock, inTransit' = inTransit,
           looking' = looking, OrderList(orders'), NEW k \in DOMAIN orders,
           DOMAIN orders' = DOMAIN orders, \A i \in DOMAIN orders \ {k} : orders'[i] = orders[i],
           orders'[k].status # "draft", OwedOnAll(orders', date) <= OwedOnAll(orders, date)
    PROVE  ReplenishmentInv'
<1>1. /\ OrderList(orders) /\ date \in Nat /\ inStock \in Nat /\ inTransit \in Nat
      /\ AtHandAndComing = inStock + inTransit + OwedOnAll(orders, date)
      /\ OwedOnAll(orders, date) \in Nat
    BY AtHand DEF ReplenishmentInv
<1>2. OwedOnAll(orders', date) \in Nat
    BY <1>1, OwedOnAllType
<1>3. AtHandAndComing' <= AtHandAndComing
  <2>1. Owed' = OwedOnAll(orders', date')
      BY DEF Owed, OwedOnAll, OwedOn, GivenUp
  <2>2. AtHandAndComing' = inStock + inTransit + OwedOnAll(orders', date)
      BY <2>1 DEF AtHandAndComing
  <2> QED
      BY <1>1, <1>2, <2>2
<1>4. looking \in [Screens -> LookingRows] /\ \A b \in Screens : SameScreen(b)
    BY DEF ReplenishmentInv, ReplenishmentShapes, SameScreen
<1>5. ReplenishmentShapes'
  <2>1. orders' \in Seq(OrderRows)
      BY DEF OrderList
  <2> QED
      BY <2>1 DEF ReplenishmentInv, ReplenishmentShapes, LookingRows, OrderRows, Figures
<1>6. ScreensKnow'
  <2>1. ASSUME NEW b \in Screens
        PROVE  Held(looking[b].read, inStock', inTransit') <= Held(looking[b].read, inStock, inTransit)
    <3>1. Held(looking[b].read, inStock', inTransit') = Held(looking[b].read, inStock, inTransit)
        OBVIOUS
    <3>2. Held(looking[b].read, inStock, inTransit) \in Nat
        BY <1>1, HeldType
    <3> QED
        BY <3>1, <3>2
  <2> QED
      BY <1>3, <1>4, <1>5, <2>1, ScreensGoOn DEF ReplenishmentInv
<1>7. ASSUME NEW i \in DOMAIN orders', orders'[i].status = "draft", ~orders'[i].overtaken
      PROVE  SameDraft(i)
  <2>1. i # k /\ i \in DOMAIN orders
      BY <1>7
  <2>2. orders'[i] = orders[i]
      BY <2>1
  <2> QED
      BY <1>7, <2>1, <2>2 DEF SameDraft
<1>8. NeverOrderedTwice'
    BY <1>3, <1>5, <1>7, DraftsGoOn DEF ReplenishmentInv
<1> QED
    BY <1>5, <1>6, <1>8 DEF ReplenishmentInv

-----------------------------------------------------------------------------
(* The orders and the goods.                                               *)

\* A figure that comes from nowhere overtakes whoever has read it.
LEMMA FromNowhere ==
    ASSUME ReplenishmentInv, ReplenishmentShapes', NEW to \in Figures,
           looking' = ScreensAfter("nowhere", to),
           to # "stock" => inStock' = inStock, to # "transit" => inTransit' = inTransit,
           \A i \in DOMAIN orders' : orders'[i].status = "draft" => orders'[i].overtaken
    PROVE  ReplenishmentInv'
<1>1. \A b \in Screens : SameScreen(b) /\ (Misses(looking[b].read, "nowhere", to) => looking'[b].overtaken)
    BY ScreensAfterIs DEF ReplenishmentInv
<1>2. ASSUME NEW b \in Screens, ~looking'[b].overtaken
      PROVE  /\ looking[b].at = "looking" =>
                   Held(looking[b].read, inStock', inTransit') <= Held(looking[b].read, inStock, inTransit)
             /\ looking[b].at = "ordering" => AtHandAndComing' <= AtHandAndComing
  <2>1. looking[b].read \subseteq Figures
      BY DEF ReplenishmentInv, ReplenishmentShapes, LookingRows
  <2>2. to \notin looking[b].read
    <3>1. "nowhere" \notin looking[b].read
        BY <2>1 DEF Figures
    <3> QED
        BY <1>1, <1>2, <3>1 DEF Misses
  <2>3. looking[b].at # "ordering"
      BY <2>2 DEF ReplenishmentInv, ReplenishmentShapes
  <2>4. inStock \in Nat /\ inTransit \in Nat
      BY DEF ReplenishmentInv, ReplenishmentShapes
  <2>5. Held(looking[b].read, inStock', inTransit') = Held(looking[b].read, inStock, inTransit)
      BY <2>2 DEF Held
  <2>6. Held(looking[b].read, inStock, inTransit) \in Nat
      BY <2>4, HeldType
  <2> QED
      BY <2>3, <2>5, <2>6
<1>3. ScreensKnow'
    BY <1>1, <1>2, ScreensGoOn DEF ReplenishmentInv
<1>4. NeverOrderedTwice'
    BY DraftsGoOn DEF ReplenishmentInv
<1> QED
    BY <1>3, <1>4 DEF ReplenishmentInv

LEMMA SendsOrderKeeps ==
    ASSUME ReplenishmentInv, NEW k \in DOMAIN orders, SendsOrder(k)
    PROVE  ReplenishmentInv'
<1>1. PICK list : list = Decided(k, "sent")
    OBVIOUS
<1>2. orders \in Seq(OrderRows) /\ DOMAIN orders = 1..Len(orders) /\ Len(orders) \in Nat
      /\ date \in Nat /\ inStock \in Nat /\ inTransit \in Nat
    BY DEF ReplenishmentInv, ReplenishmentShapes
<1>3. OrderList(list)
  <2>1. OrderList(orders)
      BY <1>2 DEF OrderList
  <2> QED
      BY <1>1, <2>1, DecidedIs
<1>4. orders' = DraftsAfter("nowhere", "orders", list) /\ looking' = ScreensAfter("nowhere", "orders")
      /\ date' = date /\ inStock' = inStock /\ inTransit' = inTransit
    BY <1>1 DEF SendsOrder
<1>5. /\ OrderList(orders') /\ DOMAIN orders' = DOMAIN list
      /\ \A i \in DOMAIN list :
            /\ orders'[i].status = list[i].status
            /\ list[i].status = "draft" /\ Misses(Figures, "nowhere", "orders") => orders'[i].overtaken
    BY <1>3, <1>4, DraftsAfterAre
<1>6. Misses(Figures, "nowhere", "orders")
    BY DEF Misses, Figures
<1>7. ReplenishmentShapes'
  <2>1. looking' \in [Screens -> LookingRows] /\ \A b \in Screens : SameScreen(b)
      BY <1>4, ScreensAfterIs DEF ReplenishmentInv
  <2> QED
      BY <1>2, <1>4, <1>5, <2>1, ShapesGoOn DEF ReplenishmentInv
<1>8. "orders" \in Figures
    BY DEF Figures
<1> QED
    BY <1>4, <1>5, <1>6, <1>7, <1>8, FromNowhere

LEMMA PutsAsideKeeps ==
    ASSUME ReplenishmentInv, NEW k \in DOMAIN orders, PutsAside(k)
    PROVE  ReplenishmentInv'
<1>1. orders' = Decided(k, "cancelled") /\ orders[k].status = "draft"
      /\ looking' = looking /\ date' = date /\ inStock' = inStock /\ inTransit' = inTransit
    BY DEF PutsAside
<1>2. OrderList(orders) /\ date \in Nat /\ inStock \in Nat /\ inTransit \in Nat
      /\ AtHandAndComing = inStock + inTransit + OwedOnAll(orders, date) /\ AtHandAndComing \in Nat
    BY AtHand DEF ReplenishmentInv
<1>3. OrderList(orders') /\ DOMAIN orders' = DOMAIN orders /\ orders'[k].status = "cancelled"
      /\ \A i \in DOMAIN orders \ {k} : orders'[i] = orders[i]
    BY <1>1, <1>2, DecidedIs
<1>4. OwedOnAll(orders', date) = OwedOnAll(orders, date)
    BY <1>1, <1>2, <1>3, UnsentToUnsent
<1>5. OwedOnAll(orders, date) \in Nat
    BY AtHand DEF ReplenishmentInv
<1>6. OwedOnAll(orders', date) <= OwedOnAll(orders, date) /\ orders'[k].status # "draft"
    BY <1>3, <1>4, <1>5
<1> QED
    BY <1>1, <1>3, <1>6, OnlyOrders

LEMMA CallsOffKeeps ==
    ASSUME ReplenishmentInv, NEW k \in DOMAIN orders, CallsOff(k)
    PROVE  ReplenishmentInv'
<1>1. orders' = [orders EXCEPT ![k].status = "called off"] /\ orders[k].status = "sent"
      /\ looking' = looking /\ date' = date /\ inStock' = inStock /\ inTransit' = inTransit
    BY DEF CallsOff
<1>2. orders \in Seq(OrderRows) /\ OrderList(orders) /\ date \in Nat
      /\ DOMAIN orders = 1..Len(orders) /\ orders[k] \in OrderRows
  <2>1. OrderList(orders) /\ date \in Nat
      BY AtHand DEF ReplenishmentInv
  <2> QED
      BY <2>1, OrdersOf DEF OrderList
<1>3. PICK o : o = orders[k]
    OBVIOUS
<1>4. PICK new : new = [o EXCEPT !.status = "called off"]
    OBVIOUS
<1>5. OrderList(orders') /\ DOMAIN orders' = DOMAIN orders /\ orders'[k].status = "called off"
      /\ \A i \in DOMAIN orders \ {k} : orders'[i] = orders[i]
  <2>1. new \in OrderRows /\ new.status = "called off"
      BY <1>2, <1>3, <1>4 DEF OrderRows
  <2>2. PICK list : list = [orders EXCEPT ![k] = new]
      OBVIOUS
  <2>3. OrderList(list) /\ DOMAIN list = DOMAIN orders /\ list[k] = new
        /\ \A i \in DOMAIN orders \ {k} : list[i] = orders[i]
    <3>1. list \in Seq(OrderRows)
      <4>1. PICK n : n = Len(orders)
          OBVIOUS
      <4>2. n \in Nat /\ DOMAIN orders = 1..n /\ orders \in [1..n -> OrderRows]
          BY <1>2, <4>1
      <4>3. list \in [1..n -> OrderRows]
          BY <2>1, <2>2, <4>2
      <4> QED
          BY <4>2, <4>3
    <3> QED
        BY <1>2, <2>1, <2>2, <3>1 DEF OrderList
  <2>4. orders' = list
      BY <1>1, <1>2, <1>3, <1>4, <2>2
  <2> QED
      BY <2>1, <2>3, <2>4
<1>6. OwedOnAll(orders', date) <= OwedOnAll(orders, date)
  <2>1. OwedOn(orders'[k], date) = 0
      BY <1>5 DEF OwedOn
  <2>2. PICK d : d = date
      OBVIOUS
  <2>3. d \in Int
      BY <1>2, <2>2
  <2>4. PICK list : list = orders'
      OBVIOUS
  <2>5. /\ OwedOnAll(list, d) = OwedOnAll(orders, d) + OwedOn(list[k], d) - OwedOn(orders[k], d)
        /\ OwedOn(list[k], d) \in Nat /\ OwedOn(orders[k], d) \in Nat
      BY <1>2, <1>5, <2>3, <2>4, OneOrderChanges
  <2>6. OwedOnAll(orders, d) \in Nat
      BY <1>2, <2>3, OwedOnAllType
  <2> QED
      BY <2>1, <2>2, <2>4, <2>5, <2>6
<1> QED
    BY <1>1, <1>5, <1>6, OnlyOrders

\* What comes of an order in time was expected: the shop holds it instead.
LEMMA ReceivesKeeps ==
    ASSUME ReplenishmentInv, NEW k \in DOMAIN orders, NEW quantity \in Nat,
           NEW before \in ReadingsOf(orders[k]), Receives(k, quantity, before)
    PROVE  ReplenishmentInv'
<1>1. PICK from : from = IF OnOrder(orders[k], date) /\ before = orders[k].received
                            /\ quantity <= Outstanding(orders[k])
                         THEN "orders" ELSE "nowhere"
    OBVIOUS
<1>2. PICK list : list = [orders EXCEPT ![k].received = before + quantity, ![k].status = "sent"]
    OBVIOUS
<1>3. orders' = DraftsAfter(from, "stock", list) /\ looking' = ScreensAfter(from, "stock")
      /\ date' = date /\ inStock' = inStock + quantity /\ inTransit' = inTransit
      /\ orders[k].status \in {"sent", "called off"}
    BY <1>1, <1>2 DEF Receives
<1>4. /\ OrderList(orders) /\ date \in Nat /\ inStock \in Nat /\ inTransit \in Nat
      /\ AtHandAndComing = inStock + inTransit + OwedOnAll(orders, date)
      /\ OwedOnAll(orders, date) \in Nat
    BY AtHand DEF ReplenishmentInv
<1>5. PICK o : o = orders[k]
    OBVIOUS
<1>6. orders \in Seq(OrderRows) /\ DOMAIN orders = 1..Len(orders) /\ o \in OrderRows
    BY <1>4, <1>5, OrdersOf DEF OrderList
<1>7. before \in Nat
  <2>1. before \in {0, o.received}
      BY <1>5 DEF ReadingsOf
  <2>2. o.received \in Nat
      BY <1>6 DEF OrderRows
  <2> QED
      BY <2>1, <2>2
<1>8. PICK new : new = [o EXCEPT !.received = before + quantity, !.status = "sent"]
    OBVIOUS
<1>9. before + quantity \in Nat
    BY <1>7
<1>10. new \in OrderRows /\ new.received = before + quantity /\ new.status = "sent"
       /\ new.ordered = o.ordered /\ new.due = o.due
    BY <1>6, <1>8, <1>9 DEF OrderRows
<1>11. list = [orders EXCEPT ![k] = new]
    BY <1>2, <1>5, <1>6, <1>8
<1>12. OrderList(list) /\ DOMAIN list = DOMAIN orders /\ list[k] = new
       /\ \A i \in DOMAIN orders \ {k} : list[i] = orders[i]
    BY <1>6, <1>10, <1>11 DEF OrderList
<1>13. /\ OrderList(orders') /\ DOMAIN orders' = DOMAIN list
       /\ \A i \in DOMAIN list :
             /\ orders'[i].status = list[i].status /\ orders'[i].ordered = list[i].ordered
             /\ orders'[i].upTo = list[i].upTo /\ (list[i].overtaken => orders'[i].overtaken)
             /\ list[i].status = "draft" /\ Misses(Figures, from, "stock") => orders'[i].overtaken
       /\ \A d \in Int : OwedOnAll(orders', d) = OwedOnAll(list, d)
  <2>1. PICK after : after = orders'
      OBVIOUS
  <2>2. after = DraftsAfter(from, "stock", list)
      BY <1>3, <2>1
  <2>3. OrderList(after) /\ DOMAIN after = DOMAIN list
      BY <1>12, <2>2, DraftsAfterAre
  <2>4. \A i \in DOMAIN list :
             /\ after[i].status = list[i].status /\ after[i].ordered = list[i].ordered
             /\ after[i].upTo = list[i].upTo /\ (list[i].overtaken => after[i].overtaken)
             /\ list[i].status = "draft" /\ Misses(Figures, from, "stock") => after[i].overtaken
      BY <1>12, <2>2, DraftsAfterAre
  <2>5. \A d \in Int : OwedOnAll(after, d) = OwedOnAll(list, d)
      BY <1>12, <2>2, DraftsAfterAre
  <2> QED
      BY <2>1, <2>3, <2>4, <2>5
<1>14. looking' \in [Screens -> LookingRows] /\ (\A b \in Screens : SameScreen(b))
       /\ \A b \in Screens : Misses(looking[b].read, from, "stock") => looking'[b].overtaken
    BY <1>3, ScreensAfterIs DEF ReplenishmentInv
<1>15. inStock + quantity \in Nat
    BY <1>4
<1>16. ReplenishmentShapes'
  <2>1. date' \in Nat /\ date <= date' /\ inStock' \in Nat /\ inTransit' \in Nat
    <3>1. date' = date /\ inStock' = inStock + quantity /\ inTransit' = inTransit
        BY <1>3
    <3>2. date <= date
        BY <1>4
    <3> QED
        BY <1>4, <1>15, <3>1, <3>2
  <2>2. OrderList(orders') /\ looking' \in [Screens -> LookingRows] /\ \A b \in Screens : SameScreen(b)
      BY <1>13, <1>14
  <2>3. ReplenishmentShapes
      BY DEF ReplenishmentInv
  <2> QED
      BY <2>1, <2>2, <2>3, ShapesGoOn
<1>17. CASE from = "nowhere"
  <2>1. Misses(Figures, "nowhere", "stock") /\ "stock" \in Figures
      BY DEF Misses, Figures
  <2>2. \A i \in DOMAIN orders' : orders'[i].status = "draft" => orders'[i].overtaken
      BY <1>13, <1>17, <2>1
  <2> QED
      BY <1>3, <1>16, <1>17, <2>1, <2>2, FromNowhere
<1>18. CASE from # "nowhere"
  <2>1. OnOrder(o, date) /\ before = o.received /\ quantity <= Outstanding(o) /\ from = "orders"
      BY <1>1, <1>5, <1>18
  <2>2. OwedOn(o, date) = Outstanding(o)
      BY <2>1 DEF OwedOn, OnOrder, GivenUp
  <2>3. OwedOn(new, date) = Outstanding(new)
      BY <1>10, <2>1 DEF OwedOn, OnOrder, GivenUp
  <2>4. /\ Outstanding(o) = IF o.received < o.ordered THEN o.ordered - o.received ELSE 0
        /\ Outstanding(new) = IF new.received < new.ordered THEN new.ordered - new.received ELSE 0
    <3>1. 0 \in Int
        OBVIOUS
    <3> QED
        BY <1>6, <1>10, <3>1, OwedType
  <2>5. o.ordered \in Nat /\ o.received \in Nat
      BY <1>6 DEF OrderRows
  <2>6. Outstanding(new) = Outstanding(o) - quantity /\ Outstanding(o) \in Nat
    <3>1. new.received = o.received + quantity /\ new.ordered = o.ordered
        BY <1>10, <2>1
    <3>2. PICK q : q = Outstanding(o)
        OBVIOUS
    <3>3. q = (IF o.received < o.ordered THEN o.ordered - o.received ELSE 0) /\ quantity <= q
        BY <2>1, <2>4, <3>2
    <3>4. (IF o.received + quantity < o.ordered THEN o.ordered - (o.received + quantity) ELSE 0) = q - quantity
          /\ q \in Nat
        BY <2>5, <3>3
    <3> QED
        BY <2>4, <3>1, <3>2, <3>4
  <2>7. OwedOnAll(orders', date) = OwedOnAll(orders, date) - quantity
    <3>1. PICK d : d = date
        OBVIOUS
    <3>2. d \in Int
        BY <1>4, <3>1
    <3>3. OwedOnAll(list, d) = OwedOnAll(orders, d) + OwedOn(list[k], d) - OwedOn(orders[k], d)
        BY <1>4, <1>12, <3>2, OneOrderChanges
    <3>4. OwedOnAll(orders', d) = OwedOnAll(list, d)
        BY <1>13, <3>2
    <3>5. OwedOn(list[k], d) = Outstanding(new) /\ OwedOn(orders[k], d) = Outstanding(o)
        BY <1>5, <1>12, <2>2, <2>3, <3>1
    <3> QED
        BY <1>4, <2>6, <3>1, <3>3, <3>4, <3>5
  <2>8. AtHandAndComing' = AtHandAndComing
    <3>1. Owed' = OwedOnAll(orders', date')
        BY DEF Owed, OwedOnAll, OwedOn, GivenUp
    <3>2. AtHandAndComing' = inStock + quantity + inTransit + (OwedOnAll(orders, date) - quantity)
        BY <1>3, <2>7, <3>1 DEF AtHandAndComing
    <3> QED
        BY <1>4, <3>2
  <2>9. AtHandAndComing' <= AtHandAndComing
      BY <1>4, <2>8
  <2>10. ASSUME NEW b \in Screens, ~looking'[b].overtaken, looking[b].at = "looking"
         PROVE  Held(looking[b].read, inStock', inTransit') <= Held(looking[b].read, inStock, inTransit)
    <3>1. looking[b].read \subseteq {"stock", "transit"}
        BY <2>10 DEF ReplenishmentInv, ReplenishmentShapes
    <3>2. "stock" \notin looking[b].read
        BY <1>14, <2>1, <2>10, <3>1 DEF Misses
    <3>3. Held(looking[b].read, inStock', inTransit') = Held(looking[b].read, inStock, inTransit)
        BY <1>3, <3>2 DEF Held
    <3>4. Held(looking[b].read, inStock, inTransit) \in Nat
        BY <1>4, HeldType
    <3> QED
        BY <3>3, <3>4
  <2>11. ScreensKnow'
      BY <1>14, <1>16, <2>9, <2>10, ScreensGoOn DEF ReplenishmentInv
  <2>12. ASSUME NEW i \in DOMAIN orders', orders'[i].status = "draft", ~orders'[i].overtaken
         PROVE  SameDraft(i)
    <3>1. i \in DOMAIN list /\ list[i].status = "draft" /\ ~list[i].overtaken
        BY <1>13, <2>12
    <3>2. i # k
        BY <1>10, <1>12, <3>1
    <3>3. list[i] = orders[i] /\ i \in DOMAIN orders
        BY <1>12, <3>1, <3>2
    <3> QED
        BY <1>13, <3>1, <3>3 DEF SameDraft
  <2>13. NeverOrderedTwice'
      BY <1>16, <2>9, <2>12, DraftsGoOn DEF ReplenishmentInv
  <2> QED
      BY <1>16, <2>11, <2>13 DEF ReplenishmentInv
<1> QED
    BY <1>17, <1>18

LEMMA ComesInKeeps ==
    ASSUME ReplenishmentInv, NEW quantity \in Nat, ComesIn(quantity)
    PROVE  ReplenishmentInv'
<1>1. orders' = DraftsAfter("nowhere", "stock", orders) /\ looking' = ScreensAfter("nowhere", "stock")
      /\ date' = date /\ inStock' = inStock + quantity /\ inTransit' = inTransit
    BY DEF ComesIn
<1>2. OrderList(orders) /\ date \in Nat /\ inStock \in Nat /\ inTransit \in Nat /\ ReplenishmentShapes
    BY AtHand DEF ReplenishmentInv
<1>3. Misses(Figures, "nowhere", "stock") /\ "stock" \in Figures
    BY DEF Misses, Figures
<1>4. /\ OrderList(orders') /\ DOMAIN orders' = DOMAIN orders
      /\ \A i \in DOMAIN orders : orders'[i].status = "draft" => orders'[i].overtaken
    BY <1>1, <1>2, <1>3, DraftsAfterAre
<1>5. looking' \in [Screens -> LookingRows] /\ \A b \in Screens : SameScreen(b)
    BY <1>1, <1>2, ScreensAfterIs
<1>6. date' \in Nat /\ date <= date' /\ inStock' \in Nat /\ inTransit' \in Nat
    BY <1>1, <1>2
<1>7. ReplenishmentShapes'
    BY <1>2, <1>4, <1>5, <1>6, ShapesGoOn
<1> QED
    BY <1>1, <1>3, <1>4, <1>7, FromNowhere

LEMMA VanSetsOutKeeps ==
    ASSUME ReplenishmentInv, NEW units \in Nat, VanSetsOut(units)
    PROVE  ReplenishmentInv'
<1>1. orders' = DraftsAfter("nowhere", "transit", orders) /\ looking' = ScreensAfter("nowhere", "transit")
      /\ date' = date /\ inStock' = inStock /\ inTransit' = inTransit + units
    BY DEF VanSetsOut
<1>2. OrderList(orders) /\ date \in Nat /\ inStock \in Nat /\ inTransit \in Nat /\ ReplenishmentShapes
    BY AtHand DEF ReplenishmentInv
<1>3. Misses(Figures, "nowhere", "transit") /\ "transit" \in Figures
    BY DEF Misses, Figures
<1>4. /\ OrderList(orders') /\ DOMAIN orders' = DOMAIN orders
      /\ \A i \in DOMAIN orders : orders'[i].status = "draft" => orders'[i].overtaken
    BY <1>1, <1>2, <1>3, DraftsAfterAre
<1>5. looking' \in [Screens -> LookingRows] /\ \A b \in Screens : SameScreen(b)
    BY <1>1, <1>2, ScreensAfterIs
<1>6. date' \in Nat /\ date <= date' /\ inStock' \in Nat /\ inTransit' \in Nat
    BY <1>1, <1>2
<1>7. ReplenishmentShapes'
    BY <1>2, <1>4, <1>5, <1>6, ShapesGoOn
<1> QED
    BY <1>1, <1>3, <1>4, <1>7, FromNowhere

LEMMA NoMoreInAll ==
    ASSUME NEW a \in Nat, NEW b \in Nat, NEW c \in Nat, NEW d \in Nat, a + b <= c + d,
           NEW x \in Nat, NEW y \in Nat, y <= x
    PROVE  a + b + y <= c + d + x
OBVIOUS

\* The orders stay, and there is no more at hand and coming than there was.
LEMMA NoMoreAtHand ==
    ASSUME ReplenishmentInv, orders' = orders, date' \in Nat, date <= date',
           inStock' \in Nat, inTransit' \in Nat, inStock' + inTransit' <= inStock + inTransit,
           looking' \in [Screens -> LookingRows], \A b \in Screens : SameScreen(b),
           \A b \in Screens : ~looking'[b].overtaken =>
              Held(looking[b].read, inStock', inTransit') <= Held(looking[b].read, inStock, inTransit)
    PROVE  ReplenishmentInv'
<1>1. /\ OrderList(orders) /\ date \in Nat /\ inStock \in Nat /\ inTransit \in Nat
      /\ AtHandAndComing = inStock + inTransit + OwedOnAll(orders, date)
      /\ OwedOnAll(orders, date) \in Nat /\ ReplenishmentShapes
    BY AtHand DEF ReplenishmentInv
<1>2. ReplenishmentShapes'
    BY <1>1, ShapesGoOn
<1>3. AtHandAndComing' <= AtHandAndComing
  <2>1. PICK d : d = date
      OBVIOUS
  <2>2. PICK e : e = date'
      OBVIOUS
  <2>3. d \in Int /\ e \in Int /\ d <= e
      BY <1>1, <2>1, <2>2
  <2>4. OwedOnAll(orders, e) <= OwedOnAll(orders, d) /\ OwedOnAll(orders, e) \in Nat
      BY <1>1, <2>3, OwedLater, OwedOnAllType
  <2>5. Owed' = OwedOnAll(orders', date')
      BY DEF Owed, OwedOnAll, OwedOn, GivenUp
  <2>6. AtHandAndComing' = inStock' + inTransit' + OwedOnAll(orders, e)
      BY <2>2, <2>5 DEF AtHandAndComing
  <2>7. PICK x : x = OwedOnAll(orders, d)
      OBVIOUS
  <2>8. PICK y : y = OwedOnAll(orders, e)
      OBVIOUS
  <2>9. x \in Nat /\ y \in Nat /\ y <= x
      BY <1>1, <2>1, <2>4, <2>7, <2>8
  <2>10. inStock' + inTransit' + y <= inStock + inTransit + x
      BY <1>1, <2>9, NoMoreInAll
  <2> QED
      BY <1>1, <2>1, <2>6, <2>7, <2>8, <2>10
<1>4. ScreensKnow'
    BY <1>2, <1>3, ScreensGoOn DEF ReplenishmentInv
<1>5. \A i \in DOMAIN orders' : orders'[i].status = "draft" /\ ~orders'[i].overtaken => SameDraft(i)
    BY DEF SameDraft
<1>6. NeverOrderedTwice'
    BY <1>2, <1>3, <1>5, DraftsGoOn DEF ReplenishmentInv
<1> QED
    BY <1>2, <1>4, <1>6 DEF ReplenishmentInv

\* Whoever has read the shelf and not the van sees the goods in neither.
LEMMA VanEndsKeeps ==
    ASSUME ReplenishmentInv, NEW units \in Nat, NEW count \in 0..units, VanEnds(units, count)
    PROVE  ReplenishmentInv'
<1>1. units <= inTransit /\ inTransit' = inTransit - units /\ inStock' = inStock + count
      /\ orders' = orders /\ date' = date
      /\ looking' = IF count > 0 THEN ScreensAfter("transit", "stock") ELSE looking
    BY DEF VanEnds
<1>2. date \in Nat /\ inStock \in Nat /\ inTransit \in Nat /\ ReplenishmentShapes
    BY AtHand DEF ReplenishmentInv
<1>3. count \in Nat /\ count <= units
    OBVIOUS
<1>4. date' \in Nat /\ date <= date' /\ inStock' \in Nat /\ inTransit' \in Nat
      /\ inStock' + inTransit' <= inStock + inTransit
    BY <1>1, <1>2, <1>3
<1>5. /\ looking' \in [Screens -> LookingRows] /\ \A b \in Screens : SameScreen(b)
      /\ count > 0 => \A b \in Screens : Misses(looking[b].read, "transit", "stock") => looking'[b].overtaken
  <2>1. CASE count > 0
      BY <1>1, <1>2, <2>1, ScreensAfterIs
  <2>2. CASE ~(count > 0)
      BY <1>1, <1>2, <2>2 DEF ReplenishmentShapes, SameScreen
  <2> QED
      BY <2>1, <2>2
<1>6. ASSUME NEW b \in Screens, ~looking'[b].overtaken
      PROVE  Held(looking[b].read, inStock', inTransit') <= Held(looking[b].read, inStock, inTransit)
  <2>1. PICK r : r = looking[b].read
      OBVIOUS
  <2>2. count > 0 => ("stock" \in r => "transit" \in r)
      BY <1>5, <1>6, <2>1 DEF Misses
  <2>3. Held(r, inStock + count, inTransit - units) <= Held(r, inStock, inTransit)
      BY <1>1, <1>2, <1>3, <2>2 DEF Held
  <2> QED
      BY <1>1, <2>1, <2>3
<1> QED
    BY <1>1, <1>4, <1>5, <1>6, NoMoreAtHand

LEMMA SellsSomeKeeps ==
    ASSUME ReplenishmentInv, SellsSome
    PROVE  ReplenishmentInv'
<1>1. inStock > 0 /\ inStock' = inStock - 1 /\ date' = date /\ inTransit' = inTransit
      /\ orders' = orders /\ looking' = looking
    BY DEF SellsSome
<1>2. date \in Nat /\ inStock \in Nat /\ inTransit \in Nat /\ looking \in [Screens -> LookingRows]
    BY DEF ReplenishmentInv, ReplenishmentShapes
<1>3. date' \in Nat /\ date <= date' /\ inStock' \in Nat /\ inTransit' \in Nat
      /\ inStock' + inTransit' <= inStock + inTransit
    BY <1>1, <1>2
<1>4. looking' \in [Screens -> LookingRows] /\ \A b \in Screens : SameScreen(b)
    BY <1>1, <1>2 DEF SameScreen
<1>5. ASSUME NEW b \in Screens
      PROVE  Held(looking[b].read, inStock', inTransit') <= Held(looking[b].read, inStock, inTransit)
  <2>1. PICK r : r = looking[b].read
      OBVIOUS
  <2>2. Held(r, inStock - 1, inTransit) <= Held(r, inStock, inTransit)
      BY <1>1, <1>2 DEF Held
  <2> QED
      BY <1>1, <2>1, <2>2
<1> QED
    BY <1>1, <1>3, <1>4, <1>5, NoMoreAtHand

\* With the days orders are given up, and nothing more.
LEMMA PassesDateKeeps ==
    ASSUME ReplenishmentInv, PassesDate
    PROVE  ReplenishmentInv'
<1>1. date' = date + 1 /\ inStock' = inStock /\ inTransit' = inTransit
      /\ orders' = orders /\ looking' = looking
    BY DEF PassesDate
<1>2. date \in Nat /\ inStock \in Nat /\ inTransit \in Nat /\ looking \in [Screens -> LookingRows]
    BY DEF ReplenishmentInv, ReplenishmentShapes
<1>3. date' \in Nat /\ date <= date' /\ inStock' \in Nat /\ inTransit' \in Nat
      /\ inStock' + inTransit' <= inStock + inTransit
    BY <1>1, <1>2
<1>4. looking' \in [Screens -> LookingRows] /\ \A b \in Screens : SameScreen(b)
    BY <1>1, <1>2 DEF SameScreen
<1>5. ASSUME NEW b \in Screens
      PROVE  Held(looking[b].read, inStock', inTransit') <= Held(looking[b].read, inStock, inTransit)
  <2>1. Held(looking[b].read, inStock, inTransit) \in Nat
      BY <1>2, HeldType
  <2>2. Held(looking[b].read, inStock', inTransit') = Held(looking[b].read, inStock, inTransit)
      BY <1>1
  <2> QED
      BY <2>1, <2>2
<1> QED
    BY <1>1, <1>3, <1>4, <1>5, NoMoreAtHand

LEMMA ReplenishmentStarts ==
    ASSUME ReplenishmentInit
    PROVE  ReplenishmentInv
<1>1. date = 0 /\ inStock \in Nat /\ inTransit = 0 /\ orders = <<>>
      /\ looking = [b \in Screens |-> NotLooking]
    BY ReplenishmentAssumption DEF ReplenishmentInit
<1>2. NotLooking \in LookingRows /\ NotLooking.at = "away"
    BY DEF NotLooking, LookingRows
<1>3. orders \in Seq(OrderRows) /\ DOMAIN orders = {}
    BY <1>1
<1>4. \A b \in Screens : looking[b].at # "looking" /\ looking[b].at # "ordering"
    BY <1>1, <1>2
<1>5. looking \in [Screens -> LookingRows]
    BY <1>1, <1>2
<1>6. ReplenishmentShapes
    BY <1>1, <1>3, <1>4, <1>5 DEF ReplenishmentShapes
<1> QED
    BY <1>3, <1>4, <1>6 DEF ReplenishmentInv, ScreensKnow, NeverOrderedTwice

LEMMA ReplenishmentStays ==
    ASSUME ReplenishmentInv, UNCHANGED replenishmentVars
    PROVE  ReplenishmentInv'
<1>1. date' = date /\ inStock' = inStock /\ inTransit' = inTransit /\ orders' = orders
      /\ looking' = looking
    BY DEF replenishmentVars
<1>2. ReplenishmentShapes'
    BY <1>1 DEF ReplenishmentInv, ReplenishmentShapes, OrderRows, LookingRows, Figures
<1>3. AtHandAndComing' = AtHandAndComing
    BY <1>1 DEF AtHandAndComing, Owed, GivenUp
<1>4. ScreensKnow'
    BY <1>1, <1>3 DEF ReplenishmentInv, ScreensKnow, RoomForMore
<1>5. NeverOrderedTwice'
    BY <1>1, <1>3 DEF ReplenishmentInv, NeverOrderedTwice
<1> QED
    BY <1>2, <1>4, <1>5 DEF ReplenishmentInv

\* No step of the calculation or of the goods breaks it.
LEMMA ReplenishmentStep ==
    ASSUME ReplenishmentInv, ReplenishmentNext
    PROVE  ReplenishmentInv'
<1>1. \A k \in DOMAIN orders : orders[k].ordered \in Nat
  <2>1. OrderList(orders)
      BY AtHand DEF ReplenishmentInv
  <2> QED
      BY <2>1, OrdersOf DEF OrderRows
<1>2. MaxStock \in Nat /\ MaxTransit \in Nat /\ Extra \in Nat
    BY ReplenishmentAssumption
<1>3. CASE SellsSome
    BY <1>3, SellsSomeKeeps
<1>4. CASE PassesDate
    BY <1>4, PassesDateKeeps
<1>5. CASE \E quantity \in 1..MaxStock : ComesIn(quantity)
  <2>1. 1..MaxStock \subseteq Nat
      BY <1>2
  <2> QED
      BY <1>5, <2>1, ComesInKeeps
<1>6. CASE \E units \in 1..MaxTransit :
              VanSetsOut(units) \/ \E count \in 0..units : VanEnds(units, count)
  <2>1. PICK units \in 1..MaxTransit :
            VanSetsOut(units) \/ \E count \in 0..units : VanEnds(units, count)
      BY <1>6
  <2>2. units \in Nat
      BY <1>2
  <2> QED
      BY <2>1, <2>2, VanSetsOutKeeps, VanEndsKeeps
<1>7. CASE \E k \in DOMAIN orders : SendsOrder(k) \/ PutsAside(k) \/ CallsOff(k)
    BY <1>7, SendsOrderKeeps, PutsAsideKeeps, CallsOffKeeps
<1>8. CASE \E k \in DOMAIN orders :
              \E quantity \in 1..(orders[k].ordered + Extra), before \in ReadingsOf(orders[k]) :
                 Receives(k, quantity, before)
  <2>1. PICK k \in DOMAIN orders :
            \E quantity \in 1..(orders[k].ordered + Extra), before \in ReadingsOf(orders[k]) :
               Receives(k, quantity, before)
      BY <1>8
  <2>3. PICK quantity \in 1..(orders[k].ordered + Extra), before \in ReadingsOf(orders[k]) :
            Receives(k, quantity, before)
      BY <2>1
  <2>2. quantity \in Nat
      BY <1>1, <1>2
  <2> QED
      BY <2>2, <2>3, ReceivesKeeps
<1>9. CASE \E b \in Screens :
              StartsLooking(b) \/ ReadsStock(b) \/ ReadsVans(b) \/ ReadsOrders(b) \/ MakesOrder(b)
  <2>1. PICK b \in Screens :
            StartsLooking(b) \/ ReadsStock(b) \/ ReadsVans(b) \/ ReadsOrders(b) \/ MakesOrder(b)
      BY <1>9
  <2>2. CASE ReadsStock(b)
    <3>1. Reads(b, "stock", inStock)
        BY <2>2 DEF ReadsStock
    <3> QED
        BY <3>1, ReadsKeeps
  <2>3. CASE ReadsVans(b)
    <3>1. Reads(b, "transit", inTransit)
        BY <2>3 DEF ReadsVans
    <3> QED
        BY <3>1, ReadsKeeps
  <2> QED
      BY <2>1, <2>2, <2>3, StartsLookingKeeps, ReadsOrdersKeeps, MakesOrderKeeps
<1> QED
    BY <1>3, <1>4, <1>5, <1>6, <1>7, <1>8, <1>9 DEF ReplenishmentNext

LEMMA ReplenishmentInvHolds == ReplenishmentSpec => []ReplenishmentInv
<1>1. ReplenishmentInit => ReplenishmentInv
    BY ReplenishmentStarts
<1>2. ReplenishmentInv /\ [ReplenishmentNext]_replenishmentVars => ReplenishmentInv'
    BY ReplenishmentStep, ReplenishmentStays
<1> QED
    BY <1>1, <1>2, PTL DEF ReplenishmentSpec

\* Figures in the shop, on vans and owed are never negative and an order is for something
\* (ReplenishmentTypeOK), for any policies, packs and number of screens and orders.
THEOREM ReplenishmentTypes == ReplenishmentSpec => []ReplenishmentTypeOK
<1>1. ReplenishmentInv => ReplenishmentTypeOK
  <2> SUFFICES ASSUME ReplenishmentInv PROVE ReplenishmentTypeOK
      OBVIOUS
  <2>1. ASSUME NEW i \in DOMAIN orders PROVE orders[i].ordered > 0 /\ orders[i].received >= 0
    <3>1. OrderList(orders)
        BY AtHand DEF ReplenishmentInv
    <3>2. orders[i] \in OrderRows
        BY <3>1, OrdersOf
    <3>3. orders[i].ordered \in Nat \ {0} /\ orders[i].received \in Nat
        BY <3>2 DEF OrderRows
    <3> QED
        BY <3>3
  <2>2. Owed \in Nat
    <3>1. Owed = OwedOnAll(orders, date)
        BY DEF Owed, OwedOnAll, OwedOn, GivenUp
    <3> QED
        BY <3>1, AtHand DEF ReplenishmentInv
  <2> QED
      BY <2>1, <2>2 DEF ReplenishmentInv, ReplenishmentShapes, ReplenishmentTypeOK
<1> QED
    BY <1>1, ReplenishmentInvHolds, PTL

\* Whoever sends a draft that nothing has overtaken orders no more than what is missing,
\* rounded up to packs (NeverOrderedTwice), for any policies, demands, packs and lead
\* times, and however orders come in parts, are called off or given up, vans come in
\* and goods are sold meanwhile.
THEOREM NothingIsOrderedTwice == ReplenishmentSpec => []NeverOrderedTwice
<1>1. ReplenishmentInv => NeverOrderedTwice
    BY DEF ReplenishmentInv
<1> QED
    BY <1>1, ReplenishmentInvHolds, PTL

-----------------------------------------------------------------------------
(***************************************************************************)
(* Together.  A behaviour of the office is, of each component's variables, *)
(* a behaviour of that component: its steps are the component's own or     *)
(* leave its rows alone.  So what was proved of the one holds in the other.*)
(***************************************************************************)
LEMMA OfficeParts ==
    Spec => /\ StaffSpec /\ RegistersSpec /\ ConsentSpec /\ CabinetSpec /\ LicenceSpec
            /\ BackupsSpec /\ CatalogueSpec /\ MorningSpec /\ ReplenishmentSpec
<1>1. Init => /\ StaffInit /\ RegistersInit /\ ConsentInit /\ CabinetInit /\ LicenceInit
              /\ BackupsInit /\ CatalogueInit /\ MorningInit /\ ReplenishmentInit
    BY DEF Init
<1>2. [Next]_vars => [StaffNext]_staffVars
    BY DEF Next, vars
<1>3. [Next]_vars => [RegistersNext]_registersVars
    BY DEF Next, vars
<1>4. [Next]_vars => [ConsentNext]_consentVars
    BY DEF Next, vars
<1>5. [Next]_vars => [CabinetNext]_cabinetVars
    BY DEF Next, vars
<1>6. [Next]_vars => [LicenceNext]_licenceVars
    BY DEF Next, vars
<1>7. [Next]_vars => [BackupsNext]_backupsVars
    BY DEF Next, vars
<1>8. [Next]_vars => [CatalogueNext]_catalogueVars
    BY DEF Next, vars
<1>9. [Next]_vars => [MorningNext]_morningVars
    BY DEF Next, vars
<1>10. [Next]_vars => [ReplenishmentNext]_replenishmentVars
    BY DEF Next, vars
<1> QED
    BY <1>1, <1>2, <1>3, <1>4, <1>5, <1>6, <1>7, <1>8, <1>9, <1>10, PTL
       DEF Spec, StaffSpec, RegistersSpec, ConsentSpec, CabinetSpec, LicenceSpec,
           BackupsSpec, CatalogueSpec, MorningSpec, ReplenishmentSpec

\* Every row, session, file, answer and order stays what the program can hold, for any
\* number of them (OfficeTypeOK).
THEOREM OfficeTypes == Spec => []OfficeTypeOK
<1>1. (/\ StaffTypeOK /\ RegistersTypeOK /\ ConsentTypeOK /\ CabinetTypeOK /\ BackupsTypeOK
       /\ MorningTypeOK /\ LicenceTypeOK /\ CatalogueTypeOK /\ ReplenishmentTypeOK)
      => OfficeTypeOK
    BY DEF OfficeTypeOK
<1> QED
    BY <1>1, OfficeParts, StaffTypes, RegisterTypes, ConsentTypes, CabinetTypes, BackupTypes,
       MorningTypes, LicenceTypes, CatalogueTypes, ReplenishmentTypes, PTL

\* Who may open a till, sign in, look on and recover a password (AccessIsKept),
\* for any number of people, PINs, registers, tablets, grants, visits and codes.
THEOREM AccessIsAlwaysKept == Spec => []AccessIsKept
<1>1. (PinsOpenOneDoor /\ OwnerRemains /\ RevokedStaysOut /\ NoIsFinal
           /\ FactorWasShown /\ CodesOpenOnce) => AccessIsKept
    BY DEF AccessIsKept
<1> QED
    BY <1>1, OfficeParts, PinsAlwaysOpenOneDoor, OwnerAlwaysRemains, RevokedAlwaysStaysOut,
       NoStaysFinal, FactorAlwaysShown, CodesAlwaysOpenOnce, PTL

\* For a dump that was proven a whole one at least as new is kept, and no barcode is
\* on two products (RecordsAreKept), for any number of runs, dumps, people and files.
THEOREM RecordsAreAlwaysKept == Spec => []RecordsAreKept
<1>1. (CopyRemains /\ BarcodesAreApart) => RecordsAreKept
    BY DEF RecordsAreKept
<1> QED
    BY <1>1, OfficeParts, CopyAlwaysRemains, BarcodesAlwaysApart, PTL

\* While no two calls walk at once no summary goes out twice a morning and everyone gets
\* one, no file is imported twice and a draft that nothing has overtaken orders only what
\* is missing (DoneOnce), for any number of shops, calls, files, screens and orders.
THEOREM WhatIsDoneIsDoneOnce == Spec => []DoneOnce
<1>1. (OnceAMorning /\ EveryoneIsReached /\ ImportTwiceIsOnce /\ NeverOrderedTwice) => DoneOnce
    BY DEF DoneOnce
<1> QED
    BY <1>1, OfficeParts, AlwaysOnceAMorning, EveryoneIsAlwaysReached, ImportTwiceIsAlwaysOnce,
       NothingIsOrderedTwice, PTL

\* A change of access is felt at once, and only where it is meant (AccessChangesTell):
\* a new PIN or role signs out, unless the write is of a request that had read it before
\* another changed it.
THEOREM AccessChangesAlwaysTell == Spec => AccessChangesTell
    BY OfficeParts, ChangeAlwaysSignsOut, NumbersAlwaysGrow, AlwaysLooksByConsent,
       ShiftCanAlwaysBeClosed DEF AccessChangesTell
=============================================================================

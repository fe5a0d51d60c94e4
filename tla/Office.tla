------------------------------- MODULE Office -------------------------------
(***************************************************************************)
(* What the office around a shop keeps true while several people work at   *)
(* once: who may sign in and from which register, the consent to support,  *)
(* the owner's cabinet, the copies of the database, the morning summary, a *)
(* tariff that ends, the catalogue and what to order.  Init chooses which  *)
(* of them a behaviour is about: they share no row that the properties     *)
(* speak of.                                                               *)
(***************************************************************************)
EXTENDS Staff, Registers, Consent, Cabinet, Backups, Morning, Licence, Catalogue,
        Replenishment

VARIABLE topic

Topics == {"staff", "registers", "consent", "cabinet", "backups", "morning", "licence",
           "catalogue", "replenishment"}

vars == <<topic, staffVars, registersVars, consentVars, cabinetVars, backupsVars, morningVars,
          licenceVars, catalogueVars, replenishmentVars>>

Init ==
    /\ topic \in Topics
    /\ StaffInit /\ RegistersInit /\ ConsentInit /\ CabinetInit /\ BackupsInit
    /\ MorningInit /\ LicenceInit /\ CatalogueInit /\ ReplenishmentInit
    /\ topic # "staff" => \A p \in FirstOwners : person[p].pin.form = "print"
    /\ topic # "cabinet" => door = "cabinet"
    /\ topic # "morning" => tariffOn = Shops
    /\ topic # "replenishment" => inStock = 0

Next ==
    \/ topic = "staff" /\ StaffNext
       /\ UNCHANGED <<topic, registersVars, consentVars, cabinetVars, backupsVars, morningVars,
                      licenceVars, catalogueVars, replenishmentVars>>
    \/ topic = "registers" /\ RegistersNext
       /\ UNCHANGED <<topic, staffVars, consentVars, cabinetVars, backupsVars, morningVars,
                      licenceVars, catalogueVars, replenishmentVars>>
    \/ topic = "consent" /\ ConsentNext
       /\ UNCHANGED <<topic, staffVars, registersVars, cabinetVars, backupsVars, morningVars,
                      licenceVars, catalogueVars, replenishmentVars>>
    \/ topic = "cabinet" /\ CabinetNext
       /\ UNCHANGED <<topic, staffVars, registersVars, consentVars, backupsVars, morningVars,
                      licenceVars, catalogueVars, replenishmentVars>>
    \/ topic = "backups" /\ BackupsNext
       /\ UNCHANGED <<topic, staffVars, registersVars, consentVars, cabinetVars, morningVars,
                      licenceVars, catalogueVars, replenishmentVars>>
    \/ topic = "morning" /\ MorningNext
       /\ UNCHANGED <<topic, staffVars, registersVars, consentVars, cabinetVars, backupsVars,
                      licenceVars, catalogueVars, replenishmentVars>>
    \/ topic = "licence" /\ LicenceNext
       /\ UNCHANGED <<topic, staffVars, registersVars, consentVars, cabinetVars, backupsVars,
                      morningVars, catalogueVars, replenishmentVars>>
    \/ topic = "catalogue" /\ CatalogueNext
       /\ UNCHANGED <<topic, staffVars, registersVars, consentVars, cabinetVars, backupsVars,
                      morningVars, licenceVars, replenishmentVars>>
    \/ topic = "replenishment" /\ ReplenishmentNext
       /\ UNCHANGED <<topic, staffVars, registersVars, consentVars, cabinetVars, backupsVars,
                      morningVars, licenceVars, catalogueVars>>

Spec == Init /\ [][Next]_vars

-----------------------------------------------------------------------------
\* Every row, session, file and answer stays what the program can hold.
OfficeTypeOK ==
    /\ StaffTypeOK /\ RegistersTypeOK /\ ConsentTypeOK /\ CabinetTypeOK /\ BackupsTypeOK
    /\ MorningTypeOK /\ LicenceTypeOK /\ CatalogueTypeOK /\ ReplenishmentTypeOK

\* One PIN opens the till for one person and a company is never left without
\* an owner; a register that was switched off, an owner's no to support and a new
\* lock on the cabinet hold, however many people answer, claim, sign in and edit
\* at once.
AccessIsKept ==
    /\ PinsOpenOneDoor /\ OwnerRemains
    /\ RevokedStaysOut /\ NoIsFinal /\ FactorWasShown /\ CodesOpenOnce

\* A change of access is felt at once, and only where it is meant: a new PIN or
\* role ends the old sessions unless a card that was read before another change puts
\* the old one back, a new register never takes a number that was given
\* before, support is shown something only while the owner's latest answer is yes,
\* and the end of a tariff keeps nobody from closing the shift.
AccessChangesTell == ChangeSignsOut /\ NumbersGrow /\ LooksByConsent /\ ShiftCanBeClosed

\* What was kept stays kept: a copy that was proven, and a barcode on one product.
RecordsAreKept == CopyRemains /\ BarcodesAreApart

\* What was done is not done again: a summary sent, a file imported, goods ordered
\* that a draft could know of; and the summary that could be sent was.
DoneOnce == OnceAMorning /\ EveryoneIsReached /\ ImportTwiceIsOnce /\ NeverOrderedTwice

=============================================================================

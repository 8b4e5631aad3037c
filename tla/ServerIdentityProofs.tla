------------------------ MODULE ServerIdentityProofs ------------------------
(***************************************************************************)
(* Proofs about ServerIdentity.  The invariant says what each file may be  *)
(* at each step of a start, and rests on the order of the steps: a UUID is *)
(* written only beside a complete pair, which nothing changes any more.    *)
(***************************************************************************)
EXTENDS ServerIdentity, TLAPS

PairFiles ==
    /\ PublicMatchesPrivate
    /\ pc \in {"public", "publicData"} => privateFile = None /\ pair \in Keys
    /\ pc = "private" => privateFile = None /\ pair \in Keys /\ publicFile = pair
    /\ pc = "privateData" => privateFile = Torn /\ pair \in Keys /\ publicFile = pair
    /\ privateFile = Torn => pc = "privateData" \/ cutShort
    /\ pc = "load" => privateFile # None

UuidFile ==
    /\ uuidFile # None => privateFile \in Keys
    /\ uuidFile = Torn => pc = "uuidData" \/ cutShort
    /\ pc = "uuidData" => id \in Uuids /\ uuidFile = Torn

Loaded ==
    /\ pc \in {"uuid", "uuidData", "serving"} => privateFile \in Keys /\ serverKey = privateFile
    /\ pc = "serving" => uuidFile \in Uuids /\ serverUUID = uuidFile

Registrations == \A r \in registered : uuidFile \in Uuids /\ r = <<uuidFile, privateFile>>

IdentityInv ==
    /\ TypeOK /\ PairFiles /\ UuidFile /\ Loaded /\ Registrations
    /\ RefusedOnlyIfCutShort

LEMMA InitIdentity == Init => IdentityInv
BY ContentAssumption
   DEF Init, IdentityInv, TypeOK, Steps, PairFiles, UuidFile, Loaded, Registrations,
       PublicMatchesPrivate, RefusedOnlyIfCutShort

LEMMA NextIdentity == IdentityInv /\ [Next]_vars => IdentityInv'
<1>. SUFFICES ASSUME IdentityInv, [Next]_vars PROVE IdentityInv'
  OBVIOUS
<1>. USE ContentAssumption
     DEF IdentityInv, TypeOK, Steps, PairFiles, UuidFile, Loaded, Registrations,
         PublicMatchesPrivate, RefusedOnlyIfCutShort, files, memory, ghosts,
         After, Order, MustGenerate
<1>1. CASE Start
  BY <1>1 DEF Start
<1>2. CASE KeepKey
  BY <1>2 DEF KeepKey
\* A pair is generated only while there is no server.key, so no UUID either.
<1>3. CASE GenerateKey
  BY <1>3 DEF GenerateKey
<1>4. CASE TruncatePublic
  BY <1>4 DEF TruncatePublic
<1>5. CASE WritePublic
  BY <1>5 DEF WritePublic
<1>6. CASE TruncatePrivate
  BY <1>6 DEF TruncatePrivate
<1>7. CASE WritePrivate
  BY <1>7 DEF WritePrivate
<1>8. CASE Load
  BY <1>8 DEF Load
<1>9. CASE LoadFails
  BY <1>9 DEF LoadFails
<1>10. CASE KeepUuid
  BY <1>10 DEF KeepUuid
<1>11. CASE ParseFails
  BY <1>11 DEF ParseFails
<1>12. CASE TruncateUuid
  BY <1>12 DEF TruncateUuid
<1>13. CASE WriteUuid
  BY <1>13 DEF WriteUuid
<1>14. CASE Dies
  BY <1>14 DEF Dies
<1>15. CASE RegisterShown
  BY <1>15 DEF RegisterShown
<1>16. CASE RegisterFiles
  BY <1>16 DEF RegisterFiles
<1>17. CASE UNCHANGED vars
  BY <1>17 DEF vars
<1>. QED
  BY <1>1, <1>2, <1>3, <1>4, <1>5, <1>6, <1>7, <1>8, <1>9, <1>10, <1>11, <1>12,
     <1>13, <1>14, <1>15, <1>16, <1>17 DEF Next
-----------------------------------------------------------------------------
\* The inductive invariant: what the files may be at each step.
THEOREM IdentityInvariant == Spec => []IdentityInv
<1>. QED
  BY InitIdentity, NextIdentity, PTL DEF Spec

\* An instance that serves has an identity.
THEOREM IdentityTypeCorrect == Spec => []TypeOK
<1>1. IdentityInv => TypeOK
  BY DEF IdentityInv
<1>. QED
  BY <1>1, IdentityInvariant, PTL

\* A complete server.key has its public key beside it.
THEOREM FilesMatch == Spec => []PublicMatchesPrivate
<1>1. IdentityInv => PublicMatchesPrivate
  BY DEF IdentityInv, PairFiles
<1>. QED
  BY <1>1, IdentityInvariant, PTL

\* What is registered elsewhere stays the instance's identity.
THEOREM RegistrationsHold == Spec => []RegistrationHolds
<1>1. IdentityInv => RegistrationHolds
  BY DEF IdentityInv, Loaded, Registrations, RegistrationHolds
<1>. QED
  BY <1>1, IdentityInvariant, PTL

\* Only a start cut short in writing server.key or server.uuid is not made good.
THEOREM RefusalsExplained == Spec => []RefusedOnlyIfCutShort
<1>1. IdentityInv => RefusedOnlyIfCutShort
  BY DEF IdentityInv
<1>. QED
  BY <1>1, IdentityInvariant, PTL
=============================================================================

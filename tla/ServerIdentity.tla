--------------------------- MODULE ServerIdentity ---------------------------
(***************************************************************************)
(* The persistent identity of an instance: a key pair and a UUID in the    *)
(* keys directory, created by the first start and read by every later one  *)
(* (src/internal/serverkey, src/internal/serverid and run in src/main.go), *)
(* and what administrators of other instances register of it.              *)
(*                                                                         *)
(* os.WriteFile first truncates a file, then writes it; the process may    *)
(* die, or fail, at any step and is started again with the files it left.  *)
(***************************************************************************)
EXTENDS Naturals, FiniteSets

CONSTANTS
    Keys,        \* bound: the key pairs that are ever generated
    Uuids,       \* bound: the UUIDs that are ever generated
    None,        \* no such file
    Torn         \* a file that is empty or cut off

ASSUME ContentAssumption == None # Torn /\ {None, Torn} \cap (Keys \union Uuids) = {}

VARIABLES
    publicFile,  \* server.pub, which holds the public key of a pair
    privateFile, \* server.key
    uuidFile,    \* server.uuid
    pc,          \* the step of run, "down" while no process runs
    pair,        \* the key pair EnsureKeyPair has generated
    id,          \* the UUID EnsureServerUUID has generated
    serverKey,   \* run's serverKey
    serverUUID,  \* run's serverUUID
    generated,   \* ghost: the key pairs and UUIDs generated so far
    cutShort,    \* ghost: a start died while writing server.key or server.uuid
    registered   \* the <<UUID, public key>> registered on other instances

files == <<publicFile, privateFile, uuidFile>>
memory == <<pair, id, serverKey, serverUUID>>
ghosts == <<generated, cutShort, registered>>
vars == <<files, pc, memory, ghosts>>
-----------------------------------------------------------------------------
Init ==
    /\ publicFile = None /\ privateFile = None /\ uuidFile = None
    /\ pc = "down"
    /\ pair = None /\ id = None /\ serverKey = None /\ serverUUID = None
    /\ generated = {} /\ cutShort = FALSE /\ registered = {}

\* Mutant: the UUID is made sure of before the key pair.
AfterUuidFirst == [start |-> "uuid", key |-> "serving", uuid |-> "key"]

\* The order in which run makes sure of the two.
After == [start |-> "key", key |-> "uuid", uuid |-> "serving"]

\* run gets to its identity, after the database and the accounts.
Start ==
    /\ pc = "down"
    /\ pc' = After.start
    /\ UNCHANGED <<files, memory, ghosts>>

\* Mutant: the private key is written first.
OrderPrivateFirst == [generated |-> "private", private |-> "public", public |-> "load"]

\* The order in which EnsureKeyPair writes the two files.
Order == [generated |-> "public", public |-> "private", private |-> "load"]

\* Mutant: the public key tells whether there is a pair.
MustGeneratePublic == publicFile = None

\* EnsureKeyPair's os.Stat of server.key.
MustGenerate == privateFile = None

KeepKey ==
    /\ pc = "key" /\ ~ MustGenerate
    /\ pc' = "load"
    /\ UNCHANGED <<files, memory, ghosts>>

GenerateKey ==
    /\ pc = "key" /\ MustGenerate
    /\ \E k \in Keys \ generated : pair' = k /\ generated' = generated \union {k}
    /\ pc' = Order.generated
    /\ UNCHANGED <<files, id, serverKey, serverUUID, cutShort, registered>>

\* os.WriteFile of server.pub, then of server.key.
TruncatePublic ==
    /\ pc = "public"
    /\ publicFile' = Torn
    /\ pc' = "publicData"
    /\ UNCHANGED <<privateFile, uuidFile, memory, ghosts>>

WritePublic ==
    /\ pc = "publicData"
    /\ publicFile' = pair
    /\ pc' = Order.public
    /\ UNCHANGED <<privateFile, uuidFile, memory, ghosts>>

TruncatePrivate ==
    /\ pc = "private"
    /\ privateFile' = Torn
    /\ pc' = "privateData"
    /\ UNCHANGED <<publicFile, uuidFile, memory, ghosts>>

WritePrivate ==
    /\ pc = "privateData"
    /\ privateFile' = pair
    /\ pc' = Order.private
    /\ UNCHANGED <<publicFile, uuidFile, memory, ghosts>>

\* Mutant: a server.key that does not parse is not noticed.
LoadUnparsed ==
    /\ pc = "load"
    /\ serverKey' = privateFile
    /\ pc' = After.key
    /\ UNCHANGED <<files, pair, id, serverUUID, ghosts>>

\* LoadPrivateKey
Load ==
    /\ pc = "load" /\ privateFile \in Keys
    /\ serverKey' = privateFile
    /\ pc' = After.key
    /\ UNCHANGED <<files, pair, id, serverUUID, ghosts>>

LoadFails ==
    /\ pc = "load" /\ privateFile \notin Keys
    /\ pc' = "refused"
    /\ UNCHANGED <<files, memory, ghosts>>

\* EnsureServerUUID
KeepUuid ==
    /\ pc = "uuid" /\ uuidFile \in Uuids
    /\ serverUUID' = uuidFile
    /\ pc' = After.uuid
    /\ UNCHANGED <<files, pair, id, serverKey, ghosts>>

ParseFails ==
    /\ pc = "uuid" /\ uuidFile = Torn
    /\ pc' = "refused"
    /\ UNCHANGED <<files, memory, ghosts>>

TruncateUuid ==
    /\ pc = "uuid" /\ uuidFile = None
    /\ \E u \in Uuids \ generated : id' = u /\ generated' = generated \union {u}
    /\ uuidFile' = Torn
    /\ pc' = "uuidData"
    /\ UNCHANGED <<publicFile, privateFile, pair, serverKey, serverUUID, cutShort, registered>>

WriteUuid ==
    /\ pc = "uuidData"
    /\ uuidFile' = id
    /\ serverUUID' = id
    /\ pc' = After.uuid
    /\ UNCHANGED <<publicFile, privateFile, pair, id, serverKey, ghosts>>
-----------------------------------------------------------------------------
\* The process ends: it is stopped or killed, or run returns an error.
Dies ==
    /\ pc # "down"
    /\ pc' = "down"
    /\ pair' = None /\ id' = None /\ serverKey' = None /\ serverUUID' = None
    /\ cutShort' = (cutShort \/ pc \in {"privateData", "uuidData"})
    /\ UNCHANGED <<files, generated, registered>>

\* Another instance registers what this one shows (handleSyncIdentity) ...
RegisterShown ==
    /\ pc = "serving"
    /\ registered' = registered \union {<<serverUUID, serverKey>>}
    /\ UNCHANGED <<files, pc, memory, generated, cutShort>>

\* ... or what its files say.
RegisterFiles ==
    /\ uuidFile \in Uuids /\ publicFile \in Keys
    /\ registered' = registered \union {<<uuidFile, publicFile>>}
    /\ UNCHANGED <<files, pc, memory, generated, cutShort>>
-----------------------------------------------------------------------------
Next ==
    \/ Start \/ KeepKey \/ GenerateKey
    \/ TruncatePublic \/ WritePublic \/ TruncatePrivate \/ WritePrivate
    \/ Load \/ LoadFails
    \/ KeepUuid \/ ParseFails \/ TruncateUuid \/ WriteUuid
    \/ Dies \/ RegisterShown \/ RegisterFiles

Spec == Init /\ [][Next]_vars
-----------------------------------------------------------------------------
Steps == {"down", "key", "public", "publicData", "private", "privateData", "load",
          "uuid", "uuidData", "serving", "refused"}

(***************************************************************************)
(* Every variable has its type; in particular an instance that serves has  *)
(* an identity, whatever its start found in the keys directory.            *)
(***************************************************************************)
TypeOK ==
    /\ publicFile \in Keys \union {None, Torn}
    /\ privateFile \in Keys \union {None, Torn}
    /\ uuidFile \in Uuids \union {None, Torn}
    /\ pc \in Steps
    /\ pair \in Keys \union {None}
    /\ id \in Uuids \union {None}
    /\ serverKey \in Keys \union {None}
    /\ serverUUID \in Uuids \union {None}
    /\ generated \subseteq Keys \union Uuids
    /\ cutShort \in BOOLEAN
    /\ registered \subseteq Uuids \X Keys
    /\ pc = "serving" => serverKey # None /\ serverUUID # None

(***************************************************************************)
(* However often starts are cut short, a complete server.key has its own   *)
(* public key beside it ("the next startup generates a fresh, matching     *)
(* pair", serverkey.go).                                                   *)
(***************************************************************************)
PublicMatchesPrivate == privateFile \in Keys => publicFile = privateFile

(***************************************************************************)
(* What another instance has registered of this one, from its files or     *)
(* from its Sync page, stays its identity: a running instance signs with   *)
(* the registered key under the registered UUID.  It rests on the order in *)
(* which run makes sure of the two.                                        *)
(***************************************************************************)
RegistrationHolds == pc = "serving" => registered \subseteq {<<serverUUID, serverKey>>}

(***************************************************************************)
(* A start refuses the keys directory only if an earlier one was cut short *)
(* while it wrote server.key or server.uuid; being cut short anywhere else *)
(* is made good.                                                           *)
(***************************************************************************)
RefusedOnlyIfCutShort == pc = "refused" => cutShort
=============================================================================

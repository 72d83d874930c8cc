------------------------------- MODULE MCStores -------------------------------
(* The two stores that outlive the process, the data store's file and the    *)
(* biometric vault, each on its own: part says which one runs.               *)
EXTENDS DataStore, TLC

CONSTANTS Calls, Platforms, MaxKeys, MaxTroubles, MaxCancels, None

VARIABLES
  part,
  platform, op, pc, answer, got, signed, cancelled, vaultFile, staging, disk, key,
  keys, dialogs, item, claimed, scanning, matched, troubles, may, beside

V == INSTANCE BiometricVault WITH file <- vaultFile

ASSUME StoresAssumption == V!VaultAssumption

vaultVars == <<platform, op, pc, answer, got, signed, cancelled, vaultFile, staging, disk, key,
               keys, dialogs, item, claimed, scanning, matched, troubles, may, beside>>
bothVars == <<part, vars, vaultVars>>

BothInit ==
  /\ part \in {"store", "vault"}
  /\ Init /\ (part # "store" => target = CHOOSE t \in Targets : TRUE)
  /\ V!Init /\ (part # "vault" => platform = CHOOSE p \in Platforms : TRUE)

BothNext ==
  \/ part = "store" /\ Next /\ UNCHANGED <<part, vaultVars>>
  \/ part = "vault" /\ V!Next /\ UNCHANGED <<part, vars>>

BothSpec == BothInit /\ [][BothNext]_bothVars

\* The calls of the vault are alike.
CallsAlike == Permutations(Calls)
-----------------------------------------------------------------------------
\* The vault holds what was acknowledged last or what a write since would put
\* there, and is whole.
VaultKeeps == V!VaultKeeps

\* What a read of the vault answers may have been there since it began.
ReadsAreTrue == V!ReadsAreTrue

\* Whoever holds a secret was verified, by a reader that verified for no one else.
VerifiedOnly == V!VerifiedOnly

\* What does not hold of the vault, see BiometricVault.
SecretSurvives == V!SecretSurvives
===============================================================================

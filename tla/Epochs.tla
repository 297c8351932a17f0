------------------------------- MODULE Epochs -------------------------------
(***************************************************************************)
(* EpochManager of epoch.ts: transitionEpoch() derives the id and the key  *)
(* of a new epoch from a group secret and the current epoch, awaits the    *)
(* derivations and then makes the new epoch the current one.  Calls may    *)
(* overlap.  The id is a hash of secret and parent, so an epoch is that    *)
(* pair, and its encryption key a function of it.                          *)
(***************************************************************************)
EXTENDS Integers, FiniteSets

CONSTANTS
  MaxEpochs,      \* bound on the calls; each has a group secret of its own
  noEpoch         \* no parent

ASSUME MaxEpochsAssumption == MaxEpochs \in Nat

VARIABLES
  epochs,           \* _epochs
  currentEpochId,   \* _currentEpochId
  deriving,         \* epochs whose createEpoch() has not settled
  secrets           \* group secrets used so far

epochVars == <<epochs, currentEpochId, deriving, secrets>>

EpochTypeOK ==
  /\ secrets \in 0..MaxEpochs
  /\ Cardinality(epochs \cup deriving) <= secrets /\ epochs \cap deriving = {}

generateEpochId(secret, parent) == [secret |-> secret, parent |-> parent]

TransitionEpochAtOnce ==
  /\ secrets < MaxEpochs
  /\ secrets' = secrets + 1
  /\ deriving' = deriving \cup {generateEpochId(secrets', currentEpochId)}
  /\ currentEpochId' = generateEpochId(secrets', currentEpochId)
  /\ UNCHANGED epochs

TransitionEpoch ==
  /\ secrets < MaxEpochs
  /\ secrets' = secrets + 1
  /\ deriving' = deriving \cup {generateEpochId(secrets', currentEpochId)}
  /\ UNCHANGED <<epochs, currentEpochId>>

(* createEpoch() has derived id, secret and key: addEpoch. *)
AddEpoch ==
  \E epoch \in deriving :
    /\ epochs' = epochs \cup {epoch}
    /\ currentEpochId' = epoch
    /\ deriving' = deriving \ {epoch}
    /\ UNCHANGED secrets

(* A derivation fails and the call rejects. *)
DerivationFails ==
  \E epoch \in deriving :
    /\ deriving' = deriving \ {epoch}
    /\ UNCHANGED <<epochs, currentEpochId, secrets>>

EpochInit == epochs = {} /\ currentEpochId = noEpoch /\ deriving = {} /\ secrets = 0
EpochNext == TransitionEpoch \/ AddEpoch \/ DerivationFails
EpochSpec == EpochInit /\ [][EpochNext]_epochVars

(* getEpoch() finds the current epoch and, from there, every ancestor up to  *)
(* the first: overlapping and failing transitions leave no epoch whose       *)
(* parent, needed to read what was encrypted before, is unknown.             *)
(* It includes the types.                                                    *)
LineageKnown ==
  /\ EpochTypeOK
  /\ currentEpochId \in epochs \cup {noEpoch}
  /\ \A epoch \in epochs : epoch.parent \in epochs \cup {noEpoch}

(* "Creates a child epoch whose parent is the current epoch and sets it as   *)
(* the new current epoch": the epoch that becomes current descends from the  *)
(* one it replaces.  Overlapping calls read the same parent, and the later   *)
(* to settle hides the other.                                                *)
ChildOfCurrent ==
  [][currentEpochId' # currentEpochId => currentEpochId'.parent = currentEpochId]_epochVars
=============================================================================

----------------------------- MODULE UcanChain ------------------------------
(***************************************************************************)
(* Delegation of document capabilities by UCAN tokens: createUCAN and      *)
(* validateUCANChain of ucan.ts, and the capability order of               *)
(* capabilities.ts.                                                        *)
(*                                                                         *)
(* A token embeds the tokens it rests on, so a token is named by its place *)
(* in the order of creation and its proofs are earlier places.  Keys, the  *)
(* resource and the nonce are abstract; a token may be damaged on its way  *)
(* to the validator, which its signature then shows.                       *)
(***************************************************************************)
EXTENDS Integers, Sequences, FiniteSets

CONSTANTS
  Keys, Root,       \* the document creator's key is Root
  Abilities,        \* the abilities tokens are issued for
  maxDepth,         \* bound on the chain, a parameter of validateUCANChain
  MaxTokens,
  MaxFaults         \* bound on the tokens that are out of date or damaged

VARIABLE
  tokens            \* the tokens created, in order

UcanTypeOK ==
  /\ Len(tokens) <= MaxTokens
  /\ \A t \in DOMAIN tokens :
       /\ tokens[t].issuer \in Keys /\ tokens[t].audience \in Keys
       /\ \A k \in DOMAIN tokens[t].proofs : tokens[t].proofs[k] \in 1..(t - 1)

----------------------------------------------------------------------------
(* CAPABILITY_HIERARCHY; /doc/history is outside it. *)
hierarchy == <<"/doc/admin", "/doc/write", "/doc/read">>

indexOf(ability) ==
  IF \E k \in DOMAIN hierarchy : hierarchy[k] = ability
  THEN CHOOSE k \in DOMAIN hierarchy : hierarchy[k] = ability
  ELSE -1

capabilityImpliesByIndex(held, required) == indexOf(held) <= indexOf(required)

capabilityImplies(held, required) ==
  IF indexOf(held) = -1 \/ indexOf(required) = -1
  THEN held = required
  ELSE indexOf(held) <= indexOf(required)

----------------------------------------------------------------------------
(* createUCAN, with any earlier tokens as proofs.  When it is validated the  *)
(* token may be out of date (before notBefore or past expiration) or damaged. *)
ProofLists == {<< >>} \cup {<<i>> : i \in DOMAIN tokens}
                      \cup {<<i, j>> \in (DOMAIN tokens) \X (DOMAIN tokens) : i < j}

Faulty(token) == token.condition # "good"

CreateUCAN ==
  \E issuer, audience \in Keys, ability \in Abilities, proofs \in ProofLists,
     condition \in {"good", "out of date", "damaged"} :
    LET token == [issuer |-> issuer, audience |-> audience, ability |-> ability,
                  proofs |-> proofs, condition |-> condition]
    IN  /\ Len(tokens) < MaxTokens
        /\ Faulty(token) => Cardinality({t \in DOMAIN tokens : Faulty(tokens[t])}) < MaxFaults
        /\ tokens' = Append(tokens, token)

UcanInit == tokens = << >>
UcanNext == CreateUCAN

----------------------------------------------------------------------------
(* What is asked of a token on its own, and of its link to one proof. *)
acceptedAlone(t) == ~Faulty(tokens[t])

proofFits(t, proof) ==
  /\ tokens[proof].audience = tokens[t].issuer
  /\ capabilityImplies(tokens[proof].ability, tokens[t].ability)

(* validateUCANChain: the depth is checked first, then the set of tokens     *)
(* already visited, which all branches share, and the proofs in order, up to *)
(* the first that fails.                                                     *)
RECURSIVE validate(_, _, _)
validate(t, depth, visited) ==
  LET proofs == tokens[t].proofs
      below[k \in Nat] ==
        IF k = 0 THEN [valid |-> TRUE, visited |-> visited \cup {t}]
        ELSE IF ~below[k - 1].valid THEN below[k - 1]
        ELSE IF ~proofFits(t, proofs[k]) THEN [below[k - 1] EXCEPT !.valid = FALSE]
        ELSE validate(proofs[k], depth - 1, below[k - 1].visited)
  IN  IF depth <= 0 \/ t \in visited \/ ~acceptedAlone(t)
      THEN [valid |-> FALSE, visited |-> visited]
      ELSE IF proofs = << >>
           THEN [valid |-> tokens[t].issuer = Root, visited |-> visited \cup {t}]
           ELSE below[Len(proofs)]

validateUCANChain(t) == validate(t, maxDepth, {}).valid

----------------------------------------------------------------------------
(* The tokens that t rests on, itself among them. *)
rests[t \in Nat] ==
  {t} \cup UNION {rests[tokens[t].proofs[k]] : k \in DOMAIN tokens[t].proofs}

Covers == {<<"/doc/admin", "/doc/write">>, <<"/doc/admin", "/doc/read">>,
           <<"/doc/write", "/doc/read">>} \cup {<<a, a>> : a \in Abilities}

(* "Capabilities are properly attenuated (only narrowed, never broadened)":  *)
(* when validateUCANChain accepts a token, every token it rests on, however  *)
(* far up and along whichever proof, is intact and in date, grants at least  *)
(* the ability of the accepted one, and where a chain ends the creator of    *)
(* the document issued it.                                                   *)
(* It includes the types.                                                    *)
AcceptedIsAuthorized ==
  /\ UcanTypeOK
  /\ \A t \in DOMAIN tokens : validateUCANChain(t) =>
       \A u \in rests[t] :
         /\ tokens[u].condition = "good"
         /\ <<tokens[u].ability, tokens[t].ability>> \in Covers
         /\ tokens[u].proofs = << >> => tokens[u].issuer = Root

(* "The chain does not exceed maxDepth or contain circular delegations": a   *)
(* delegation is refused for its shape only if it is circular or too deep,   *)
(* and tokens that embed their proofs cannot be circular.  The code also     *)
(* refuses a token two of whose proofs rest on the same token.               *)
wellFounded[t \in Nat] ==
  /\ acceptedAlone(t)
  /\ tokens[t].proofs = << >> => tokens[t].issuer = Root
  /\ \A k \in DOMAIN tokens[t].proofs :
       proofFits(t, tokens[t].proofs[k]) /\ wellFounded[tokens[t].proofs[k]]

AuthorizedIsAccepted ==
  \A t \in DOMAIN tokens : wellFounded[t] /\ t <= maxDepth => validateUCANChain(t)
=============================================================================

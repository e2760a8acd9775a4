--------------------------- MODULE ClaimStoreProofs ---------------------------
(***************************************************************************)
(* Proofs about the claim store: what no sequence of calls, by any owners  *)
(* and in any order, can do to a claim.                                    *)
(***************************************************************************)
EXTENDS ClaimStore, TLAPS

(* ClaimExecution keeps the table well formed, and touches only a decision  *)
(* that is unclaimed or RELEASED.                                           *)
LEMMA ClaimWriteLemma ==
    ASSUME NEW d \in Decisions, NEW o \in Owners, ClaimsTypeOK
    PROVE  /\ ClaimWrite(d, o) \in [Decisions -> Claims]
           /\ \A e \in Decisions :
                \/ ClaimWrite(d, o)[e] = claims[e]
                \/ /\ e = d /\ claims[e].state \in {"NONE", "RELEASED"}
                   /\ ClaimWrite(d, o)[e].state = "CLAIMED"
    BY DEF ClaimWrite, CanClaim, ClaimsTypeOK, Claims, ClaimStates

(* AdvanceClaim keeps the table well formed, never changes an owner, and    *)
(* moves a claim only from a source of the requested state.                 *)
LEMMA AdvanceWriteLemma ==
    ASSUME NEW d \in Decisions, NEW o, NEW to, ClaimsTypeOK
    PROVE  /\ AdvanceWrite(d, o, to) \in [Decisions -> Claims]
           /\ \A e \in Decisions :
                \/ AdvanceWrite(d, o, to)[e] = claims[e]
                \/ /\ e = d /\ claims[e].state \in ClaimSources(to)
                   /\ claims[e].owner = o
                   /\ AdvanceWrite(d, o, to)[e] = [claims[e] EXCEPT !.state = to]
<1>1. CASE CanAdvance(d, o, to)
  <2>1. to \in ClaimStates /\ claims[d].state \in ClaimStates
    BY <1>1 DEF CanAdvance, ClaimSources, ClaimStates
  <2>2. claims[d] \in [state : ClaimStates, owner : Owners]
    BY <2>1 DEF ClaimsTypeOK, Claims, NoClaim, ClaimStates
  <2>3. [claims[d] EXCEPT !.state = to] \in Claims
    BY <2>1, <2>2 DEF Claims
  <2>4. AdvanceWrite(d, o, to) = [claims EXCEPT ![d].state = to]
    BY <1>1 DEF AdvanceWrite
  <2> QED BY <1>1, <2>3, <2>4 DEF CanAdvance, ClaimsTypeOK
<1>2. CASE ~CanAdvance(d, o, to)
  BY <1>2 DEF AdvanceWrite, ClaimsTypeOK
<1> QED BY <1>1, <1>2

(* One call of the store, on one claim: what can change and from where. *)
LEMMA StoreStep ==
    ASSUME ClaimsTypeOK, StoreNext
    PROVE  /\ ClaimsTypeOK'
           /\ \A e \in Decisions :
                \/ claims'[e] = claims[e]
                \/ claims[e].state \in {"NONE", "RELEASED"}
                \/ \E to \in ClaimStates :
                      /\ claims[e].state \in ClaimSources(to)
                      /\ claims'[e] = [claims[e] EXCEPT !.state = to]
<1>1. PICK d \in Decisions, o \in Owners :
        ClaimExecution(d, o) \/ \E to \in ClaimStates : AdvanceClaim(d, o, to)
  BY DEF StoreNext
<1>2. CASE ClaimExecution(d, o)
  <2>1. claims' = ClaimWrite(d, o)
    BY <1>2 DEF ClaimExecution
  <2>2. ClaimsTypeOK'
    BY <2>1, ClaimWriteLemma DEF ClaimsTypeOK
  <2>3. \A e \in Decisions : claims'[e] = claims[e] \/ claims[e].state \in {"NONE", "RELEASED"}
    BY <2>1 DEF ClaimWrite, CanClaim, ClaimsTypeOK
  <2> QED BY <2>2, <2>3
<1>3. ASSUME NEW to \in ClaimStates, AdvanceClaim(d, o, to)
      PROVE  /\ ClaimsTypeOK'
             /\ \A e \in Decisions :
                  \/ claims'[e] = claims[e]
                  \/ /\ claims[e].state \in ClaimSources(to)
                     /\ claims'[e] = [claims[e] EXCEPT !.state = to]
  BY <1>3, AdvanceWriteLemma DEF AdvanceClaim, ClaimsTypeOK
<1> QED BY <1>1, <1>2, <1>3

(* The table stays well formed: every claim has one of the six states and a *)
(* complete owner.                                                          *)
THEOREM StoreTypeCorrect == StoreSpec => []ClaimsTypeOK
<1>1. StoreInit => ClaimsTypeOK
  BY DEF StoreInit, ClaimsTypeOK, Claims
<1>2. ClaimsTypeOK /\ [StoreNext]_claims => ClaimsTypeOK'
  BY StoreStep DEF ClaimsTypeOK
<1> QED BY <1>1, <1>2, PTL DEF StoreSpec

(* From EXECUTING on a decision is used for good, whatever is called.       *)
THEOREM StoreFencesForGood == StoreSpec => FencedForGood
<1>1. ASSUME ClaimsTypeOK, [StoreNext]_claims
      PROVE  [\A d \in Decisions :
                 claims[d].state \in FencedStates =>
                    claims'[d].state \in FencedStates /\ claims'[d].owner = claims[d].owner]_claims
  <2> SUFFICES ASSUME StoreNext, NEW d \in Decisions, claims[d].state \in FencedStates
               PROVE  claims'[d].state \in FencedStates /\ claims'[d].owner = claims[d].owner
    BY <1>1
  <2>1. CASE claims'[d] = claims[d]
    BY <2>1
  <2>2. CASE claims[d].state \in {"NONE", "RELEASED"}
    BY <2>2 DEF FencedStates
  <2>3. ASSUME NEW to \in ClaimStates, claims[d].state \in ClaimSources(to),
               claims'[d] = [claims[d] EXCEPT !.state = to]
        PROVE  claims'[d].state \in FencedStates /\ claims'[d].owner = claims[d].owner
    <3>1. claims[d] \in [state : ClaimStates, owner : Owners]
      BY <1>1 DEF ClaimsTypeOK, Claims, NoClaim, FencedStates
    <3>2. to \in FencedStates
      BY <2>3 DEF ClaimSources, FencedStates, ClaimStates
    <3> QED BY <2>3, <3>1, <3>2
  <2> QED BY <1>1, <2>1, <2>2, <2>3, StoreStep
<1> QED BY <1>1, StoreTypeCorrect, PTL DEF StoreSpec, FencedForGood

(* COMPLETED and FAILED are final: no late or repeated call changes them.   *)
THEOREM StoreConfirmsForGood == StoreSpec => ConfirmedIsFinal
<1>1. ASSUME ClaimsTypeOK, [StoreNext]_claims
      PROVE  [\A d \in Decisions :
                 claims[d].state \in {"COMPLETED", "FAILED"} => claims'[d] = claims[d]]_claims
  <2> SUFFICES ASSUME StoreNext, NEW d \in Decisions, claims[d].state \in {"COMPLETED", "FAILED"}
               PROVE  claims'[d] = claims[d]
    BY <1>1
  <2>1. ASSUME NEW to \in ClaimStates, claims[d].state \in ClaimSources(to),
               claims'[d] = [claims[d] EXCEPT !.state = to]
        PROVE  claims'[d] = claims[d]
    <3>1. claims[d] \in [state : ClaimStates, owner : Owners]
      BY <1>1 DEF ClaimsTypeOK, Claims, NoClaim
    <3>2. to = claims[d].state
      BY <2>1 DEF ClaimSources, ClaimStates
    <3> QED BY <2>1, <3>1, <3>2
  <2> QED BY <1>1, <2>1, StoreStep
<1> QED BY <1>1, StoreTypeCorrect, PTL DEF StoreSpec, ConfirmedIsFinal

(* A claim changes hands only when it is free or RELEASED.                  *)
THEOREM StoreNeverSteals == StoreSpec => NeverStolen
<1>1. ASSUME ClaimsTypeOK, [StoreNext]_claims
      PROVE  [\A d \in Decisions :
                 claims'[d].owner # claims[d].owner => claims[d].state \in {"NONE", "RELEASED"}]_claims
  <2> SUFFICES ASSUME StoreNext, NEW d \in Decisions, claims'[d].owner # claims[d].owner
               PROVE  claims[d].state \in {"NONE", "RELEASED"}
    BY <1>1
  <2>1. ASSUME NEW to \in ClaimStates, claims'[d] = [claims[d] EXCEPT !.state = to]
        PROVE  claims'[d].owner = claims[d].owner
    BY <1>1, <2>1 DEF ClaimsTypeOK, Claims, NoClaim
  <2> QED BY <1>1, <2>1, StoreStep
<1> QED BY <1>1, StoreTypeCorrect, PTL DEF StoreSpec, NeverStolen
=============================================================================

----------------------------- MODULE MCTrustGate -----------------------------
(***************************************************************************)
(* TrustGate on plans of up to two claims and two evidence blocks.  Claim   *)
(* and evidence ids are compared for equality only, so both sets may be     *)
(* permuted.                                                                *)
(***************************************************************************)
EXTENDS TrustGate, TLC

IdSymmetry == Permutations(ClaimIds) \cup Permutations(EvidenceIds)
=============================================================================

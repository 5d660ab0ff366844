----------------------------- MODULE MCConfirmSend -----------------------------
(* One draft, two attempt keys: c1 and c2 share a key (a double click or a  *)
(* retry), c3 confirms the same draft from another surface.                 *)
EXTENDS ConfirmSend, TLC
CONSTANTS d1, c1, c2, c3, k1, k2, short, big

MCDraftOf == [c \in Callers |-> d1]
MCKeyOf == [c \in Callers |-> IF c = c3 THEN k2 ELSE k1]
\* c1 and c2 confirm the same draft under the same key.
MCSymmetry == Permutations({c1, c2})
================================================================================

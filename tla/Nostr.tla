------------------------------- MODULE Nostr -------------------------------
(***************************************************************************)
(* The whole of Nostr: the chat sessions, the public side of the accounts  *)
(* with their screens, and the account file, side by side.  They share the *)
(* scenario (plan) and nothing else: every screen connects a client of its *)
(* own and every session keeps its own state.                              *)
(***************************************************************************)
EXTENDS NostrSocial

vars == <<plan, chatVars, socialVars, cuentaVars>>
Init == plan \in Planes /\ InitChat /\ InitSocial /\ InitCuenta
Next ==
  \/ NextChat /\ UNCHANGED <<socialVars, cuentaVars>>
  \/ NextSocial /\ UNCHANGED <<plan, chatVars, cuentaVars>>
  \/ NextCuenta /\ UNCHANGED <<plan, chatVars, socialVars>>
Spec == Init /\ [][Next]_vars /\ EquidadChat
=============================================================================

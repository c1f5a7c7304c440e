----------------------------- MODULE MCSyncNode -----------------------------
(***************************************************************************)
(* Instances of SyncNode for TLC: values of the constants.                 *)
(***************************************************************************)
EXTENDS SyncNode

CONSTANTS k1, k2, c1, c2, n1, n2, t1, t2

\* Each mode, with k1 and k2 on the two sides of the lists.
AllConfigs ==
  {[mode |-> "Private", whitelist |-> {k1}, blacklist |-> {}],
   [mode |-> "Confirm", whitelist |-> {k1}, blacklist |-> {}],
   [mode |-> "Confirm", whitelist |-> {}, blacklist |-> {k1}],
   [mode |-> "PublicAgent", whitelist |-> {}, blacklist |-> {k1}]}

PublicConfig == {[mode |-> "PublicAgent", whitelist |-> {}, blacklist |-> {}]}

\* A message of one topic and one of both.
TwoMessages == {{t1}, {t1, t2}}
NoMessages == {}

\* The thresholds 60, 120 and 180 lie on the grid of whole minutes.
Minutes == {60}
NoSteps == {}
\* One step after which a peer that was never confirmed is forgotten.
FourMinutes == {240}
=============================================================================

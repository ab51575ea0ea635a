------------------------ MODULE ConsumerFinalizers ------------------------
(***************************************************************************)
(* The consumer-finalizer helpers of lib-common (package object), which    *)
(* are not part of this repository: they are modelled from how the Cinder  *)
(* controller calls them and from what its rotation tests observe.         *)
(*                                                                         *)
(* A consumer finalizer is a string on a credential Secret.  One           *)
(* finalizer is therefore a set `held': the names of the Secrets that      *)
(* carry it.  While a Secret carries it, the operator that issued the      *)
(* credential must not revoke it.                                          *)
(***************************************************************************)

CONSTANT NoSecret        \* the empty Secret name, ""

\* ManageSecretConsumerFinalizer: put the finalizer on one Secret.
Manage(held, name) == held \cup {name}

\* RemoveSecretConsumerFinalizer: take it off one Secret (a no-op for a
\* Secret that does not exist or does not carry it).
Remove(held, name) == held \ {name}

\* PruneSecretConsumerFinalizers: take it off every Secret not to be kept.
Prune(held, keep) == held \cap keep

\* FinalizeSecretRotation has something to release only once the workload
\* is ready on the new Secret and a different one is still tracked.
Releases(old, current, ready) == ready /\ old \notin {NoSecret, current}

\* FinalizeSecretRotation: its effect on the finalizer ...
Finalize(held, old, current, ready) ==
  IF Releases(old, current, ready) THEN Remove(held, old) ELSE held

\* ... and the name it returns, which the caller records as tracked.
Tracked(old, current, ready) ==
  IF ready \/ old = NoSecret THEN current ELSE old

=============================================================================

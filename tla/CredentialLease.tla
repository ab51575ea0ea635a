-------------------------- MODULE CredentialLease ---------------------------
(***************************************************************************)
(* What the Cinder operator promises about RabbitMQ credentials, without   *)
(* saying how: it leases Secrets, by putting its consumer finalizer on     *)
(* them, before it lets its services use them; it never gives up a lease   *)
(* on a Secret that is in the config of its services; and it ends only     *)
(* with no lease left.  const.go: the finalizer is on "transport URL       *)
(* secrets that cinder is actively consuming".                             *)
(*                                                                         *)
(* Reconciles, queues, child CRs, Pods, failures and crashes are not       *)
(* visible here: CinderOperator implements this specification.             *)
(***************************************************************************)
CONSTANT Secret

VARIABLES
  phase,  \* of the Cinder CR
  held,   \* the Secrets under lease
  used    \* the Secrets in the config of the services

lease == <<phase, held, used>>

Init == phase = "new" /\ held = {} /\ used = {}

Alive == phase \in {"live", "deleting"}

\* The CR gets the operator's own finalizer: from here on it can lease.
Adopt ==
  /\ phase = "new"
  /\ phase' = "live"
  /\ UNCHANGED <<held, used>>

Acquire ==
  /\ Alive
  /\ \E x \in Secret : held' = held \cup {x}
  /\ UNCHANGED <<phase, used>>

\* The services are given other Secrets, all of them under lease.
Use ==
  /\ Alive
  /\ used' \in SUBSET held
  /\ UNCHANGED <<phase, held>>

\* Leases are given up; those in use only when the CR is being deleted.
Release ==
  /\ Alive
  /\ held' \in SUBSET held
  /\ phase = "live" => used \subseteq held'
  /\ UNCHANGED <<phase, used>>

Terminate ==
  /\ phase = "live"
  /\ phase' = "deleting"
  /\ UNCHANGED <<held, used>>

\* The CR goes: before it was adopted, or with every lease given up.
End ==
  /\ phase \in {"new", "deleting"}
  /\ held = {}
  /\ phase' = "gone"
  /\ UNCHANGED <<held, used>>

Next == Adopt \/ Acquire \/ Use \/ Release \/ Terminate \/ End

Spec == Init /\ [][Next]_lease

=============================================================================

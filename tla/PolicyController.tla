-------------------------- MODULE PolicyController --------------------------
(***************************************************************************)
(* KubeCopilotPolicy objects: users write the spec, the policy controller  *)
(* (kubecopilotpolicy_controller.go) writes status.active, and the send    *)
(* controller lists the policies from the operator's informer cache.       *)
(*                                                                         *)
(* A reconcile reads the cached object and writes its status back with the *)
(* cached resourceVersion: it takes effect only if the cache is current,   *)
(* otherwise the API server reports a conflict and the key is retried.     *)
(***************************************************************************)
EXTENDS Cluster, PolicyEvaluator

CONSTANTS
  Policies,       \* names of KubeCopilotPolicy objects
  PolicySpecs,    \* specs users write
  MaxEdits        \* bound: changes made by users per behaviour

ASSUME PolicyAssumption == PolicySpecs \subseteq PolicySpec /\ MaxEdits \in Nat

VARIABLES
  policies,       \* the API server's objects: a set of specs and statuses by name
  policyCache,    \* the operator's cached copies
  policyQueue,    \* the policy controller's work queue
  edits           \* changes users have made so far

policyVars == <<policies, policyCache, policyQueue>>

NoPolicy == [exists |-> FALSE]
PolicyObject == [exists : {TRUE}, spec : PolicySpec, active : BOOLEAN]

PolicyTypeOK ==
  /\ policies \in [Policies -> PolicyObject \cup {NoPolicy}]
  /\ policyCache \in [Policies -> PolicyObject \cup {NoPolicy}]
  /\ policyQueue \subseteq Policies
  /\ edits \in 0..MaxEdits

PolicyInit ==
  /\ policies = [p \in Policies |-> NoPolicy]
  /\ policyCache = policies
  /\ policyQueue = {}
  /\ edits = 0

Edit == edits < MaxEdits /\ edits' = edits + 1

(* A user creates the policy or replaces its spec; the status subresource  *)
(* keeps what the controller last wrote, and starts out inactive.          *)
ApplyPolicy(p, spec) ==
  /\ Edit
  /\ policies' = [policies EXCEPT ![p] =
       [exists |-> TRUE, spec |-> spec, active |-> policies[p].exists /\ policies[p].active]]
  /\ UNCHANGED <<policyCache, policyQueue>>

DeletePolicy(p) ==
  /\ policies[p].exists
  /\ Edit
  /\ policies' = [policies EXCEPT ![p] = NoPolicy]
  /\ UNCHANGED <<policyCache, policyQueue>>

(* The watch brings the cache up to date and wakes the controller. *)
DeliverPolicy(p) ==
  /\ policyCache[p] # policies[p]
  /\ policyCache' = [policyCache EXCEPT ![p] = policies[p]]
  /\ policyQueue' = policyQueue \cup {p}
  /\ UNCHANGED <<policies, edits>>

(* KubeCopilotPolicyReconciler.Reconcile *)
ReconcilePolicy(p) ==
  /\ p \in policyQueue
  /\ policyCache[p] = policies[p]
  /\ policyQueue' = policyQueue \ {p}
  /\ policies' = IF policies[p].exists
                   THEN [policies EXCEPT ![p] =
                          [exists |-> TRUE, spec |-> policies[p].spec,
                           active |-> ValidPolicy(policies[p].spec)]]
                   ELSE policies
  /\ UNCHANGED <<policyCache, edits>>

(* The decision a send gets from what the cache holds now. *)
CachedPolicies == {policyCache[p] : p \in {x \in Policies : policyCache[x].exists}}
=============================================================================

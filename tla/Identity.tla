------------------------------ MODULE Identity ------------------------------
(***************************************************************************)
(* Who a connection speaks for.  The kernel's record of the peer, the      *)
(* account directory's answer about it, the admission rule, the principal  *)
(* that is built, and the identity a connection carries from accept to     *)
(* close with the instants at which it must be asked for again.            *)
(*                                                                         *)
(* A user id is one of four roles, a group id a member of Groups, the      *)
(* directory's answer None (no account) or the account's group ids.        *)
(* Names, kinds and unnamed groups follow from those and are left out.     *)
(***************************************************************************)
EXTENDS Integers

CONSTANTS
    Mode,           \* "per_user" or "system"
    Groups,         \* the group ids
    AdmissionGroup, \* socket_gid: the group the socket file carries, or None
    Answers,        \* what the directory may say of a user id: None, or its groups
    Lifetime,       \* group_lifetime_seconds
    None            \* Python's None

ASSUME IdentityAssumption ==
    /\ Mode \in {"per_user", "system"}
    /\ AdmissionGroup \in Groups \cup {None}
    /\ Answers \subseteq (SUBSET Groups) \cup {None}
    /\ Lifetime \in Nat \ {0}

Uids == {"root", "daemon", "user", "overflow"}

Peers == [uid : Uids, gid : Groups]

Principals == [uid : Uids, gid : Groups, named : BOOLEAN, groups : SUBSET Groups]

Refusals == {"peer_credential_unavailable", "peer_uid_unmapped", "peer_not_admitted"}

\* What is absent is none of what could be there.
ASSUME NoneAssumption ==
    /\ None \notin Nat
    /\ None \notin Peers \cup Principals \cup Refusals
    /\ \A groups \in SUBSET Groups : None # groups

-----------------------------------------------------------------------------
(* domain/admission.py *)

\* The overflow id is no identity; it is refused before the directory is asked.
is_unmapped(peer) == peer.uid = "overflow"

\* Admission that the credential alone settles.
AdmittedByCredential(peer) ==
    IF Mode = "per_user"
    THEN peer.uid = "daemon"
    ELSE \/ peer.uid \in {"root", "daemon"}
         \/ AdmissionGroup # None /\ peer.gid = AdmissionGroup

\* Whether this daemon serves the peer, given the directory's answer.
admit(peer, answer) ==
    \/ AdmittedByCredential(peer)
    \/ /\ Mode = "system"
       /\ AdmissionGroup # None
       /\ answer # None
       /\ AdmissionGroup \in answer

(* domain/principal.py *)

\* A user id with no account keeps its primary group.
build_principal(peer, answer) ==
    [uid |-> peer.uid, gid |-> peer.gid, named |-> answer # None,
     groups |-> IF answer = None THEN {peer.gid} ELSE answer]

\* Every member but the instant of establishment decides.
differs_beyond_establishment(before, after) == before # after

-----------------------------------------------------------------------------
(* domain/connection.py: the identity, and the operations on it. *)

ConnectionIdentity(peer) ==
    [peer |-> peer, status |-> "unknown", principal |-> None, refusal |-> None,
     due |-> None, begun |-> 0, unknownSince |-> None, touched |-> {}]

bind(id, principal, at) ==
    [id EXCEPT !.principal = principal, !.status = "established", !.refusal = None,
               !.due = at + Lifetime, !.unknownSince = None]

\* The principal stays as it was; only the status says it cannot be relied on.
mark_unknown(id, at) ==
    [id EXCEPT !.status = "unknown", !.due = at + Lifetime, !.unknownSince = id.begun]

refuse(id, code) ==
    [id EXCEPT !.status = "refused", !.refusal = code, !.principal = None]

begin_request(id) == [id EXCEPT !.begun = @ + 1]

\* Mutant: the instant a lifetime ends still belongs to it.
IsDueLate(id, now) == id.due # None /\ now > id.due

is_due(id, now) == id.due # None /\ now >= id.due

needs_lookup(id, now) ==
    \/ is_due(id, now)
    \/ /\ id.status = "unknown"
       /\ id.unknownSince # None
       /\ id.begun > id.unknownSince

=============================================================================

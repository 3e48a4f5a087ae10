----------------------------- MODULE Membership -----------------------------
(***************************************************************************)
(* The permission cache (auth/membership.rs, InMemoryMembershipStore) and  *)
(* the events of the Groups contract that fill it (services/               *)
(* event_parser.rs).  Every operation holds the store's only lock          *)
(* throughout, so it is one step.                                          *)
(***************************************************************************)
EXTENDS Naturals

CONSTANTS
    Groups,
    Addresses,
    MessagingPermissions,   \* the four of MessagingPermission, or some of them
    OtherPermissions,       \* permissions of the contract the relayer ignores
    None                    \* no entry in the cache; no cursor yet

Accounts == Groups \X Addresses

ContractPermissions == MessagingPermissions \cup OtherPermissions

ASSUME MembershipAssumption ==
    /\ MessagingPermissions \cap OtherPermissions = {}
    /\ \A perms \in SUBSET ContractPermissions : None # perms
    /\ None \notin Nat

VARIABLE members    \* account -> its cached permissions, or None: not a member

MembershipTypeOK ==
    /\ DOMAIN members = Accounts
    /\ \A a \in Accounts : members[a] = None \/ members[a] \subseteq MessagingPermissions

MembershipInit == members = [a \in Accounts |-> None]

\* What auth_middleware asks before it lets a request through.
has_permission(a, p) == members[a] # None /\ p \in members[a]

\* Fault: a member that joins again keeps the permissions it had.
add_member_KeepsOld(a) ==
    members' = [members EXCEPT ![a] = IF @ = None THEN {} ELSE @]

\* Fault: new members get every permission by default.
add_member_WithDefaults(a) == members' = [members EXCEPT ![a] = MessagingPermissions]

add_member(a) == members' = [members EXCEPT ![a] = {}]

remove_member(a) == members' = [members EXCEPT ![a] = None]

\* Granting to, or revoking from, an unknown member is an error and is logged.
grant_permissions(a, perms) ==
    members' = IF members[a] = None THEN members
               ELSE [members EXCEPT ![a] = @ \cup perms]

\* Fault: only what is the member's whole entry is revoked.
revoke_permissions_AllOrNothing(a, perms) ==
    members' = IF members[a] # perms THEN members ELSE [members EXCEPT ![a] = {}]

revoke_permissions(a, perms) ==
    members' = IF members[a] = None THEN members
               ELSE [members EXCEPT ![a] = @ \ perms]

------------------------------------------------------------------------------
\* An event of the contract.  `permissions` is {} in the member events.
GroupsEvent ==
    [kind : {"MemberAdded", "MemberRemoved", "PermissionsGranted", "PermissionsRevoked"},
     account : Accounts, permissions : SUBSET ContractPermissions]

\* Fault: the contract's other permissions are not filtered out.
Parsed_All(permissions) == permissions

\* The type names that parse_permissions_granted and its twin let through.
Parsed(permissions) == permissions \cap MessagingPermissions

apply_event(e) ==
    CASE e.kind = "MemberAdded" -> add_member(e.account)
      [] e.kind = "MemberRemoved" -> remove_member(e.account)
      [] e.kind = "PermissionsGranted" ->
            grant_permissions(e.account, Parsed(e.permissions))
      [] e.kind = "PermissionsRevoked" ->
            revoke_permissions(e.account, Parsed(e.permissions))
=============================================================================

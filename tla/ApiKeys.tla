------------------------------ MODULE ApiKeys -------------------------------
(***************************************************************************)
(* API keys and monitor credentials of an organization: authentication and *)
(* scopes (security.py, services/api_keys.py), and the administration that *)
(* creates and revokes them (api/admin.py, services/monitor_credentials.py)*)
(*                                                                         *)
(* authenticate reads the row of the key, decides, and then writes         *)
(* last_used_at: the row stays locked until the request ends.  A request   *)
(* that revokes a key needs the row of that key as well.  Scopes are       *)
(* represented by one for each group the rules tell apart.                 *)
(***************************************************************************)
EXTENDS Integers, FiniteSets

CONSTANTS
  KeyIds,       \* rows of api_keys
  Monitors,     \* rows of monitor_credentials
  AdminCalls,   \* requests under way
  Roles,        \* roles that are asked for
  KeyNone

\* PERMISSIONS and ROLE_SCOPES
Permissions == {"read", "write", "ingest", "execute", "approve_learning", "manage_keys", "sensor"}
RoleScopes ==
  [owner |-> Permissions, admin |-> Permissions \ {"approve_learning"}, analyst |-> {"read", "write"},
   viewer |-> {"read"}, service |-> {"ingest", "execute"}, agent_sensor |-> {"sensor"},
   judge |-> {"judge", "read"}, operator |-> {"platform"}]
TenantGrantableRoles == {"viewer", "analyst", "admin", "owner", "service"}

\* assert_grantable
Grantable(scopes, role) ==
  /\ role \in TenantGrantableRoles /\ RoleScopes[role] \cap {"platform", "judge"} = {}
  /\ RoleScopes[role] \subseteq scopes

\* The rows of api_keys, and what a request holds of the key it came with.
KeyRows == [role : Roles, status : {"active", "revoked"}, expired : BOOLEAN]
KeyCallRows ==
  [key : KeyIds \cup {KeyNone}, stage : {"read", "authenticated", "revoking"}, target : KeyIds \cup {KeyNone},
   row : [role : Roles \cup {"owner"}, status : {"active"}]]

ASSUME KeyAssumption == KeyNone \notin KeyRows

VARIABLES
  apiKeys,      \* api_keys: role, status and whether it has expired
  monitors,     \* monitor_credentials: status
  bootstrap,    \* the bootstrap window: closed, open or over
  rowOf,        \* per key: the request that holds its row
  calls         \* per request: where it is

keyVars == <<apiKeys, monitors, bootstrap, rowOf, calls>>

KeyInit ==
  /\ apiKeys = [k \in KeyIds |-> KeyNone] /\ monitors = [m \in Monitors |-> "none"]
  /\ bootstrap = "closed" /\ rowOf = [k \in KeyIds |-> KeyNone]
  /\ calls = [c \in AdminCalls |-> KeyNone]

Stored == {k \in KeyIds : apiKeys[k] # KeyNone}
Holds(c, k) == rowOf[k] = c

\* The transaction of a call ends.
Finish(c) ==
  /\ calls' = [calls EXCEPT ![c] = KeyNone]
  /\ rowOf' = [k \in KeyIds |-> IF Holds(c, k) THEN KeyNone ELSE rowOf[k]]

\* bootstrap_active
WindowMoves ==
  /\ bootstrap' = IF bootstrap = "closed" THEN "open" ELSE "over"
  /\ bootstrap # "over" /\ UNCHANGED <<apiKeys, monitors, rowOf, calls>>

KeyExpires(k) ==
  /\ k \in Stored /\ ~apiKeys[k].expired
  /\ apiKeys' = [apiKeys EXCEPT ![k].expired = TRUE] /\ UNCHANGED <<monitors, bootstrap, rowOf, calls>>

\* _authenticate with the bootstrap key: the owner's scopes and no row.
AuthenticateBootstrap(c) ==
  /\ calls[c] = KeyNone /\ bootstrap = "open"
  /\ calls' = [calls EXCEPT ![c] = [key |-> KeyNone, stage |-> "authenticated", target |-> KeyNone,
                                    row |-> [role |-> "owner", status |-> "active"]]]
  /\ UNCHANGED <<apiKeys, monitors, bootstrap, rowOf>>

\* authenticate reads the row and decides on it ...
ReadKey(c, k) ==
  /\ calls[c] = KeyNone /\ k \in Stored /\ apiKeys[k].status = "active" /\ ~apiKeys[k].expired
  /\ calls' = [calls EXCEPT ![c] =
       [key |-> k, stage |-> "read", target |-> KeyNone,
        row |-> [role |-> apiKeys[k].role, status |-> apiKeys[k].status]]]
  /\ UNCHANGED <<apiKeys, monitors, bootstrap, rowOf>>

\* Mutant: the update of last_used_at writes the columns that were read back.
TouchKeyMutant(c) ==
  LET x == calls[c] IN
  /\ x # KeyNone /\ x.stage = "read" /\ rowOf[x.key] = KeyNone
  /\ rowOf' = [rowOf EXCEPT ![x.key] = c] /\ calls' = [calls EXCEPT ![c].stage = "authenticated"]
  /\ apiKeys' = [apiKeys EXCEPT ![x.key].status = x.row.status]
  /\ UNCHANGED <<monitors, bootstrap>>

\* ... and writes last_used_at, once the row is free; it writes no other column.
TouchKey(c) ==
  LET x == calls[c] IN
  /\ x # KeyNone /\ x.stage = "read" /\ rowOf[x.key] = KeyNone
  /\ rowOf' = [rowOf EXCEPT ![x.key] = c] /\ calls' = [calls EXCEPT ![c].stage = "authenticated"]
  /\ UNCHANGED <<apiKeys, monitors, bootstrap>>

\* A missing scope, a header of another organization, a role that cannot be granted or a
\* failure ends the call without effect.
KeyCallEnds(c) ==
  /\ calls[c] # KeyNone /\ Finish(c) /\ UNCHANGED <<apiKeys, monitors, bootstrap>>

Ready(c, scope) ==
  calls[c] # KeyNone /\ calls[c].stage = "authenticated" /\ scope \in RoleScopes[calls[c].row.role]

\* create_api_key
CreateApiKey(c, k, role) ==
  /\ Ready(c, "manage_keys") /\ k \notin Stored /\ Grantable(RoleScopes[calls[c].row.role], role)
  /\ apiKeys' = [apiKeys EXCEPT ![k] = [role |-> role, status |-> "active", expired |-> FALSE]]
  /\ Finish(c) /\ UNCHANGED <<monitors, bootstrap>>

\* revoke_api_key asks for the row of the key ...
AskToRevoke(c, k) ==
  /\ Ready(c, "manage_keys") /\ k \in Stored
  /\ calls' = [calls EXCEPT ![c].stage = "revoking", ![c].target = k]
  /\ UNCHANGED <<apiKeys, monitors, bootstrap, rowOf>>

\* ... and, when it has it, revokes the key and commits.
RevokeApiKey(c) ==
  LET k == calls[c].target IN
  /\ calls[c] # KeyNone /\ calls[c].stage = "revoking" /\ rowOf[k] \in {KeyNone, c}
  /\ apiKeys' = [apiKeys EXCEPT ![k].status = "revoked"]
  /\ Finish(c) /\ UNCHANGED <<monitors, bootstrap>>

\* Two calls that wait for each other's key: the database ends one of them.
Deadlocked(c) ==
  /\ calls[c] # KeyNone /\ calls[c].stage = "revoking"
  /\ \E d \in AdminCalls \ {c} :
       /\ calls[d] # KeyNone /\ calls[d].stage = "revoking"
       /\ Holds(d, calls[c].target) /\ Holds(c, calls[d].target)
  /\ Finish(c) /\ UNCHANGED <<apiKeys, monitors, bootstrap>>

\* create_monitor_credential, revoke_monitor_credential
CreateMonitor(c, m) ==
  /\ Ready(c, "manage_keys") /\ monitors[m] = "none"
  /\ monitors' = [monitors EXCEPT ![m] = "active"] /\ Finish(c) /\ UNCHANGED <<apiKeys, bootstrap>>
RevokeMonitor(c, m) ==
  /\ Ready(c, "manage_keys") /\ monitors[m] # "none"
  /\ monitors' = [monitors EXCEPT ![m] = "revoked"] /\ Finish(c) /\ UNCHANGED <<apiKeys, bootstrap>>

\* A key provisioned outside administration: an enrolled sensor, a judge or an operator.
ProvisionKey(k, role) ==
  /\ k \notin Stored /\ role \notin TenantGrantableRoles
  /\ apiKeys' = [apiKeys EXCEPT ![k] = [role |-> role, status |-> "active", expired |-> FALSE]]
  /\ UNCHANGED <<monitors, bootstrap, rowOf, calls>>

KeyNext ==
  \/ WindowMoves
  \/ \E k \in KeyIds : KeyExpires(k) \/ \E role \in Roles : ProvisionKey(k, role)
  \/ \E c \in AdminCalls :
       \/ AuthenticateBootstrap(c) \/ TouchKey(c) \/ KeyCallEnds(c) \/ RevokeApiKey(c) \/ Deadlocked(c)
       \/ \E k \in KeyIds :
            \/ ReadKey(c, k) \/ AskToRevoke(c, k)
            \/ \E role \in Roles : CreateApiKey(c, k, role)
       \/ \E m \in Monitors : CreateMonitor(c, m) \/ RevokeMonitor(c, m)

KeySpec == KeyInit /\ [][KeyNext]_keyVars

-----------------------------------------------------------------------------
KeyTypeOK ==
  /\ apiKeys \in [KeyIds -> KeyRows \cup {KeyNone}]
  /\ rowOf \in [KeyIds -> AdminCalls \cup {KeyNone}]
  /\ calls \in [AdminCalls -> KeyCallRows \cup {KeyNone}]
  /\ \A c \in AdminCalls : calls[c] # KeyNone =>
       /\ calls[c].stage = "read" => calls[c].key \in KeyIds
       /\ calls[c].stage = "revoking" => calls[c].target \in Stored

\* A revoked key stays revoked, although requests that read it before are still under way and
\* write its row afterwards, and although two administrators may revoke each other.
RevokedStaysRevoked ==
  [][\A k \in KeyIds : k \in Stored /\ apiKeys[k].status = "revoked" => apiKeys'[k].status = "revoked"]_keyVars
=============================================================================

------------------------------ MODULE Policies ------------------------------
(***************************************************************************)
(* visibility.service.ts: what the roles may see of one field of one       *)
(* resource, read through a cache that lives for a while.                  *)
(***************************************************************************)
EXTENDS Outbox

CONSTANTS
  Roles,        \* those a policy may name, "*" among them
  Readers, RolesOf,   \* responses to be filtered: the roles of their user
  Officers,     \* super administrators changing policies
  CACHE_TTL,    \* ticks of the clock
  Latency,      \* bound: ticks that a query takes
  MaxChanges    \* bound

ASSUME PoliciesAssumption ==
  /\ "*" \in Roles /\ RolesOf \in [Readers -> SUBSET Roles]
  /\ CACHE_TTL \in Nat \ {0} /\ {Latency, MaxChanges} \subseteq Nat

VARIABLES
  policy,       \* rows of VisibilityPolicy: the effect for a role, or none
  cache,        \* the cached rows and when they were cached
  reading,      \* the handlers of apply
  changing,     \* officers that have still to delete the cache
  changed, changes,   \* history: when the policy changed last, and how often
  applied       \* history: what the last response did to the field

policyVars == <<policy, cache, reading, changing, changed, changes, applied>>

Effects == {"ALLOW", "MASK", "DENY"}
Rows == [Roles -> Effects \cup {"none"}]
Uncached == [at |-> None, rows |-> [r \in Roles |-> "none"]]

PoliciesTypeOK ==
  /\ policy \in Rows
  /\ cache \in [at : {None} \cup Nat, rows : Rows]
  /\ reading \in [Readers -> {Free} \cup [at : {"query", "store"}, sent : Nat, rows : Rows]]
  /\ changing \subseteq Officers
  /\ changed \in Nat /\ changes \in 0..MaxChanges
  /\ applied \in [at : {None} \cup Nat, roles : SUBSET Roles, effect : Effects]

PoliciesInit ==
  /\ policy \in Rows /\ (Officers \cap team = {} => \A r \in Roles : policy[r] = "none")   \* bound
  /\ cache = Uncached
  /\ reading = [r \in Readers |-> Free]
  /\ changing = {}
  /\ changed = 0 /\ changes = 0
  /\ applied = [at |-> None, roles |-> {}, effect |-> "ALLOW"]

----------------------------------------------------------------------------

Rank(effect) == CASE effect = "ALLOW" -> 3 [] effect = "MASK" -> 2 [] effect = "DENY" -> 1

(* The widest effect among the rows of the roles and of all; a field       *)
(* without a row is left as it is.                                         *)
Effective(rows, roles) ==
  LET hits == {rows[r] : r \in roles \cup {"*"}} \ {"none"} IN
  IF hits = {} THEN "ALLOW" ELSE CHOOSE e \in hits : \A f \in hits : Rank(e) >= Rank(f)

Applies(r, rows) ==
  applied' = [at |-> clock, roles |-> RolesOf[r], effect |-> Effective(rows, RolesOf[r])]

(* Mutant of Fresh: an entry that is asked for lives on.                   *)
FreshForever == cache # Uncached

Fresh == cache # Uncached /\ clock - cache.at < CACHE_TTL

ReadHit(r) ==
  /\ r \in team /\ reading[r] = Free /\ Fresh
  /\ Applies(r, cache.rows)
  /\ UNCHANGED <<policy, cache, reading, changing, changed, changes>>

ReadMiss(r) ==
  /\ r \in team /\ reading[r] = Free /\ ~Fresh
  /\ reading' = [reading EXCEPT ![r] = [at |-> "query", sent |-> clock, rows |-> Uncached.rows]]
  /\ UNCHANGED <<policy, cache, changing, changed, changes, applied>>

ReadRows(r) ==
  /\ reading[r].at = "query"
  /\ reading' = [reading EXCEPT ![r].at = "store", ![r].rows = policy]
  /\ UNCHANGED <<policy, cache, changing, changed, changes, applied>>

(* The rows are cached from now on, even if they have changed meanwhile.   *)
ReadStore(r) ==
  /\ reading[r].at = "store"
  /\ cache' = [at |-> clock, rows |-> reading[r].rows]
  /\ Applies(r, reading[r].rows)
  /\ reading' = [reading EXCEPT ![r] = Free]
  /\ UNCHANGED <<policy, changing, changed, changes>>

(* upsert and remove write the row ...                                     *)
ChangePolicy(v) ==
  /\ v \in team \ changing /\ changes < MaxChanges   \* bound
  /\ \E role \in Roles, effect \in Effects \cup {"none"} :
       /\ effect # policy[role]
       /\ policy' = [policy EXCEPT ![role] = effect]
  /\ changing' = changing \cup {v}
  /\ changed' = clock /\ changes' = changes + 1
  /\ UNCHANGED <<cache, reading, applied>>

(* ... and delete the cached rows.                                         *)
ClearCache(v) ==
  /\ v \in changing
  /\ cache' = Uncached
  /\ changing' = changing \ {v}
  /\ UNCHANGED <<policy, reading, changed, changes, applied>>

(* A query is answered within the latency.                                 *)
Answered == \A r \in Readers : reading[r] # Free => clock < reading[r].sent + Latency

PoliciesNext ==
  \/ \E r \in Readers : ReadHit(r) \/ ReadMiss(r) \/ ReadRows(r) \/ ReadStore(r)
  \/ \E v \in Officers : ChangePolicy(v) \/ ClearCache(v)
=============================================================================

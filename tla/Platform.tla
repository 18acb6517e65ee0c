------------------------------ MODULE Platform ------------------------------
(***************************************************************************)
(* The administration of a tenant and of the platform: accounts            *)
(* (api/v1/user_mgmt.py, services/auth_service.py) and the AI providers    *)
(* with their platform default (api/v1/admin.py).                          *)
(*                                                                         *)
(* Both are looked up before they are inserted, and no constraint stands   *)
(* behind the look-up: users have none, and a platform provider has a NULL *)
(* tenant_id, for which its UNIQUE constraint does not hold.               *)
(***************************************************************************)
EXTENDS Naturals, FiniteSets

CONSTANTS
  Worker,       \* requests that can be served at a time
  Account,      \* rows that users can get, in one tenant (bound)
  Founder,      \* the tenant's first administrator
  Email, Name,  \* addresses of accounts; provider names (of one task_type)
  Row,          \* rows that ai_provider_configs can get (bound)
  NULL

ASSUME PlatformAssumption ==
  /\ IsFiniteSet(Worker) /\ IsFiniteSet(Account) /\ IsFiniteSet(Row)
  /\ Worker # {} /\ Founder \in Account /\ Email # {}
  /\ NULL \notin Worker \cup Account \cup Email \cup Name \cup Row \cup BOOLEAN

VARIABLES
  user,      \* users: email, whether the role is admin, is_active
  provider,  \* ai_provider_configs; by: who made it the default (auxiliary)
  act        \* what the request of each worker is doing

vars == <<user, provider, act>>

(***************************************************************************)
(* pc is the next step of the request: addUser, insert, set, update and    *)
(* deactivate commit; clear is the bulk UPDATE before insert or set.       *)
(* change has the columns that the commit writes, those that differ from   *)
(* the row as it was read (else NULL).  overtaken tells a deactivation     *)
(* that another change of an account was committed since it was authorised *)
(* (auxiliary).                                                            *)
(***************************************************************************)
Idle == [pc |-> "idle", account |-> NULL, email |-> NULL, name |-> NULL,
         isDefault |-> FALSE, row |-> NULL, seen |-> {}, overtaken |-> FALSE,
         change |-> [admin |-> NULL, active |-> NULL]]
At(w, l) == act[w].pc = l
Begin(w, r) == At(w, "idle") /\ act' = [act EXCEPT ![w] = r]
Done(w) == act' = [act EXCEPT ![w] = Idle]

-----------------------------------------------------------------------------
(* Accounts *)

With(e) == {a \in Account : user[a] # NULL /\ user[a].email = e}
Admins == {a \in Account : user[a] # NULL /\ user[a].admin /\ user[a].active}

\* invite_user and register_user: one row answers 409, several an exception.
AskAccount(w, e) ==
  /\ With(e) = {}
  /\ Begin(w, [Idle EXCEPT !.pc = "addUser", !.email = e])
  /\ UNCHANGED <<user, provider>>

AddAccount(w) ==
  /\ At(w, "addUser")
  /\ \E a \in {x \in Account : user[x] = NULL}, admin \in BOOLEAN :
       user' = [user EXCEPT ![a] = [email |-> act[w].email, admin |-> admin, active |-> TRUE]]
  /\ Done(w)
  /\ UNCHANGED provider

Overtaking(w) ==
  [x \in Worker |-> IF x = w THEN Idle ELSE [act[x] EXCEPT !.overtaken = act[x].pc = "deactivate"]]

Differing(u, admin, active) ==
  [admin |-> IF admin = u.admin THEN NULL ELSE admin,
   active |-> IF active = u.active THEN NULL ELSE active]

Written(u, change) ==
  [u EXCEPT !.admin = IF change.admin = NULL THEN @ ELSE change.admin,
            !.active = IF change.active = NULL THEN @ ELSE change.active]

\* update_user, to the commit: any role, active or not, one's own account too.
AskUpdate(w, v, admin, active) ==
  /\ Admins # {} /\ user[v] # NULL
  /\ Begin(w, [Idle EXCEPT !.pc = "update", !.account = v,
                           !.change = Differing(user[v], admin, active)])
  /\ UNCHANGED <<user, provider>>

\* Mutated AskDeactivate: one's own account too.
AskDeactivateAny(w, u, v) ==
  /\ u \in Admins /\ user[v] # NULL
  /\ Begin(w, [Idle EXCEPT !.pc = "deactivate", !.account = v,
                           !.change = Differing(user[v], user[v].admin, FALSE)])
  /\ UNCHANGED <<user, provider>>

\* deactivate_user, asked for by u: not one's own account.
AskDeactivate(w, u, v) ==
  /\ u \in Admins /\ user[v] # NULL /\ u # v
  /\ Begin(w, [Idle EXCEPT !.pc = "deactivate", !.account = v,
                           !.change = Differing(user[v], user[v].admin, FALSE)])
  /\ UNCHANGED <<user, provider>>

WriteUser(w) ==
  /\ user' = [user EXCEPT ![act[w].account] = Written(@, act[w].change)]
  /\ act' = Overtaking(w)
  /\ UNCHANGED provider

UpdateUser(w) == At(w, "update") /\ WriteUser(w)
Deactivate(w) == At(w, "deactivate") /\ WriteUser(w)

-----------------------------------------------------------------------------
(* AI providers *)

Gone == [name |-> NULL, isDefault |-> FALSE, by |-> NULL]
Live == {r \in Row : provider[r] \notin {NULL, Gone}}
Named(n) == {r \in Live : provider[r].name = n}
Defaults == {r \in Live : provider[r].isDefault}
NotDefault(r) == [provider[r] EXCEPT !.isDefault = FALSE, !.by = NULL]

\* create_ai_provider: the name is taken (409), or twice (an exception).
AskProvider(w, n, isDefault) ==
  /\ Named(n) = {}
  /\ Begin(w, [Idle EXCEPT !.pc = IF isDefault THEN "clear" ELSE "insert",
                           !.name = n, !.isDefault = isDefault])
  /\ UNCHANGED <<user, provider>>

\* update_ai_provider with is_platform_default true.
AskDefault(w, r) ==
  /\ r \in Live
  /\ Begin(w, [Idle EXCEPT !.pc = "clear", !.row = r, !.isDefault = TRUE])
  /\ UNCHANGED <<user, provider>>

\* Mutated ClearDefaults: the others keep their flag.
ClearNothing(w) ==
  /\ At(w, "clear")
  /\ act' = [act EXCEPT ![w].pc = IF act[w].row = NULL THEN "insert" ELSE "set"]
  /\ UNCHANGED <<user, provider>>

\* The bulk UPDATE reaches the rows committed when it starts, whatever their flag
\* is by the time it gets their locks.  It goes with the commit.
ClearDefaults(w) ==
  /\ At(w, "clear")
  /\ act' = [act EXCEPT ![w].pc = IF act[w].row = NULL THEN "insert" ELSE "set",
                        ![w].seen = Live]
  /\ UNCHANGED <<user, provider>>

Cleared(w) ==
  [r \in Row |-> IF r \in act[w].seen \cap Live THEN NotDefault(r) ELSE provider[r]]

InsertProvider(w) ==
  /\ At(w, "insert")
  /\ \E r \in {x \in Row : provider[x] = NULL} :
       provider' = [Cleared(w) EXCEPT ![r] =
         [name |-> act[w].name, isDefault |-> act[w].isDefault,
          by |-> IF act[w].isDefault THEN w ELSE NULL]]
  /\ Done(w)
  /\ UNCHANGED user

\* Mutated SetDefault: a row that is gone comes back.
SetAnyway(w) ==
  /\ At(w, "set")
  /\ provider' = [Cleared(w) EXCEPT ![act[w].row].isDefault = TRUE, ![act[w].row].by = w]
  /\ Done(w)
  /\ UNCHANGED user

\* The UPDATE of a deleted row is a StaleDataError: nothing is committed.
SetDefault(w) ==
  /\ At(w, "set")
  /\ provider' = IF act[w].row \in Live
                 THEN [Cleared(w) EXCEPT ![act[w].row].isDefault = TRUE, ![act[w].row].by = w]
                 ELSE provider
  /\ Done(w)
  /\ UNCHANGED user

UnsetDefault(r) ==
  /\ r \in Live
  /\ provider' = [provider EXCEPT ![r] = NotDefault(r)]
  /\ UNCHANGED <<user, act>>

DeleteProvider(r) ==
  /\ r \in Live
  /\ provider' = [provider EXCEPT ![r] = Gone]
  /\ UNCHANGED <<user, act>>

-----------------------------------------------------------------------------
\* A request ends early: its commit fails or its process is stopped.
Abandon(w) ==
  /\ ~At(w, "idle")
  /\ Done(w)
  /\ UNCHANGED <<user, provider>>

Init ==
  /\ \E e \in Email :
       user = [a \in Account |->
         IF a = Founder THEN [email |-> e, admin |-> TRUE, active |-> TRUE] ELSE NULL]
  /\ provider = [r \in Row |-> NULL]
  /\ act = [w \in Worker |-> Idle]

AccountStep(w) ==
  \/ \E e \in Email : AskAccount(w, e)
  \/ AddAccount(w)
  \/ \E u, v \in Account : AskDeactivate(w, u, v)
  \/ Deactivate(w)
  \/ \E v \in Account, admin, active \in BOOLEAN : AskUpdate(w, v, admin, active)
  \/ UpdateUser(w)

ProviderStep(w) ==
  \/ \E n \in Name, d \in BOOLEAN : AskProvider(w, n, d)
  \/ \E r \in Row : AskDefault(w, r)
  \/ ClearDefaults(w)
  \/ InsertProvider(w)
  \/ SetDefault(w)

Next ==
  \/ \E w \in Worker : AccountStep(w) \/ ProviderStep(w) \/ Abandon(w)
  \/ \E r \in Row : UnsetDefault(r) \/ DeleteProvider(r)

Spec == Init /\ [][Next]_vars

-----------------------------------------------------------------------------
(* Properties *)

User == [email : Email, admin : BOOLEAN, active : BOOLEAN]
Config == [name : Name, isDefault : BOOLEAN, by : Worker \cup {NULL}]
Change == [admin : BOOLEAN \cup {NULL}, active : BOOLEAN \cup {NULL}]
Request ==
  [pc : {"idle", "addUser", "update", "deactivate", "clear", "insert", "set"},
   account : Account \cup {NULL}, email : Email \cup {NULL}, name : Name \cup {NULL},
   isDefault : BOOLEAN, row : Row \cup {NULL}, seen : SUBSET Row, overtaken : BOOLEAN,
   change : Change]

ASSUME RowAssumption == NULL \notin User \cup Config

\* Rows and requests hold values of their types, a step has what it works on, and
\* a provider is somebody's default or nobody's.
TypeOK ==
  /\ user \in [Account -> {NULL} \cup User]
  /\ provider \in [Row -> {NULL, Gone} \cup Config]
  /\ \A r \in Live : provider[r].isDefault <=> provider[r].by # NULL
  /\ act \in [Worker -> Request]
  /\ \A w \in Worker :
       /\ At(w, "addUser") => act[w].email # NULL
       /\ At(w, "update") \/ At(w, "deactivate") =>
            act[w].account # NULL /\ user[act[w].account] # NULL
       /\ At(w, "insert") \/ (At(w, "clear") /\ act[w].row = NULL) => act[w].name # NULL
       /\ At(w, "set") => act[w].row # NULL

\* Settings: an address has at most as many accounts, a name as many platform
\* providers, and a task as many default providers, as requests overlap, however
\* many follow: a request that starts when there is one adds none, and one that sets
\* the default takes the flag from all it can see.
SettingsBounded ==
  /\ \A e \in Email : Cardinality(With(e)) <= Cardinality(Worker)
  /\ \A n \in Name : Cardinality(Named(n)) <= Cardinality(Worker)
  /\ Cardinality(Defaults) <= Cardinality(Worker)

\* Accounts: DELETE takes a tenant's last administrator only when it overlaps another
\* DELETE or an update; what update_user does is not asked here.
LastAdmin ==
  [][\A w \in Worker :
       Deactivate(w) /\ Admins # {} /\ Admins' = {} => act[w].overtaken]_vars
=============================================================================

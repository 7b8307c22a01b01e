------------------------------ MODULE Sessions ------------------------------
(***************************************************************************)
(* Who may do what in the back office: a request's token is shown to the    *)
(* upstream system or, for reads, looked up in a cache of sixty seconds; the *)
(* roles it names are looked up one by one in the role mappings, which staff *)
(* change meanwhile.                                                         *)
(*                                                                           *)
(* One token is modelled.  What upstream says of it changes from version to  *)
(* version; `until' remembers when a version was replaced, and `held' when a *)
(* role last gave a right, so that what a request was granted can be       *)
(* compared with what was true while it ran.                                 *)
(***************************************************************************)
EXTENDS Naturals, Sequences, FiniteSetsExt

CONSTANTS
  Requests,    \* requests with the token
  Roles,       \* roleKeys
  Abilities,   \* ABILITIES
  AccountOf,   \* roles upstream names, version by version; {}: it refuses
  Mappings,    \* values a RoleMapping takes
  FirstMapping,
  TTL,         \* AUTH_CACHE_TTL_SECONDS, at most 60
  Timeout,     \* AUTH_TIMEOUT_MS
  Delay,       \* bound: time from upstream's answer to the cache
  MaxTime,     \* bound of the clock
  MaxUpdates,  \* bound: changes of role mappings
  None

Scopes == 0 .. 2   \* SELF, DEPT, ALL by scopeRank
RoleMapping == [enabled : BOOLEAN, capabilities : SUBSET Abilities, dataScope : Scopes]

ASSUME ConstantsAssumption ==
  /\ TTL \in Nat /\ Timeout \in Nat /\ Delay \in Nat
  /\ MaxTime \in Nat /\ MaxUpdates \in Nat
  /\ AccountOf \in Seq(SUBSET Roles) /\ Len(AccountOf) > 0
  /\ Mappings \subseteq RoleMapping
  /\ FirstMapping \in Mappings
  /\ Abilities \cap Scopes = {}
  /\ None \notin Nat /\ None \notin Mappings

VARIABLES
  now,      \* the clock
  account,  \* version of what upstream says of the token
  until,    \* when each version was replaced (ghost)
  mapping,  \* RoleMapping rows
  held,     \* when a role last gave a right (ghost)
  updates,  \* changes of mappings made
  cache,    \* the entry of the token's digest
  req       \* requests in AbilityGuard

vars == <<now, account, until, mapping, held, updates, cache, req>>

-----------------------------------------------------------------------------
(* Types *)

Versions == DOMAIN AccountOf
Times == 0 .. MaxTime
Forever == MaxTime + 1   \* later than the clock runs

Rights == Abilities \cup Scopes

Request ==
  [pc : {"idle", "fetching", "evaluated", "stored", "resolving", "admitted",
         "refused", "failed"},
   write : BOOLEAN, needs : Abilities, start : Times, heard : Times,
   user : Versions \cup {None},
   found : [Roles -> Mappings \cup {None}],
   scope : Scopes]

TypeOK ==
  /\ now \in Times
  /\ account \in Versions
  /\ until \in [Versions -> Times \cup {Forever}]
  /\ mapping \in [Roles -> Mappings]
  /\ held \in [Roles \X Rights -> Times \cup {Forever, None}]
  /\ updates \in 0 .. MaxUpdates
  /\ cache \in [user : Versions, expires : Nat] \cup {None}
  /\ req \in [Requests -> Request]

\* What a mapping gives: abilities, and data up to a scope.
Gives(m, x) ==
  /\ m.enabled
  /\ IF x \in Abilities THEN x \in m.capabilities ELSE x <= m.dataScope

NothingFound == [k \in Roles |-> None]

\* A request that was not admitted keeps nothing.
Over(q, pc) ==
  [q EXCEPT !.pc = pc, !.start = 0, !.heard = 0, !.user = None,
            !.found = NothingFound]

Init ==
  /\ now = 0
  /\ account = 1 /\ until = [v \in Versions |-> Forever]
  /\ mapping = [k \in Roles |-> FirstMapping]
  /\ held = [kx \in Roles \X Rights |->
               IF Gives(FirstMapping, kx[2]) THEN Forever ELSE None]
  /\ updates = 0
  /\ cache = None
  /\ req \in [Requests -> [pc : {"idle"}, write : BOOLEAN, needs : Abilities,
                           start : {0}, heard : {0}, user : {None},
                           found : {NothingFound}, scope : {0}]]

-----------------------------------------------------------------------------
(* Faulty variants: the mutants of the runs *)

StartFromExpired(r) ==
  /\ req[r].pc = "idle"
  /\ LET cached == ~req[r].write /\ cache # None IN
     req' = [req EXCEPT ![r].start = now,
                        ![r].pc = IF cached THEN "resolving" ELSE "fetching",
                        ![r].user = IF cached THEN cache.user ELSE None]
  /\ UNCHANGED <<now, account, until, mapping, held, updates, cache>>

\* A failed fetch or upsert is swallowed.
FillCacheAnyway(r) ==
  /\ req[r].pc \in {"stored", "failed"}
  /\ cache' = [user |-> req[r].user, expires |-> now + TTL]
  /\ req' = [req EXCEPT ![r].pc = "resolving", ![r].heard = 0]
  /\ UNCHANGED <<now, account, until, mapping, held, updates>>

EnabledOrNot(r) == {req[r].found[k] : k \in AccountOf[req[r].user]}

-----------------------------------------------------------------------------
(* AuthService *)

\* authenticate(): reads may take the entry that has not expired.
Start(r) ==
  /\ req[r].pc = "idle"
  /\ LET cached == ~req[r].write /\ cache # None /\ cache.expires > now IN
     req' = [req EXCEPT ![r].start = now,
                        ![r].pc = IF cached THEN "resolving" ELSE "fetching",
                        ![r].user = IF cached THEN cache.user ELSE None]
  /\ UNCHANGED <<now, account, until, mapping, held, updates, cache>>

\* Upstream looks the token up; its answer is on the way.
Evaluate(r) ==
  /\ req[r].pc = "fetching"
  /\ req' = [req EXCEPT ![r].pc = "evaluated", ![r].user = account,
                        ![r].heard = now]
  /\ UNCHANGED <<now, account, until, mapping, held, updates, cache>>

\* fetchIdentity() fails - three seconds, the network, a 5xx - or the database.
Fails(r) ==
  /\ req[r].pc \in {"fetching", "evaluated", "stored", "resolving"}
  /\ req' = [req EXCEPT ![r] = Over(@, "failed")]
  /\ UNCHANGED <<now, account, until, mapping, held, updates, cache>>

\* parseIdentity(): also an answer that names no user or no role refuses.
Refuses(v) == AccountOf[v] = {}

\* The answer: refused, which forgets the entry, or upsertUpstreamUser().
Answer(r) ==
  /\ req[r].pc = "evaluated"
  /\ IF Refuses(req[r].user)
     THEN /\ req' = [req EXCEPT ![r] = Over(@, "refused")]
          /\ cache' = None
     ELSE /\ req' = [req EXCEPT ![r].pc = "stored"]
          /\ UNCHANGED cache
  /\ UNCHANGED <<now, account, until, mapping, held, updates>>

\* After the upsert, whatever has become of the entry meanwhile.
FillCache(r) ==
  /\ req[r].pc = "stored"
  /\ cache' = [user |-> req[r].user, expires |-> now + TTL]
  /\ req' = [req EXCEPT ![r].pc = "resolving", ![r].heard = 0]
  /\ UNCHANGED <<now, account, until, mapping, held, updates>>

-----------------------------------------------------------------------------
(* AbilityService and AbilityGuard *)

\* One of the parallel find()s of resolve().
FindRole(r, k) ==
  /\ req[r].pc = "resolving"
  /\ k \in AccountOf[req[r].user]
  /\ req[r].found[k] = None
  /\ req' = [req EXCEPT ![r].found[k] = mapping[k]]
  /\ UNCHANGED <<now, account, until, mapping, held, updates, cache>>

Enabled(r) ==
  {req[r].found[k] : k \in {j \in AccountOf[req[r].user] : req[r].found[j].enabled}}

\* The rest of resolve(), and the test of the required ability.
Decide(r) ==
  /\ req[r].pc = "resolving"
  /\ \A k \in AccountOf[req[r].user] : req[r].found[k] # None
  /\ req' = [req EXCEPT ![r] =
       IF \E m \in Enabled(r) : @.needs \in m.capabilities
       THEN [@ EXCEPT !.pc = "admitted", !.found = NothingFound,
                      !.scope = Max({m.dataScope : m \in Enabled(r)})]
       ELSE Over(@, "refused")]
  /\ UNCHANGED <<now, account, until, mapping, held, updates, cache>>

-----------------------------------------------------------------------------
(* What happens meanwhile *)

\* RolesService.update()
UpdateMapping(k, m) ==
  /\ updates < MaxUpdates /\ m # mapping[k]
  /\ updates' = updates + 1
  /\ mapping' = [mapping EXCEPT ![k] = m]
  /\ held' = [kx \in Roles \X Rights |->
       IF kx[1] # k THEN held[kx]
       ELSE IF Gives(m, kx[2]) THEN Forever
       ELSE IF Gives(mapping[k], kx[2]) THEN now ELSE held[kx]]
  /\ UNCHANGED <<now, account, until, cache, req>>

UpstreamChanges ==
  /\ account < Len(AccountOf)
  /\ account' = account + 1
  /\ until' = [until EXCEPT ![account] = now]
  /\ UNCHANGED <<now, mapping, held, updates, cache, req>>

\* The fetch is aborted at its timeout; Delay bounds what follows it.
Tick ==
  /\ now < MaxTime
  /\ \A r \in Requests :
       /\ req[r].pc \in {"fetching", "evaluated"} => now < req[r].start + Timeout
       /\ req[r].pc \in {"evaluated", "stored"} => now < req[r].heard + Delay
  /\ now' = now + 1
  /\ UNCHANGED <<account, until, mapping, held, updates, cache, req>>

\* The API restarts.
Restart ==
  /\ cache # None \/ \E r \in Requests : req[r].pc = "stored"
  /\ cache' = None
  /\ req' = [r \in Requests |->
       IF req[r].pc \in {"idle", "admitted", "refused"} THEN req[r]
       ELSE Over(req[r], "failed")]
  /\ UNCHANGED <<now, account, until, mapping, held, updates>>

-----------------------------------------------------------------------------
RequestStep(r) ==
  \/ Start(r) \/ Evaluate(r) \/ Fails(r) \/ Answer(r) \/ FillCache(r)
  \/ \E k \in Roles : FindRole(r, k)
  \/ Decide(r)

Next ==
  \/ \E r \in Requests : RequestStep(r)
  \/ \E k \in Roles, m \in Mappings : UpdateMapping(k, m)
  \/ UpstreamChanges \/ Tick \/ Restart

Spec == Init /\ [][Next]_vars

-----------------------------------------------------------------------------
(* Safety *)

\* A write goes by what upstream said after the request began, never by the
\* cache, however full it is and whoever fills it.
WritesAskUpstream ==
  \A r \in Requests :
    req[r].pc = "admitted" /\ req[r].write => until[req[r].user] >= req[r].start

\* A read goes by what upstream said at most a cache's lifetime, and the time
\* it took to fill it, before: also when an answer that is late fills the
\* cache after a refusal has emptied it.
ReadsAreRecent ==
  \A r \in Requests :
    req[r].pc = "admitted" =>
      until[req[r].user] + TTL + Delay >= req[r].start

\* So nobody acts for long on an identity that upstream has taken back.
IdentityIsRecent == WritesAskUpstream /\ ReadsAreRecent

\* What a request was granted, some role of its user gave when it began or
\* later: a mapping that was taken back before is never used, though roles
\* are looked up one by one while mappings change.
GrantsAreCurrent ==
  \A r \in Requests :
    req[r].pc = "admitted" =>
      \A x \in {req[r].needs} \cup (1 .. req[r].scope) :
        \E k \in AccountOf[req[r].user] :
          held[<<k, x>>] # None /\ held[<<k, x>>] >= req[r].start
=============================================================================

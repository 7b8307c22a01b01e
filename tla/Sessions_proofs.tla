--------------------------- MODULE Sessions_proofs ---------------------------
(* Theorems of Sessions, for any requests, roles, mappings and lifetimes. *)
EXTENDS Sessions, SequenceTheorems, TLAPS

LEMMA VersionsAreNumbers ==
  Versions = 1 .. Len(AccountOf) /\ Len(AccountOf) \in Nat \ {0}
  BY ConstantsAssumption, LenProperties DEF Versions

LEMMA OverIsRequest ==
  ASSUME NEW q \in Request,
         NEW pc \in {"idle", "fetching", "evaluated", "stored", "resolving",
                    "admitted", "refused", "failed"}
  PROVE  Over(q, pc) \in Request
<1>1. 0 \in Times
  BY ConstantsAssumption DEF Times
<1>2. NothingFound \in [Roles -> Mappings \cup {None}]
  BY DEF NothingFound
<1> QED BY <1>1, <1>2 DEF Over, Request

\* The widest scope of some mappings is one of theirs.
LEMMA WidestScope ==
  ASSUME NEW S \in SUBSET Scopes, S # {}
  PROVE  Max(S) \in S /\ \A y \in S : y <= Max(S)
<1>1. \E x \in S : \A y \in S : x >= y
  <2>1. S \subseteq 0 .. 2 /\ \E x \in S : TRUE
    BY DEF Scopes
  <2>2. CASE 2 \in S
    <3>1. \A y \in S : 2 >= y
      BY <2>1
    <3> QED BY <2>2, <3>1
  <2>3. CASE 2 \notin S /\ 1 \in S
    <3>1. \A y \in S : 1 >= y
      BY <2>1, <2>3
    <3> QED BY <2>3, <3>1
  <2>4. CASE 2 \notin S /\ 1 \notin S
    <3>1. 0 \in S /\ \A y \in S : 0 >= y
      BY <2>1, <2>4
    <3> QED BY <3>1
  <2> QED BY <2>2, <2>3, <2>4
<1>2. Max(S) \in S /\ \A y \in S : Max(S) >= y
  BY <1>1 DEF Max
<1> QED BY <1>2, SMT DEF Scopes

\* What a request found is some enabled mapping of a role its user has.
LEMMA EnabledWasFound ==
  ASSUME TypeOK, NEW r \in Requests, req[r].user \in Versions,
         \A k \in AccountOf[req[r].user] : req[r].found[k] # None
  PROVE  /\ AccountOf[req[r].user] \subseteq Roles
         /\ \A m \in Enabled(r) :
              /\ m \in Mappings /\ m.enabled
              /\ \E k \in AccountOf[req[r].user] : req[r].found[k] = m
<1>1. AccountOf[req[r].user] \subseteq Roles
  BY ConstantsAssumption DEF Versions
<1>2. req[r].found \in [Roles -> Mappings \cup {None}]
  BY DEF TypeOK, Request
<1> QED BY <1>1, <1>2 DEF Enabled

LEMMA DecidedScope ==
  ASSUME TypeOK, NEW r \in Requests, req[r].user \in Versions,
         \A k \in AccountOf[req[r].user] : req[r].found[k] # None,
         Enabled(r) # {}
  PROVE  /\ Max({m.dataScope : m \in Enabled(r)}) \in Scopes
         /\ \E m \in Enabled(r) :
              m.dataScope = Max({n.dataScope : n \in Enabled(r)})
<1> DEFINE S == {m.dataScope : m \in Enabled(r)}
<1>1. \A m \in Enabled(r) : m.dataScope \in Scopes
  BY EnabledWasFound, ConstantsAssumption DEF RoleMapping
<1>2. S \in SUBSET Scopes /\ S # {}
  BY <1>1
<1>3. Max(S) \in S
  BY <1>2, WidestScope
<1> QED BY <1>2, <1>3

-----------------------------------------------------------------------------
(* Types *)

LEMMA InitTyped ==
  ASSUME Init
  PROVE  TypeOK
<1>1. 0 \in Times /\ Forever \in Times \cup {Forever}
  BY ConstantsAssumption DEF Times
<1>2. NothingFound \in [Roles -> Mappings \cup {None}]
  BY DEF NothingFound
<1>3. req \in [Requests -> Request]
  <2>1. [pc : {"idle"}, write : BOOLEAN, needs : Abilities, start : {0},
         heard : {0}, user : {None}, found : {NothingFound}, scope : {0}]
          \subseteq Request
    BY <1>1, <1>2 DEF Request, Scopes
  <2> QED BY <2>1 DEF Init
<1>4. account \in Versions
  BY VersionsAreNumbers DEF Init
<1>5. mapping \in [Roles -> Mappings]
  BY ConstantsAssumption DEF Init
<1>6. held \in [Roles \X Rights -> Times \cup {Forever, None}]
  BY DEF Init
<1>7. updates \in 0 .. MaxUpdates
  BY ConstantsAssumption DEF Init
<1>8. until \in [Versions -> Times \cup {Forever}]
  BY DEF Init
<1> QED
  BY <1>1, <1>3, <1>4, <1>5, <1>6, <1>7, <1>8 DEF Init, TypeOK

\* One request changes, to another request.
LEMMA RequestTyped ==
  ASSUME TypeOK, NEW r \in Requests, NEW q \in Request,
         req' = [req EXCEPT ![r] = q],
         UNCHANGED <<now, account, until, mapping, held, updates>>,
         cache' \in [user : Versions, expires : Nat] \cup {None}
  PROVE  TypeOK'
  BY DEF TypeOK, Request, Times, Versions, Scopes, Forever, Rights

LEMMA StartTyped ==
  ASSUME TypeOK, NEW r \in Requests, Start(r)
  PROVE  TypeOK'
<1> DEFINE q == [req[r] EXCEPT
       !.start = now,
       !.pc = IF ~req[r].write /\ cache # None /\ cache.expires > now
              THEN "resolving" ELSE "fetching",
       !.user = IF ~req[r].write /\ cache # None /\ cache.expires > now
                THEN cache.user ELSE None]
<1>1. req' = [req EXCEPT ![r] = q]
  BY DEF Start, TypeOK
<1>2. q \in Request
  <2>1. cache # None => cache.user \in Versions
    BY DEF TypeOK
  <2> QED BY <2>1 DEF TypeOK, Request
<1> HIDE DEF q
<1> QED BY <1>1, <1>2, RequestTyped DEF Start, TypeOK

LEMMA EvaluateTyped ==
  ASSUME TypeOK, NEW r \in Requests, Evaluate(r)
  PROVE  TypeOK'
<1> DEFINE q == [req[r] EXCEPT !.pc = "evaluated", !.user = account,
                               !.heard = now]
<1>1. req' = [req EXCEPT ![r] = q]
  BY DEF Evaluate, TypeOK
<1>2. q \in Request
  BY DEF TypeOK, Request
<1> HIDE DEF q
<1> QED BY <1>1, <1>2, RequestTyped DEF Evaluate, TypeOK

LEMMA FailsTyped ==
  ASSUME TypeOK, NEW r \in Requests, Fails(r)
  PROVE  TypeOK'
<1>1. Over(req[r], "failed") \in Request
  BY OverIsRequest DEF TypeOK
<1> QED BY <1>1, RequestTyped DEF Fails, TypeOK

LEMMA AnswerTyped ==
  ASSUME TypeOK, NEW r \in Requests, Answer(r)
  PROVE  TypeOK'
<1>1. CASE AccountOf[req[r].user] = {}
  <2>1. Over(req[r], "refused") \in Request
    BY OverIsRequest DEF TypeOK
  <2> QED BY <1>1, <2>1, RequestTyped DEF Answer, Refuses
<1>2. CASE AccountOf[req[r].user] # {}
  <2> DEFINE q == [req[r] EXCEPT !.pc = "stored"]
  <2>1. q \in Request
    BY DEF TypeOK, Request
  <2>2. req' = [req EXCEPT ![r] = q]
    BY <1>2 DEF Answer, Refuses, TypeOK
  <2> HIDE DEF q
  <2> QED BY <1>2, <2>1, <2>2, RequestTyped DEF Answer, Refuses, TypeOK
<1> QED BY <1>1, <1>2

LEMMA FillCacheTyped ==
  ASSUME TypeOK, NEW r \in Requests, FillCache(r), req[r].user \in Versions
  PROVE  TypeOK'
<1> DEFINE q == [req[r] EXCEPT !.pc = "resolving", !.heard = 0]
<1>1. req' = [req EXCEPT ![r] = q]
  BY DEF FillCache, TypeOK
<1>2. q \in Request
  <2>1. 0 \in Times
    BY ConstantsAssumption DEF Times
  <2> QED BY <2>1 DEF TypeOK, Request
<1>3. cache' \in [user : Versions, expires : Nat]
  BY ConstantsAssumption DEF FillCache, TypeOK, Times
<1> HIDE DEF q
<1> QED BY <1>1, <1>2, <1>3, RequestTyped DEF FillCache

LEMMA FindRoleTyped ==
  ASSUME TypeOK, NEW r \in Requests, NEW k \in Roles, FindRole(r, k)
  PROVE  TypeOK'
<1> DEFINE q == [req[r] EXCEPT !.found[k] = mapping[k]]
<1>1. req' = [req EXCEPT ![r] = q]
  BY DEF FindRole, TypeOK
<1>2. q \in Request
  BY DEF TypeOK, Request
<1> HIDE DEF q
<1> QED BY <1>1, <1>2, RequestTyped DEF FindRole, TypeOK

LEMMA DecideTyped ==
  ASSUME TypeOK, NEW r \in Requests, Decide(r), req[r].user \in Versions
  PROVE  TypeOK'
<1> DEFINE widest == Max({m.dataScope : m \in Enabled(r)})
<1> DEFINE q == [req[r] EXCEPT !.pc = "admitted", !.found = NothingFound,
                               !.scope = widest]
<1>1. CASE \E m \in Enabled(r) : req[r].needs \in m.capabilities
  <2>1. widest \in Scopes
    BY <1>1, DecidedScope DEF Decide
  <2>2. NothingFound \in [Roles -> Mappings \cup {None}]
    BY DEF NothingFound
  <2> HIDE DEF widest
  <2>3. q \in Request
    BY <2>1, <2>2 DEF TypeOK, Request
  <2>4. req' = [req EXCEPT ![r] = q]
    BY <1>1 DEF Decide, TypeOK, widest
  <2> HIDE DEF q
  <2> QED BY <2>3, <2>4, RequestTyped DEF Decide, TypeOK
<1>2. CASE ~ \E m \in Enabled(r) : req[r].needs \in m.capabilities
  <2>1. Over(req[r], "refused") \in Request
    BY OverIsRequest DEF TypeOK
  <2>2. req' = [req EXCEPT ![r] = Over(req[r], "refused")]
    BY <1>2 DEF Decide
  <2> QED BY <2>1, <2>2, RequestTyped DEF Decide, TypeOK
<1> QED BY <1>1, <1>2

LEMMA RestTyped ==
  ASSUME TypeOK,
         \/ \E k \in Roles, m \in Mappings : UpdateMapping(k, m)
         \/ UpstreamChanges \/ Tick \/ Restart
  PROVE  TypeOK'
<1>1. ASSUME NEW k \in Roles, NEW m \in Mappings, UpdateMapping(k, m)
      PROVE  TypeOK'
  <2>1. mapping' \in [Roles -> Mappings]
    BY <1>1 DEF UpdateMapping, TypeOK
  <2>2. held' \in [Roles \X Rights -> Times \cup {Forever, None}]
    BY <1>1 DEF UpdateMapping, TypeOK
  <2>3. updates' \in 0 .. MaxUpdates
    BY <1>1, ConstantsAssumption DEF UpdateMapping, TypeOK
  <2> QED BY <1>1, <2>1, <2>2, <2>3 DEF UpdateMapping, TypeOK, Versions, Times,
                                        Request, Scopes, Rights, Forever
<1>2. ASSUME UpstreamChanges
      PROVE  TypeOK'
  <2>1. account' \in Versions
    BY <1>2, VersionsAreNumbers DEF UpstreamChanges, TypeOK
  <2>2. until' \in [Versions -> Times \cup {Forever}]
    BY <1>2 DEF UpstreamChanges, TypeOK
  <2> QED BY <1>2, <2>1, <2>2 DEF UpstreamChanges, TypeOK, Versions, Times,
                                  Request, Scopes, Rights, Forever
<1>3. ASSUME Tick
      PROVE  TypeOK'
  <2>1. now' \in Times
    BY <1>3, ConstantsAssumption DEF Tick, TypeOK, Times
  <2> QED BY <1>3, <2>1 DEF Tick, TypeOK, Versions, Times, Request, Scopes,
                            Rights, Forever
<1>4. ASSUME Restart
      PROVE  TypeOK'
  <2>1. req' \in [Requests -> Request]
    BY <1>4, OverIsRequest DEF Restart, TypeOK
  <2> QED BY <1>4, <2>1 DEF Restart, TypeOK, Versions, Times, Request, Scopes,
                            Rights, Forever
<1> QED BY <1>1, <1>2, <1>3, <1>4

-----------------------------------------------------------------------------
(* Who a request is for, and when that was known *)

Timely ==
  /\ \A v \in Versions : v >= account => until[v] = Forever
  /\ \A r \in Requests :
       /\ req[r].start <= now /\ req[r].heard <= now
       /\ req[r].pc \in {"evaluated", "stored"} =>
            /\ req[r].user \in Versions
            /\ req[r].start <= req[r].heard
            /\ req[r].heard <= until[req[r].user]
            /\ now <= req[r].heard + Delay
       /\ req[r].pc \in {"resolving", "admitted"} =>
            /\ req[r].user \in Versions
            /\ req[r].write => req[r].start <= until[req[r].user]
            /\ req[r].start <= until[req[r].user] + TTL + Delay
  /\ cache # None =>
       /\ cache.expires <= now + TTL
       /\ cache.expires <= until[cache.user] + TTL + Delay

\* The inductive invariant of the two properties about upstream.
IInv == TypeOK /\ Timely

LEMMA TimelyInit ==
  ASSUME Init
  PROVE  Timely
<1>1. now = 0 /\ cache = None /\ \A v \in Versions : until[v] = Forever
  BY DEF Init
<1>2. \A r \in Requests : req[r].pc = "idle" /\ req[r].start = 0 /\ req[r].heard = 0
  BY DEF Init
<1> QED BY <1>1, <1>2 DEF Timely

LEMMA StartTimely ==
  ASSUME IInv, NEW r \in Requests, Start(r)
  PROVE  Timely'
<1> DEFINE cached == ~req[r].write /\ cache # None /\ cache.expires > now
<1> USE DEF IInv
<1>1. UNCHANGED <<now, account, until, cache>>
  BY DEF Start
<1>2. \A s \in Requests : s # r => req'[s] = req[s]
  BY DEF Start, TypeOK
<1>3. /\ req'[r].start = now /\ req'[r].heard = req[r].heard
      /\ req'[r].write = req[r].write
      /\ req'[r].pc = IF cached THEN "resolving" ELSE "fetching"
      /\ cached => req'[r].user = cache.user
  BY DEF Start, TypeOK, Request
<1>4. now \in Nat /\ req[r].write \in BOOLEAN
  BY DEF TypeOK, Times, Request
<1>5. cached => /\ cache.user \in Versions /\ ~req[r].write
                /\ cache.expires \in Nat /\ now < cache.expires
                /\ cache.expires <= until[cache.user] + TTL + Delay
                /\ until[cache.user] \in Nat
  BY ConstantsAssumption DEF TypeOK, Timely, Times, Forever
<1>6. cached => now <= until[cache.user] + TTL + Delay
  BY <1>4, <1>5, ConstantsAssumption
<1> HIDE DEF cached
<1> QED BY <1>1, <1>2, <1>3, <1>4, <1>5, <1>6 DEF Timely

\* The other requests stay, as do the clock and what upstream says.
LEMMA RequestTimely ==
  ASSUME IInv, NEW r \in Requests, NEW q,
         req' = [req EXCEPT ![r] = q],
         UNCHANGED <<now, account, until>>,
         cache' = cache \/ cache' = None,
         q.start <= now, q.heard <= now,
         q.pc \in {"evaluated", "stored"} =>
           /\ q.user \in Versions
           /\ q.start <= q.heard
           /\ q.heard <= until[q.user]
           /\ now <= q.heard + Delay,
         q.pc \in {"resolving", "admitted"} =>
           /\ q.user \in Versions
           /\ q.write => q.start <= until[q.user]
           /\ q.start <= until[q.user] + TTL + Delay
  PROVE  Timely'
<1>1. req'[r] = q /\ \A s \in Requests : s # r => req'[s] = req[s]
  BY DEF IInv, TypeOK
<1> QED BY <1>1 DEF IInv, Timely

LEMMA OverTimely ==
  ASSUME IInv, NEW r \in Requests, NEW pc \in {"refused", "failed"},
         req' = [req EXCEPT ![r] = Over(@, pc)],
         UNCHANGED <<now, account, until>>,
         cache' = cache \/ cache' = None
  PROVE  Timely'
<1> DEFINE q == Over(req[r], pc)
<1>1. q.start = 0 /\ q.heard = 0 /\ q.pc = pc
  BY DEF Over, IInv, TypeOK, Request
<1>2. 0 <= now
  BY DEF IInv, TypeOK, Times
<1>3. req' = [req EXCEPT ![r] = q]
  OBVIOUS
<1>4. q.start <= now /\ q.heard <= now
  BY <1>1, <1>2
<1>5. q.pc \notin {"evaluated", "stored"} /\ q.pc \notin {"resolving", "admitted"}
  BY <1>1
<1> HIDE DEF q
<1> QED BY <1>3, <1>4, <1>5, RequestTimely

LEMMA EvaluateTimely ==
  ASSUME IInv, NEW r \in Requests, Evaluate(r)
  PROVE  Timely'
<1> DEFINE q == [req[r] EXCEPT !.pc = "evaluated", !.user = account,
                               !.heard = now]
<1>1. req' = [req EXCEPT ![r] = q]
  BY DEF Evaluate, IInv, TypeOK
<1>2. /\ q.start = req[r].start /\ q.heard = now /\ q.user = account
      /\ q.pc = "evaluated"
  BY DEF IInv, TypeOK, Request
<1>3. now \in Nat /\ req[r].start <= now /\ account \in Versions
  BY DEF IInv, TypeOK, Times, Timely
<1>4. now <= until[account]
  BY <1>3, VersionsAreNumbers, ConstantsAssumption
     DEF IInv, TypeOK, Times, Timely, Forever
<1>5. now <= now + Delay /\ now <= now
  BY <1>3, ConstantsAssumption
<1>6. UNCHANGED <<now, account, until, cache>>
  BY DEF Evaluate
<1>7. q.pc \notin {"resolving", "admitted"}
  BY <1>2
<1> HIDE DEF q
<1> QED BY <1>1, <1>2, <1>3, <1>4, <1>5, <1>6, <1>7, RequestTimely

LEMMA AnswerTimely ==
  ASSUME IInv, NEW r \in Requests, Answer(r)
  PROVE  Timely'
<1>1. CASE AccountOf[req[r].user] = {}
  BY <1>1, OverTimely DEF Answer, Refuses
<1>2. CASE AccountOf[req[r].user] # {}
  <2> DEFINE q == [req[r] EXCEPT !.pc = "stored"]
  <2>1. req' = [req EXCEPT ![r] = q]
    BY <1>2 DEF Answer, Refuses, IInv, TypeOK
  <2>2. /\ q.start = req[r].start /\ q.heard = req[r].heard
        /\ q.user = req[r].user /\ q.pc = "stored"
    BY DEF IInv, TypeOK, Request
  <2>3. /\ req[r].start <= now /\ req[r].heard <= now
        /\ req[r].user \in Versions
        /\ req[r].start <= req[r].heard
        /\ req[r].heard <= until[req[r].user]
        /\ now <= req[r].heard + Delay
    BY DEF IInv, Timely, Answer, Refuses
  <2> HIDE DEF q
  <2> QED BY <1>2, <2>1, <2>2, <2>3, RequestTimely DEF Answer, Refuses
<1> QED BY <1>1, <1>2

LEMMA FillCacheTimely ==
  ASSUME IInv, NEW r \in Requests, FillCache(r)
  PROVE  Timely'
<1>1. /\ UNCHANGED <<now, account, until>>
      /\ \A s \in Requests : s # r => req'[s] = req[s]
  BY DEF FillCache, IInv, TypeOK
<1>2. /\ req'[r].start = req[r].start /\ req'[r].heard = 0
      /\ req'[r].user = req[r].user /\ req'[r].pc = "resolving"
  BY DEF FillCache, IInv, TypeOK, Request
<1>3. cache'.user = req[r].user /\ cache'.expires = now + TTL
  BY DEF FillCache
<1>4. /\ req[r].start <= now
      /\ req[r].user \in Versions
      /\ req[r].start <= req[r].heard
      /\ req[r].heard <= until[req[r].user]
      /\ now <= req[r].heard + Delay
  BY DEF IInv, Timely, FillCache
<1>5. /\ now \in Nat /\ req[r].start \in Nat /\ req[r].heard \in Nat
      /\ until[req[r].user] \in Nat /\ TTL \in Nat /\ Delay \in Nat
  BY <1>4, ConstantsAssumption DEF IInv, TypeOK, Request, Times, Forever
<1>6. /\ req[r].start <= until[req[r].user]
      /\ req[r].start <= until[req[r].user] + TTL + Delay
      /\ now + TTL <= until[req[r].user] + TTL + Delay
      /\ 0 <= now
  BY <1>4, <1>5
<1> QED BY <1>1, <1>2, <1>3, <1>4, <1>5, <1>6 DEF IInv, Timely

LEMMA FindRoleTimely ==
  ASSUME IInv, NEW r \in Requests, NEW k \in Roles, FindRole(r, k)
  PROVE  Timely'
<1> DEFINE q == [req[r] EXCEPT !.found[k] = mapping[k]]
<1>1. req' = [req EXCEPT ![r] = q]
  BY DEF FindRole, IInv, TypeOK
<1>2. /\ q.start = req[r].start /\ q.heard = req[r].heard
      /\ q.user = req[r].user /\ q.pc = req[r].pc /\ q.write = req[r].write
  BY DEF IInv, TypeOK, Request
<1> HIDE DEF q
<1> QED BY <1>1, <1>2, RequestTimely DEF FindRole, IInv, Timely

LEMMA DecideTimely ==
  ASSUME IInv, NEW r \in Requests, Decide(r)
  PROVE  Timely'
<1>1. CASE \E m \in Enabled(r) : req[r].needs \in m.capabilities
  <2> DEFINE q == [req[r] EXCEPT !.pc = "admitted", !.found = NothingFound,
                     !.scope = Max({m.dataScope : m \in Enabled(r)})]
  <2>1. req' = [req EXCEPT ![r] = q]
    BY <1>1 DEF Decide, IInv, TypeOK
  <2>2. /\ q.start = req[r].start /\ q.heard = req[r].heard
        /\ q.user = req[r].user /\ q.pc = "admitted"
        /\ q.write = req[r].write
    BY DEF IInv, TypeOK, Request
  <2> HIDE DEF q
  <2> QED BY <2>1, <2>2, RequestTimely DEF Decide, IInv, Timely
<1>2. CASE ~ \E m \in Enabled(r) : req[r].needs \in m.capabilities
  BY <1>2, OverTimely DEF Decide
<1> QED BY <1>1, <1>2

LEMMA UpstreamTimely ==
  ASSUME IInv, UpstreamChanges
  PROVE  Timely'
<1>1. UNCHANGED <<now, cache, req>> /\ account' = account + 1
  BY DEF UpstreamChanges
<1>2. /\ account \in Versions /\ account \in Nat /\ now \in Nat
      /\ \A v \in Versions : v \in Nat /\ until[v] \in Nat
  BY VersionsAreNumbers, ConstantsAssumption
     DEF IInv, TypeOK, Times, Forever
<1>3. until'[account] = now /\ \A v \in Versions : v # account => until'[v] = until[v]
  BY <1>2 DEF UpstreamChanges, IInv, TypeOK
<1>4. \A v \in Versions : v >= account' => until'[v] = Forever
  BY <1>1, <1>2, <1>3 DEF IInv, Timely
<1>5. \A v \in Versions : until'[v] = until[v] \/ until'[v] = now
  BY <1>3
<1>6. \A s \in Requests :
        /\ req[s].start \in Nat /\ req[s].heard \in Nat
        /\ req[s].start <= now /\ req[s].heard <= now
  BY DEF IInv, TypeOK, Request, Times, Timely
<1>7. ASSUME NEW s \in Requests, req[s].pc \in {"evaluated", "stored"}
      PROVE  req[s].heard <= until'[req[s].user]
  BY <1>5, <1>6, <1>7 DEF IInv, Timely
<1>8. ASSUME NEW s \in Requests, req[s].pc \in {"resolving", "admitted"}
      PROVE  /\ req[s].write => req[s].start <= until'[req[s].user]
             /\ req[s].start <= until'[req[s].user] + TTL + Delay
  <2>1. /\ req[s].user \in Versions
        /\ req[s].write => req[s].start <= until[req[s].user]
        /\ req[s].start <= until[req[s].user] + TTL + Delay
    BY <1>8 DEF IInv, Timely
  <2>2. CASE until'[req[s].user] = now
    BY <1>2, <1>6, <2>2, ConstantsAssumption
  <2> QED BY <1>5, <2>1, <2>2
<1>9. cache # None => cache.expires <= until'[cache.user] + TTL + Delay
  <2>1. cache # None => /\ cache.user \in Versions
                        /\ cache.expires \in Nat
                        /\ cache.expires <= now + TTL
                        /\ cache.expires <= until[cache.user] + TTL + Delay
    BY DEF IInv, TypeOK, Timely
  <2>2. CASE cache # None /\ until'[cache.user] = now
    BY <1>2, <2>1, <2>2, ConstantsAssumption
  <2> QED BY <1>5, <2>1, <2>2
<1> QED BY <1>1, <1>4, <1>7, <1>8, <1>9 DEF IInv, Timely

LEMMA TickTimely ==
  ASSUME IInv, Tick
  PROVE  Timely'
<1>1. UNCHANGED <<account, until, cache, req>> /\ now' = now + 1 /\ now \in Nat
  BY DEF Tick, IInv, TypeOK, Times
<1>2. \A s \in Requests : req[s].start \in Nat /\ req[s].heard \in Nat
  BY DEF IInv, TypeOK, Request, Times
<1>3. \A s \in Requests :
        req[s].pc \in {"evaluated", "stored"} => now < req[s].heard + Delay
  BY DEF Tick
<1>4. \A s \in Requests :
        /\ req[s].start <= now' /\ req[s].heard <= now'
        /\ req[s].pc \in {"evaluated", "stored"} => now' <= req[s].heard + Delay
  BY <1>1, <1>2, <1>3, ConstantsAssumption DEF IInv, Timely
<1>5. cache # None => cache.expires <= now' + TTL
  BY <1>1, ConstantsAssumption DEF IInv, TypeOK, Timely
<1> QED BY <1>1, <1>4, <1>5 DEF IInv, Timely

LEMMA RestartTimely ==
  ASSUME IInv, Restart
  PROVE  Timely'
<1>1. UNCHANGED <<now, account, until>> /\ cache' = None /\ now >= 0
  BY DEF Restart, IInv, TypeOK, Times
<1>2. ASSUME NEW s \in Requests
      PROVE  \/ req'[s] = req[s]
             \/ req'[s].pc = "failed" /\ req'[s].start = 0 /\ req'[s].heard = 0
  BY DEF Restart, Over, IInv, TypeOK, Request
<1> QED BY <1>1, <1>2 DEF IInv, Timely

LEMMA IInvInductive ==
  ASSUME IInv, [Next]_vars
  PROVE  IInv'
<1>1. ASSUME NEW r \in Requests, RequestStep(r)
      PROVE  IInv'
  <2>1. CASE Start(r)
    BY <2>1, StartTyped, StartTimely DEF IInv
  <2>2. CASE Evaluate(r)
    BY <2>2, EvaluateTyped, EvaluateTimely DEF IInv
  <2>3. CASE Fails(r)
    BY <2>3, FailsTyped, OverTimely DEF IInv, Fails
  <2>4. CASE Answer(r)
    BY <2>4, AnswerTyped, AnswerTimely DEF IInv
  <2>5. CASE FillCache(r)
    BY <2>5, FillCacheTyped, FillCacheTimely DEF IInv, Timely, FillCache
  <2>6. ASSUME NEW k \in Roles, FindRole(r, k)
        PROVE  IInv'
    BY <2>6, FindRoleTyped, FindRoleTimely DEF IInv
  <2>7. CASE Decide(r)
    BY <2>7, DecideTyped, DecideTimely DEF IInv, Timely, Decide
  <2> QED BY <1>1, <2>1, <2>2, <2>3, <2>4, <2>5, <2>6, <2>7 DEF RequestStep
<1>2. ASSUME NEW k \in Roles, NEW m \in Mappings, UpdateMapping(k, m)
      PROVE  IInv'
  BY <1>2, RestTyped DEF IInv, Timely, UpdateMapping
<1>3. CASE UpstreamChanges
  BY <1>3, RestTyped, UpstreamTimely DEF IInv
<1>4. CASE Tick
  BY <1>4, RestTyped, TickTimely DEF IInv
<1>5. CASE Restart
  BY <1>5, RestTyped, RestartTimely DEF IInv
<1>6. CASE UNCHANGED vars
  BY <1>6 DEF vars, IInv, TypeOK, Timely, Versions, Times, Forever, Request,
              Scopes, Rights
<1> QED BY <1>1, <1>2, <1>3, <1>4, <1>5, <1>6 DEF Next

THEOREM TypeCorrect == Spec => []TypeOK
<1>1. Init => IInv
  BY InitTyped, TimelyInit DEF IInv
<1>2. IInv => TypeOK
  BY DEF IInv
<1> QED BY <1>1, <1>2, IInvInductive, PTL DEF Spec

\* A write goes by what upstream said after it began, a read by what upstream
\* said a cache's lifetime before, or later.
THEOREM IdentityIsRecentHolds == Spec => []IdentityIsRecent
<1>1. Init => IInv
  BY InitTyped, TimelyInit DEF IInv
<1>2. ASSUME IInv PROVE IdentityIsRecent
  <2>1. \A r \in Requests : req[r].start \in Nat
    BY <1>2 DEF IInv, TypeOK, Request, Times
  <2>2. \A v \in Versions : until[v] \in Nat /\ until[v] + TTL + Delay \in Nat
    BY <1>2, ConstantsAssumption DEF IInv, TypeOK, Times, Forever
  <2>3. WritesAskUpstream
    BY <1>2, <2>1, <2>2 DEF IInv, Timely, WritesAskUpstream
  <2>4. ReadsAreRecent
    BY <1>2, <2>1, <2>2 DEF IInv, Timely, ReadsAreRecent
  <2> QED BY <2>3, <2>4 DEF IdentityIsRecent
<1> QED BY <1>1, <1>2, IInvInductive, PTL DEF Spec

\* What some role of the request's user gave when it began, or later.
Granted(q) ==
  q.pc = "admitted" =>
    \A x \in {q.needs} \cup (1 .. q.scope) :
      \E k \in AccountOf[q.user] :
        held[<<k, x>>] # None /\ held[<<k, x>>] >= q.start

\* A mapping that was found gave its rights when the request began, or later.
Lookups ==
  /\ \A k \in Roles, x \in Rights :
       Gives(mapping[k], x) => held[<<k, x>>] = Forever
  /\ \A r \in Requests :
       /\ req[r].pc # "resolving" => req[r].found = NothingFound
       /\ \A k \in Roles, x \in Rights :
            req[r].found[k] # None /\ Gives(req[r].found[k], x) =>
              held[<<k, x>>] # None /\ held[<<k, x>>] >= req[r].start
       /\ Granted(req[r])

LEMMA LookupsInit ==
  ASSUME Init
  PROVE  Lookups
<1>1. \A k \in Roles, x \in Rights :
        Gives(mapping[k], x) => held[<<k, x>>] = Forever
  BY DEF Init
<1>2. \A r \in Requests : req[r].pc = "idle" /\ req[r].found = NothingFound
  BY DEF Init
<1>3. \A k \in Roles : NothingFound[k] = None
  BY DEF NothingFound
<1> QED BY <1>1, <1>2, <1>3 DEF Lookups, Granted

LEMMA RequestLookups ==
  ASSUME IInv, Lookups, NEW r \in Requests, NEW q,
         req' = [req EXCEPT ![r] = q],
         UNCHANGED <<mapping, held>>,
         q.pc # "resolving" => q.found = NothingFound,
         q.found = NothingFound \/
           \A k \in Roles, x \in Rights :
             q.found[k] # None /\ Gives(q.found[k], x) =>
               held[<<k, x>>] # None /\ held[<<k, x>>] >= q.start,
         Granted(q)
  PROVE  Lookups'
<1>1. req'[r] = q /\ \A s \in Requests : s # r => req'[s] = req[s]
  BY DEF IInv, TypeOK
<1>2. \A k \in Roles : NothingFound[k] = None
  BY DEF NothingFound
<1>3. \A s \in Requests :
        /\ req'[s].pc # "resolving" => req'[s].found = NothingFound
        /\ \A k \in Roles, x \in Rights :
             req'[s].found[k] # None /\ Gives(req'[s].found[k], x) =>
               held[<<k, x>>] # None /\ held[<<k, x>>] >= req'[s].start
        /\ Granted(req'[s])
  BY <1>1, <1>2 DEF Lookups
<1> QED BY <1>3 DEF Lookups, Granted

LEMMA OverLookups ==
  ASSUME IInv, Lookups, NEW r \in Requests, NEW pc \in {"refused", "failed"},
         req' = [req EXCEPT ![r] = Over(@, pc)],
         UNCHANGED <<mapping, held>>
  PROVE  Lookups'
<1> DEFINE q == Over(req[r], pc)
<1>1. q.pc = pc /\ q.found = NothingFound
  BY DEF Over, IInv, TypeOK, Request
<1>2. req' = [req EXCEPT ![r] = q]
  OBVIOUS
<1>3. Granted(q)
  BY <1>1 DEF Granted
<1> HIDE DEF q
<1> QED BY <1>1, <1>2, <1>3, RequestLookups

\* Steps of a request that look no role up.
LEMMA EarlyLookups ==
  ASSUME IInv, Lookups, NEW r \in Requests,
         Start(r) \/ Evaluate(r) \/ Answer(r) \/ FillCache(r) \/ Fails(r)
  PROVE  Lookups'
<1>1. CASE Fails(r)
  BY <1>1, OverLookups DEF Fails
<1>2. CASE Answer(r) /\ AccountOf[req[r].user] = {}
  BY <1>2, OverLookups DEF Answer, Refuses
<1>3. CASE \/ Start(r) \/ Evaluate(r) \/ FillCache(r)
           \/ Answer(r) /\ AccountOf[req[r].user] # {}
  <2> DEFINE q == req'[r]
  <2>1. UNCHANGED <<mapping, held>> /\ req[r].found = NothingFound
    BY <1>3 DEF Start, Evaluate, FillCache, Answer, Refuses, Lookups
  <2>2. req' = [req EXCEPT ![r] = q]
    BY <1>3 DEF Start, Evaluate, FillCache, Answer, Refuses, IInv, TypeOK
  <2>3. q.found = NothingFound /\ q.pc # "admitted"
    BY <1>3, <2>1 DEF Start, Evaluate, FillCache, Answer, Refuses, IInv, TypeOK, Request
  <2>4. Granted(q)
    BY <2>3 DEF Granted
  <2>5. \E n : n = q
    OBVIOUS
  <2> HIDE DEF q
  <2>6. PICK n : n = q
    BY <2>5
  <2>7. Granted(n)
    BY <2>4, <2>6
  <2> QED BY <2>1, <2>2, <2>3, <2>6, <2>7, RequestLookups
<1> QED BY <1>1, <1>2, <1>3

LEMMA FindRoleLookups ==
  ASSUME IInv, Lookups, NEW r \in Requests, NEW k \in Roles, FindRole(r, k)
  PROVE  Lookups'
<1> DEFINE q == [req[r] EXCEPT !.found[k] = mapping[k]]
<1>1. req' = [req EXCEPT ![r] = q] /\ UNCHANGED <<mapping, held>>
  BY DEF FindRole, IInv, TypeOK
<1>2. /\ q.start = req[r].start /\ q.pc = "resolving"
      /\ q.found[k] = mapping[k]
      /\ \A j \in Roles : j # k => q.found[j] = req[r].found[j]
  BY DEF IInv, TypeOK, Request, FindRole
<1>3. req[r].start \in Nat /\ req[r].start <= Forever /\ Forever # None
  BY ConstantsAssumption DEF IInv, TypeOK, Request, Times, Forever
<1>4. \A j \in Roles, x \in Rights :
        q.found[j] # None /\ Gives(q.found[j], x) =>
          held[<<j, x>>] # None /\ held[<<j, x>>] >= q.start
  BY <1>2, <1>3 DEF Lookups, Forever
<1>5. Granted(q)
  BY <1>2 DEF Granted
<1> HIDE DEF q
<1> QED BY <1>1, <1>2, <1>4, <1>5, RequestLookups

LEMMA DecideLookups ==
  ASSUME IInv, Lookups, NEW r \in Requests, Decide(r)
  PROVE  Lookups'
<1> DEFINE widest == Max({m.dataScope : m \in Enabled(r)})
<1> DEFINE q == [req[r] EXCEPT !.pc = "admitted", !.found = NothingFound,
                               !.scope = widest]
<1>0. /\ req[r].user \in Versions
      /\ \A k \in AccountOf[req[r].user] : req[r].found[k] # None
      /\ TypeOK /\ UNCHANGED <<mapping, held>>
  BY DEF Decide, IInv, Timely
<1>1. CASE \E m \in Enabled(r) : req[r].needs \in m.capabilities
  <2>1. req' = [req EXCEPT ![r] = q]
    BY <1>1 DEF Decide, IInv, TypeOK
  <2>2. /\ q.pc = "admitted" /\ q.found = NothingFound /\ q.scope = widest
        /\ q.start = req[r].start /\ q.user = req[r].user
        /\ q.needs = req[r].needs /\ q.needs \in Abilities
    BY DEF IInv, TypeOK, Request
  <2>3. /\ AccountOf[req[r].user] \subseteq Roles
        /\ \A m \in Enabled(r) :
             /\ m \in Mappings /\ m.enabled
             /\ \E k \in AccountOf[req[r].user] : req[r].found[k] = m
    BY <1>0, EnabledWasFound
  <2>4. widest \in Scopes /\ \E m \in Enabled(r) : m.dataScope = widest
    BY <1>0, <1>1, DecidedScope
  <2> HIDE DEF widest
  <2>5. ASSUME NEW x \in Rights, \E m \in Enabled(r) : Gives(m, x)
        PROVE  \E k \in AccountOf[req[r].user] :
                 held[<<k, x>>] # None /\ held[<<k, x>>] >= req[r].start
    <3>1. PICK m \in Enabled(r) : Gives(m, x)
      BY <2>5
    <3>2. PICK k \in AccountOf[req[r].user] : req[r].found[k] = m
      BY <2>3
    <3> QED BY <1>0, <2>3, <3>1, <3>2 DEF Lookups
  <2>6. \E m \in Enabled(r) : Gives(m, req[r].needs)
    BY <1>1, <2>2, <2>3 DEF Gives
  <2>7. ASSUME NEW x \in 1 .. widest
        PROVE  x \in Scopes /\ \E m \in Enabled(r) : Gives(m, x)
    <3>1. x \in Scopes
      BY <2>4 DEF Scopes
    <3>2. PICK m \in Enabled(r) : m.dataScope = widest
      BY <2>4
    <3>3. x <= widest
      BY <2>4 DEF Scopes
    <3>4. x \notin Abilities
      BY <3>1, ConstantsAssumption
    <3> QED BY <2>3, <3>1, <3>2, <3>3, <3>4 DEF Gives
  <2>8. Granted(q)
    BY <2>2, <2>5, <2>6, <2>7 DEF Granted, Rights
  <2> HIDE DEF q
  <2> QED BY <1>0, <2>1, <2>2, <2>8, RequestLookups
<1>2. CASE ~ \E m \in Enabled(r) : req[r].needs \in m.capabilities
  BY <1>0, <1>2, OverLookups DEF Decide
<1> QED BY <1>1, <1>2

LEMMA UpdateLookups ==
  ASSUME IInv, Lookups, NEW k \in Roles, NEW m \in Mappings,
         UpdateMapping(k, m)
  PROVE  Lookups'
<1>1. /\ UNCHANGED <<now, req>> /\ mapping'[k] = m
      /\ \A j \in Roles : j # k => mapping'[j] = mapping[j]
  BY DEF UpdateMapping, IInv, TypeOK
<1>2. \A j \in Roles, x \in Rights :
        held'[<<j, x>>] =
          IF j # k THEN held[<<j, x>>]
          ELSE IF Gives(m, x) THEN Forever
          ELSE IF Gives(mapping[k], x) THEN now ELSE held[<<j, x>>]
  BY DEF UpdateMapping
<1>3. \A j \in Roles, x \in Rights :
        Gives(mapping'[j], x) => held'[<<j, x>>] = Forever
  BY <1>1, <1>2 DEF Lookups
<1>4. /\ now \in Nat /\ Forever \in Nat /\ now # None /\ Forever # None
      /\ \A r \in Requests : /\ req[r].start \in Nat
                             /\ req[r].start <= now /\ req[r].start <= Forever
  BY ConstantsAssumption DEF IInv, TypeOK, Request, Times, Timely, Forever
<1>5. ASSUME NEW r \in Requests, NEW j \in Roles, NEW x \in Rights,
             held[<<j, x>>] # None, held[<<j, x>>] >= req[r].start
      PROVE  held'[<<j, x>>] # None /\ held'[<<j, x>>] >= req[r].start
  BY <1>2, <1>4, <1>5
<1>6. ASSUME NEW r \in Requests
      PROVE  Granted(req[r])'
  <2>1. req[r].pc = "admitted" =>
          AccountOf[req[r].user] \subseteq Roles
    BY ConstantsAssumption DEF IInv, Timely, Versions
  <2>2. /\ req[r].needs \in Abilities /\ req[r].scope \in Scopes
        /\ 1 .. req[r].scope \subseteq Scopes
    BY DEF IInv, TypeOK, Request, Scopes
  <2>3. Granted(req[r])
    BY DEF Lookups
  <2> QED BY <1>1, <1>5, <2>1, <2>2, <2>3 DEF Granted, Rights
<1> QED BY <1>1, <1>3, <1>5, <1>6 DEF Lookups

LEMMA LookupsInductive ==
  ASSUME IInv, Lookups, [Next]_vars
  PROVE  Lookups'
<1>1. ASSUME NEW r \in Requests, RequestStep(r)
      PROVE  Lookups'
  BY <1>1, EarlyLookups, FindRoleLookups, DecideLookups DEF RequestStep
<1>2. ASSUME NEW k \in Roles, NEW m \in Mappings, UpdateMapping(k, m)
      PROVE  Lookups'
  BY <1>2, UpdateLookups
<1>3. CASE UpstreamChanges \/ Tick \/ UNCHANGED vars
  BY <1>3 DEF UpstreamChanges, Tick, vars, Lookups, Granted
<1>4. CASE Restart
  <2>1. UNCHANGED <<mapping, held>>
    BY <1>4 DEF Restart
  <2>2. ASSUME NEW r \in Requests
        PROVE  \/ req'[r] = req[r]
               \/ req'[r].pc = "failed" /\ req'[r].found = NothingFound
    BY <1>4 DEF Restart, Over, IInv, TypeOK, Request
  <2>3. \A k \in Roles : NothingFound[k] = None
    BY DEF NothingFound
  <2> QED BY <2>1, <2>2, <2>3 DEF Lookups, Granted
<1> QED BY <1>1, <1>2, <1>3, <1>4 DEF Next

\* What a request was granted, some role of its user gave when it began or
\* later, though roles are looked up one by one while mappings change.
THEOREM GrantsAreCurrentHolds == Spec => []GrantsAreCurrent
<1>1. Init => IInv /\ Lookups
  BY InitTyped, TimelyInit, LookupsInit DEF IInv
<1>2. Lookups => GrantsAreCurrent
  BY DEF Lookups, Granted, GrantsAreCurrent
<1> QED BY <1>1, <1>2, IInvInductive, LookupsInductive, PTL DEF Spec
=============================================================================

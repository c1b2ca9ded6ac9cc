---------------------------- MODULE TenantSessions ----------------------------
(***************************************************************************)
(* Tenants: database connections of one pool that serve requests of        *)
(* several organisations, the settings that row-level security reads       *)
(* (persistence/db.py, deps.py), and the routers that write organisations, *)
(* memberships and stores.  A request is one transaction on one pooled     *)
(* connection; what set_config(..., true) sets ends with the transaction.  *)
(* That a policy applies at all depends on the role of the connection,     *)
(* which the deployment chooses: "enforced" stands for it.                 *)
(***************************************************************************)
EXTENDS Naturals, FiniteSets

CONSTANTS
  Requests,    \* requests, and transactions of the workers
  Calls,       \* what a request may be
  Connections, \* the pool
  Users, Orgs, Stores, Slugs, \* a request that creates a row is the row's id
  Members,     \* memberships at the start
  Existing,    \* stores at the start
  Faults,      \* {} or {"fail"}
  None

Guarded == {"list_orgs", "create_org", "invite", "list_stores", "create_store",
            "update_store", "delete_store"}
Ops == Guarded \cup {"exchange", "revoke", "admin", "inbound", "outbound"}

Settings == [org : Orgs \cup {None}, store : Stores \cup {None}, bypass : BOOLEAN]
Default  == [org |-> None, store |-> None, bypass |-> FALSE]

Roles == {"owner", "admin", "operator", "viewer"}

\* tenant, user and role are request.state's (or a worker's own), the rest
\* is the path's and the body's.
Call == [op : Ops, tenant : Settings, user : Users, role : Roles,
         org : Orgs, store : Stores, slug : Slugs]

Member   == [org : Orgs, user : Users, role : Roles]
OrgRow   == [id : Orgs, slug : Slugs \cup Orgs]
StoreRow == [id : Stores, org : Orgs, slug : Slugs, name : {"old", "new"},
             status : {"active", "deleted"}]

ASSUME TenantAssumption ==
  /\ Calls \subseteq Call
  /\ Members \subseteq Member
  /\ Existing \subseteq StoreRow
  /\ None \notin Orgs \cup Stores \cup Requests
  /\ Requests \subseteq Orgs /\ Requests \subseteq Stores
  /\ \A m \in Members : \E n \in Members : n.org = m.org /\ n.role = "owner"
  /\ \A s \in Existing : s.id \notin Requests
  /\ \A s, t \in Existing : s.id = t.id \/ (s.org = t.org /\ s.slug = t.slug) => s = t

VARIABLES
  call,        \* [Requests -> Calls]
  enforced,    \* the connections' role is subject to row-level security
  conn,        \* [Connections -> the request that holds it, or None]
  local,       \* the settings of the transaction on a connection
  session,     \* the settings of the connection itself
  orgs,        \* rows of organizations
  memberships,
  stores,
  live,        \* users with a row in auth_sessions that has not expired
  pc,          \* [Requests -> {"new", "open", "checked", "commit", "done", "failed"}]
  staged,      \* rows a request has written and not committed
  seen         \* organisations whose rows a request was given

pool  == <<conn, local, session>>
data  == <<orgs, memberships, stores, live>>
env   == <<call, enforced>>
vars  == <<env, pool, data, pc, staged, seen>>

NoRows == [orgs |-> {}, memberships |-> {}, stores |-> {}]

TypeOK ==
  /\ call \in [Requests -> Calls]
  /\ enforced \in BOOLEAN
  /\ conn \in [Connections -> Requests \cup {None}]
  /\ local \in [Connections -> Settings]
  /\ session \in [Connections -> Settings]
  /\ orgs \subseteq OrgRow
  /\ memberships \subseteq Member
  /\ stores \subseteq StoreRow
  /\ live \subseteq Users
  /\ pc \in [Requests -> {"new", "open", "checked", "commit", "done", "failed"}]
  /\ staged \in [Requests -> [orgs : SUBSET OrgRow, memberships : SUBSET Member,
                              stores : SUBSET StoreRow]]
  /\ seen \in [Requests -> SUBSET Orgs]

Init ==
  /\ call \in [Requests -> Calls]
  /\ enforced \in BOOLEAN
  /\ conn = [c \in Connections |-> None]
  /\ local = [c \in Connections |-> Default]
  /\ session = [c \in Connections |-> Default]
  /\ orgs = {[id |-> m.org, slug |-> m.org] : m \in Members}
  /\ memberships = Members
  /\ stores = Existing
  /\ live = Users
  /\ pc = [r \in Requests |-> "new"]
  /\ staged = [r \in Requests |-> NoRows]
  /\ seen = [r \in Requests |-> {}]

-----------------------------------------------------------------------------
Goto(r, p) == pc' = [pc EXCEPT ![r] = p]

Holds(r, c) == conn[c] = r
Uses(r, p) == pc[r] = p /\ \E c \in Connections : Holds(r, c)
Current(r) == local[CHOOSE c \in Connections : Holds(r, c)]

\* RLS_ORG_PREDICATE, of USING and WITH CHECK: memberships and stores.
OrgVisible(r, o) == ~enforced \/ Current(r).org = o \/ Current(r).bypass

\* require_user, RoleChecker and the comparison with the path.
Allowed(r) ==
  call[r].op \in Guarded =>
    /\ call[r].tenant.org # None
    /\ call[r].op \in {"invite", "create_store", "update_store"} => call[r].role \in {"owner", "admin"}
    /\ call[r].op = "delete_store" => call[r].role = "owner"
    /\ call[r].op \notin {"list_orgs", "create_org"} => call[r].org = call[r].tenant.org

Refuse(r) ==
  /\ pc[r] = "new"
  /\ ~Allowed(r)
  /\ Goto(r, "failed")
  /\ UNCHANGED <<env, pool, data, staged, seen>>

-----------------------------------------------------------------------------
(* The transaction around a request.                                       *)

\* Mutant: set_config(..., false), which outlives the transaction.
SetForSession(r, c) ==
  /\ local' = [local EXCEPT ![c] = call[r].tenant]
  /\ session' = [session EXCEPT ![c] = call[r].tenant]

\* set_tenant_context; db_admin sets app.bypass_rls alone.
SetContext(r, c) ==
  /\ local' = [local EXCEPT ![c] =
                 IF call[r].op = "admin" THEN [session[c] EXCEPT !.bypass = TRUE] ELSE call[r].tenant]
  /\ UNCHANGED session

\* A connection of the pool, BEGIN, and the settings.
Begin(r) ==
  /\ pc[r] = "new"
  /\ Allowed(r)
  /\ \E c \in Connections :
       /\ conn[c] = None
       /\ conn' = [conn EXCEPT ![c] = r]
       /\ SetContext(r, c)
  /\ Goto(r, "open")
  /\ UNCHANGED <<env, data, staged, seen>>

\* COMMIT or ROLLBACK, and the connection goes back to the pool.
Return(r) ==
  LET c == CHOOSE c \in Connections : Holds(r, c) IN
  /\ conn' = [conn EXCEPT ![c] = None]
  /\ local' = [local EXCEPT ![c] = session[c]]
  /\ staged' = [staged EXCEPT ![r] = NoRows]
  /\ UNCHANGED session

Ids(rows) == {x.id : x \in rows}

Commit(r) ==
  /\ Uses(r, "commit")
  /\ orgs' = orgs \cup staged[r].orgs
  /\ memberships' = memberships \cup staged[r].memberships
  /\ stores' = {s \in stores : s.id \notin Ids(staged[r].stores)} \cup staged[r].stores
  /\ live' = IF call[r].op = "revoke" THEN live \ {call[r].user} ELSE live
  /\ Return(r)
  /\ Goto(r, "done")
  /\ UNCHANGED <<env, seen>>

\* A statement raises or the handler does (404, 409): ROLLBACK.
Rollback(r) ==
  /\ Return(r)
  /\ Goto(r, "failed")
  /\ UNCHANGED <<env, data, seen>>

Fail(r) ==
  /\ "fail" \in Faults
  /\ \E p \in {"open", "checked", "commit"} : Uses(r, p)
  /\ Rollback(r)

-----------------------------------------------------------------------------
(* The handlers.                                                           *)

See(r, o) ==
  /\ seen' = [seen EXCEPT ![r] = o]
  /\ Goto(r, "commit")
  /\ UNCHANGED <<env, pool, data, staged>>

Stage(r, rows) ==
  /\ staged' = [staged EXCEPT ![r] = rows]
  /\ Goto(r, "commit")
  /\ UNCHANGED <<env, pool, data, seen>>

\* list_orgs, and the memberships of exchange_session
VisibleMemberships(r) ==
  {m.org : m \in {m \in memberships : m.user = call[r].user /\ OrgVisible(r, m.org)}}

ListOrgs(r) ==
  /\ Uses(r, "open") /\ call[r].op = "list_orgs"
  /\ See(r, VisibleMemberships(r))

Exchange(r) ==
  /\ Uses(r, "open") /\ call[r].op = "exchange"
  /\ IF call[r].user \in live THEN See(r, VisibleMemberships(r)) ELSE Rollback(r)

ListStores(r) ==
  /\ Uses(r, "open") /\ call[r].op = "list_stores"
  /\ See(r, {s.org : s \in {s \in stores : /\ s.org = call[r].org /\ s.status # "deleted"
                                           /\ OrgVisible(r, s.org)}})

\* The workers look their store up: inbound under app.current_store alone.
LookUpStore(r) ==
  /\ Uses(r, "open") /\ call[r].op \in {"inbound", "outbound"}
  /\ See(r, {s.org : s \in {s \in stores : s.id = call[r].tenant.store /\ OrgVisible(r, s.org)}})

\* A DELETE of auth_sessions, the INSERT of an invitation's token, which
\* nothing here reads, and the statements of db_admin (WebhookEvents).
Other(r) ==
  /\ Uses(r, "open") /\ call[r].op \in {"revoke", "invite", "admin"}
  /\ Stage(r, NoRows)

\* create_org: SELECT 1 FROM organizations WHERE slug,
CheckSlug(r) ==
  /\ Uses(r, "open") /\ call[r].op = "create_org"
  /\ IF \E o \in orgs : o.slug = call[r].slug
     THEN Rollback(r)
     ELSE Goto(r, "checked") /\ UNCHANGED <<env, pool, data, staged, seen>>

\* Mutant: no unique key on the slug.
SlugFreeUnchecked(r) == TRUE

\* The unique slug, once no other transaction holds it uncommitted.
SlugFree(r) == \A o \in orgs : o.slug # call[r].slug

SlugWaits(r) == \E q \in Requests \ {r} : \E o \in staged[q].orgs : o.slug = call[r].slug

\* Mutant: the refused membership is ignored.
InsertOrgAlone(r) ==
  /\ Uses(r, "checked")
  /\ ~SlugWaits(r)
  /\ IF SlugFree(r)
     THEN Stage(r, [NoRows EXCEPT
            !.orgs = {[id |-> r, slug |-> call[r].slug]},
            !.memberships = IF OrgVisible(r, r)
                            THEN {[org |-> r, user |-> call[r].user, role |-> "owner"]} ELSE {}])
     ELSE Rollback(r)

\* then the organisation and its owner.  The membership is not of the
\* caller's current organisation: WITH CHECK admits it only under a bypass.
InsertOrg(r) ==
  /\ Uses(r, "checked")
  /\ ~SlugWaits(r)
  /\ IF SlugFree(r) /\ OrgVisible(r, r)
     THEN Stage(r, [NoRows EXCEPT
            !.orgs = {[id |-> r, slug |-> call[r].slug]},
            !.memberships = {[org |-> r, user |-> call[r].user, role |-> "owner"]}])
     ELSE Rollback(r)

SameSlug(s, r) == s.org = call[r].org /\ s.slug = call[r].slug

InsertStore(r) ==
  /\ Uses(r, "open") /\ call[r].op = "create_store"
  /\ ~ \E q \in Requests \ {r} : \E s \in staged[q].stores : SameSlug(s, r)
  /\ IF OrgVisible(r, call[r].org) /\ ~ \E s \in stores : SameSlug(s, r)
     THEN Stage(r, [NoRows EXCEPT !.stores =
            {[id |-> r, org |-> call[r].org, slug |-> call[r].slug, name |-> "old", status |-> "active"]}])
     ELSE Rollback(r)

\* Mutant: the store is found by its id alone.
MatchesId(r, s) == s.id = call[r].store /\ OrgVisible(r, s.org)

\* WHERE id = :sid AND org_id = :org
Matches(r, s) == s.id = call[r].store /\ s.org = call[r].org /\ OrgVisible(r, s.org)

StoreLocked(r) == \E q \in Requests \ {r} : call[r].store \in Ids(staged[q].stores)

\* No field of StoreUpdate is the status; no row is a 404.
UpdateStore(r) ==
  /\ Uses(r, "open") /\ call[r].op = "update_store"
  /\ ~StoreLocked(r)
  /\ LET rows == {s \in stores : Matches(r, s) /\ s.status # "deleted"} IN
     IF rows = {} THEN Rollback(r)
     ELSE Stage(r, [NoRows EXCEPT !.stores = {[s EXCEPT !.name = "new"] : s \in rows}])

DeleteStore(r) ==
  /\ Uses(r, "open") /\ call[r].op = "delete_store"
  /\ ~StoreLocked(r)
  /\ Stage(r, [NoRows EXCEPT !.stores =
                 {[s EXCEPT !.status = "deleted"] : s \in {s \in stores : Matches(r, s)}}])

Handle(r) ==
  \/ ListOrgs(r) \/ Exchange(r) \/ ListStores(r) \/ LookUpStore(r) \/ Other(r)
  \/ CheckSlug(r) \/ InsertOrg(r) \/ InsertStore(r) \/ UpdateStore(r) \/ DeleteStore(r)

Next == \E r \in Requests : Refuse(r) \/ Begin(r) \/ Handle(r) \/ Commit(r) \/ Fail(r)

Spec == Init /\ [][Next]_vars
-----------------------------------------------------------------------------
(* A request runs under its own settings and nothing else, whatever request  *)
(* had the connection before it and however that one ended; also db_admin,   *)
(* which sets one of the settings and inherits the rest.                     *)
OwnContext ==
  \A c \in Connections :
    IF conn[c] = None THEN local[c] = Default
    ELSE local[c] = IF call[conn[c]].op = "admin" THEN [Default EXCEPT !.bypass = TRUE]
                    ELSE call[conn[c]].tenant

(* With or without row-level security an organisation is never stored        *)
(* without an owner: when the membership is refused, nothing is stored.      *)
EveryOrgHasOwner ==
  \A o \in orgs : \E m \in memberships : m.org = o.id /\ m.role = "owner"

(* Two requests that both found a slug free do not both take it, nor do two  *)
(* stores of an organisation.                                                *)
SlugsUnique ==
  /\ \A o, p \in orgs : o.slug = p.slug => o = p
  /\ \A s, t \in stores : s.org = t.org /\ s.slug = t.slug => s = t

(* The store of another organisation is never written, with row-level        *)
(* security or without it, and deleted is final, also for an update that     *)
(* waited for the delete.                                                    *)
StoresOfOwnOrg ==
  [][\A s \in stores \ stores' :
       /\ s.status # "deleted"
       /\ \E r \in Requests : pc[r] # pc'[r] /\ call[r].tenant.org = s.org]_vars
=============================================================================

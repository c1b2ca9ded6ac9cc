------------------------- MODULE TenantSessions_proofs -------------------------
(***************************************************************************)
(* Tenants, for any number of requests, connections and organisations, and *)
(* with or without row-level security.                                     *)
(* OwnContext holds inductively once a connection is known to serve one    *)
(* request, a request to have one connection, and no setting to outlive a  *)
(* transaction (PoolInv).                                                  *)
(* The properties of the rows need to know what an uncommitted row may be: *)
(* a new organisation comes with its owner, a new slug is free of every    *)
(* committed and uncommitted row, and any other row of stores is a version *)
(* of a committed one of the caller's organisation, which nobody else has  *)
(* locked (OrgInv, StoreInv).                                              *)
(***************************************************************************)
EXTENDS TenantSessions, TLAPS

Busy == {"open", "checked", "commit"}

Types ==
  /\ call \in [Requests -> Calls]
  /\ conn \in [Connections -> Requests \cup {None}]
  /\ local \in [Connections -> Settings]
  /\ session \in [Connections -> Settings]
  /\ pc \in [Requests -> {"new", "open", "checked", "commit", "done", "failed"}]
  /\ DOMAIN staged = Requests

Context(r) ==
  IF call[r].op = "admin" THEN [Default EXCEPT !.bypass = TRUE] ELSE call[r].tenant

PoolInv ==
  /\ Types
  /\ OwnContext
  /\ \A c \in Connections : session[c] = Default
  /\ \A c, d \in Connections : conn[c] = conn[d] /\ conn[c] # None => c = d
  /\ \A c \in Connections : conn[c] # None => pc[conn[c]] \in Busy

-----------------------------------------------------------------------------
(* Connections.                                                            *)

LEMMA CallTypes ==
  ASSUME Types, NEW r \in Requests
  PROVE  /\ r # None /\ call[r] \in Call /\ call[r].tenant \in Settings
         /\ Context(r) \in Settings
<1>1. r # None /\ call[r] \in Call
  BY TenantAssumption DEF Types
<1>2. call[r].tenant \in Settings
  BY <1>1 DEF Call
<1>3. [Default EXCEPT !.bypass = TRUE] \in Settings
  BY DEF Default, Settings
<1> QED
  BY <1>1, <1>2, <1>3 DEF Context

\* What a request does between BEGIN and its end, and how it ends.
Stays(r) ==
  /\ UNCHANGED <<env, pool, data>>
  /\ pc' = [pc EXCEPT ![r] = pc'[r]] /\ pc'[r] \in Busy

Leaves(r) ==
  /\ \E c \in Connections : conn[c] = r
  /\ Return(r)
  /\ pc' = [pc EXCEPT ![r] = pc'[r]] /\ pc'[r] \in {"done", "failed"}
  /\ UNCHANGED env

LEMMA HandleStays ==
  ASSUME Types, NEW r \in Requests, Handle(r), ~Rollback(r)
  PROVE  Stays(r)
  BY DEF Handle, ListOrgs, Exchange, ListStores, LookUpStore, Other, CheckSlug, InsertOrg,
         InsertStore, UpdateStore, DeleteStore, See, Stage, Goto, Stays, Types, Busy

LEMMA EndLeaves ==
  ASSUME Types, NEW r \in Requests, Commit(r) \/ Fail(r) \/ (Handle(r) /\ Rollback(r))
  PROVE  Leaves(r)
<1>1. \E c \in Connections : conn[c] = r
  BY DEF Commit, Fail, Handle, ListOrgs, Exchange, ListStores, LookUpStore, Other, CheckSlug,
         InsertOrg, InsertStore, UpdateStore, DeleteStore, Uses, Holds
<1>2. Return(r) /\ UNCHANGED env
  BY DEF Commit, Fail, Rollback
<1>3. pc' = [pc EXCEPT ![r] = pc'[r]] /\ pc'[r] \in {"done", "failed"}
  BY DEF Commit, Fail, Rollback, Goto, Types
<1> QED
  BY <1>1, <1>2, <1>3 DEF Leaves

LEMMA LeavesPool ==
  ASSUME PoolInv, NEW r \in Requests, Leaves(r)
  PROVE  PoolInv'
<1> DEFINE c == CHOOSE d \in Connections : Holds(r, d)
<1>1. c \in Connections /\ conn[c] = r
  BY DEF Leaves, Holds
<1>2. /\ conn' = [conn EXCEPT ![c] = None] /\ local' = [local EXCEPT ![c] = session[c]]
      /\ session' = session /\ staged' = [staged EXCEPT ![r] = NoRows] /\ call' = call
  BY DEF Leaves, Return, env
<1> HIDE DEF c
<1>3. \A d \in Connections \ {c} : conn'[d] = conn[d] /\ local'[d] = local[d] /\ conn[d] # r
  BY <1>1, <1>2, CallTypes DEF PoolInv, Types
<1>4. conn'[c] = None /\ local'[c] = Default
  BY <1>1, <1>2 DEF PoolInv, Types
<1>5. \A q \in Requests \ {r} : pc'[q] = pc[q]
  BY DEF Leaves, PoolInv, Types
<1>6. Types'
  BY <1>2 DEF PoolInv, Types, Leaves
<1>7. OwnContext'
  <2>1. \A d \in Connections \ {c} :
          IF conn'[d] = None THEN local'[d] = Default ELSE local'[d] = Context(conn'[d])
    BY <1>3 DEF PoolInv, OwnContext, Context
  <2>2. conn'[c] = None /\ local'[c] = Default /\ call' = call
    BY <1>2, <1>4
  <2> QED
    BY <2>1, <2>2 DEF OwnContext, Context
<1>8. \A d \in Connections : conn'[d] # None => pc'[conn'[d]] \in Busy
  BY <1>3, <1>4, <1>5 DEF PoolInv, Types
<1> QED
  BY <1>1, <1>2, <1>3, <1>4, <1>6, <1>7, <1>8 DEF PoolInv

LEMMA StaysPool ==
  ASSUME PoolInv, NEW r \in Requests, Stays(r), DOMAIN staged' = Requests
  PROVE  PoolInv'
<1>1. UNCHANGED <<call, conn, local, session>>
  BY DEF Stays, env, pool
<1>2. pc'[r] \in Busy /\ \A q \in Requests \ {r} : pc'[q] = pc[q]
  BY DEF Stays, PoolInv, Types
<1>3. Types'
  BY <1>1 DEF PoolInv, Types, Stays, Busy
<1>4. OwnContext'
  BY <1>1 DEF PoolInv, OwnContext
<1>5. \A d \in Connections : conn'[d] # None => pc'[conn'[d]] \in Busy
  BY <1>1, <1>2 DEF PoolInv, Types
<1> QED
  BY <1>1, <1>3, <1>4, <1>5 DEF PoolInv

LEMMA BeginPool ==
  ASSUME PoolInv, NEW r \in Requests, Begin(r)
  PROVE  PoolInv'
<1>1. PICK c \in Connections : /\ conn[c] = None
                               /\ conn' = [conn EXCEPT ![c] = r]
                               /\ SetContext(r, c)
  BY DEF Begin
<1>2. /\ call' = call /\ session' = session /\ staged' = staged /\ pc[r] = "new"
      /\ pc' = [pc EXCEPT ![r] = "open"]
  BY <1>1 DEF Begin, SetContext, Goto, env
<1>3. local' = [local EXCEPT ![c] = Context(r)]
  BY <1>1 DEF SetContext, Context, PoolInv
<1>4. \A d \in Connections \ {c} : conn'[d] = conn[d] /\ local'[d] = local[d] /\ conn[d] # r
  BY <1>1, <1>2, <1>3, CallTypes DEF PoolInv, Types, Busy
<1>5. conn'[c] = r /\ local'[c] = Context(r)
  BY <1>1, <1>3 DEF PoolInv, Types
<1>6. pc'[r] = "open" /\ \A q \in Requests \ {r} : pc'[q] = pc[q]
  BY <1>2 DEF PoolInv, Types
<1>7. Types'
  BY <1>1, <1>2, <1>3, CallTypes DEF PoolInv, Types
<1>8. OwnContext'
  <2>1. \A d \in Connections \ {c} :
          IF conn'[d] = None THEN local'[d] = Default ELSE local'[d] = Context(conn'[d])
    BY <1>4 DEF PoolInv, OwnContext, Context
  <2>2. conn'[c] # None /\ local'[c] = Context(conn'[c])
    BY <1>5, CallTypes DEF PoolInv
  <2> QED
    BY <1>2, <2>1, <2>2 DEF OwnContext, Context
<1>9. \A d \in Connections : conn'[d] # None => pc'[conn'[d]] \in Busy
  BY <1>4, <1>5, <1>6 DEF PoolInv, Types, Busy
<1> QED
  BY <1>2, <1>4, <1>5, <1>7, <1>8, <1>9 DEF PoolInv

LEMMA PoolStep ==
  ASSUME PoolInv, [Next]_vars
  PROVE  PoolInv'
<1>1. ASSUME NEW r \in Requests, Handle(r), ~Rollback(r) PROVE PoolInv'
  <2>1. DOMAIN staged' = Requests
    BY <1>1 DEF Handle, ListOrgs, Exchange, ListStores, LookUpStore, Other, CheckSlug, InsertOrg,
         InsertStore, UpdateStore, DeleteStore, See, Stage, PoolInv, Types
  <2> QED
    BY <1>1, <2>1, HandleStays, StaysPool DEF PoolInv
<1>2. ASSUME NEW r \in Requests, Commit(r) \/ Fail(r) \/ (Handle(r) /\ Rollback(r)) PROVE PoolInv'
  BY <1>2, EndLeaves, LeavesPool DEF PoolInv
<1>3. ASSUME NEW r \in Requests, Refuse(r) PROVE PoolInv'
  <2>1. UNCHANGED <<call, conn, local, session, staged>> /\ pc[r] = "new"
        /\ pc' = [pc EXCEPT ![r] = "failed"]
    BY <1>3 DEF Refuse, Goto, env, pool
  <2> QED
    BY <2>1 DEF PoolInv, Types, OwnContext, Busy
<1>4. CASE UNCHANGED vars
  BY <1>4 DEF vars, env, pool, PoolInv, Types, OwnContext
<1> QED
  BY <1>1, <1>2, <1>3, <1>4, BeginPool DEF Next

LEMMA PoolInit ==
  ASSUME Init
  PROVE  PoolInv
<1>1. Default \in Settings
  BY DEF Default, Settings
<1> QED
  BY <1>1 DEF Init, PoolInv, Types, OwnContext

LEMMA PoolInvHolds == Spec => []PoolInv
<1>1. Init => PoolInv
  BY PoolInit
<1>2. PoolInv /\ [Next]_vars => PoolInv'
  BY PoolStep
<1> QED
  BY <1>1, <1>2, PTL DEF Spec

(* A statement runs under the settings of its own request, for any size of   *)
(* the pool and whichever requests fail: set_config(..., true) leaves nothing *)
(* behind, so also db_admin inherits nothing.                                *)
THEOREM EveryRequestInOwnContext == Spec => []OwnContext
<1>1. PoolInv => OwnContext
  BY DEF PoolInv
<1> QED
  BY <1>1, PoolInvHolds, PTL

-----------------------------------------------------------------------------
(* Organisations.                                                          *)

NewOrg(r) == [id |-> r, slug |-> call[r].slug]
Owner(r)  == [org |-> r, user |-> call[r].user, role |-> "owner"]

StagesOrg(r) == staged[r].orgs # {}

OrgStaged(r) ==
  /\ pc[r] # "commit" => staged[r] = NoRows
  /\ StagesOrg(r) => /\ staged[r].orgs = {NewOrg(r)}
                     /\ Owner(r) \in staged[r].memberships
                     /\ SlugFree(r)

OrgInv ==
  /\ \A o, p \in orgs : o.slug = p.slug => o = p
  /\ EveryOrgHasOwner
  /\ \A r \in Requests : OrgStaged(r)
  /\ \A r, q \in Requests : r # q /\ StagesOrg(r) /\ StagesOrg(q) => call[r].slug # call[q].slug

\* A step that neither stages nor commits an organisation.
OrgKept(r) ==
  /\ UNCHANGED <<call, orgs, memberships>>
  /\ \A q \in Requests \ {r} : pc'[q] = pc[q] /\ staged'[q] = staged[q]
  /\ pc'[r] # "commit" => staged'[r] = NoRows
  /\ staged'[r].orgs = {}

LEMMA OrgKeptStep ==
  ASSUME OrgInv, NEW r \in Requests, OrgKept(r)
  PROVE  OrgInv'
<1>1. UNCHANGED <<call, orgs, memberships>>
  BY DEF OrgKept
<1>2. OrgStaged(r)' /\ ~StagesOrg(r)'
  BY DEF OrgKept, OrgStaged, StagesOrg
<1>3. ASSUME NEW q \in Requests \ {r} PROVE OrgStaged(q)' /\ (StagesOrg(q)' <=> StagesOrg(q))
  BY <1>1, <1>3 DEF OrgKept, OrgInv, OrgStaged, StagesOrg, NewOrg, Owner, SlugFree
<1> QED
  BY <1>1, <1>2, <1>3 DEF OrgInv, EveryOrgHasOwner

LEMMA InsertOrgStep ==
  ASSUME PoolInv, OrgInv, NEW r \in Requests, InsertOrg(r), ~Rollback(r)
  PROVE  OrgInv'
<1> DEFINE new == [NoRows EXCEPT !.orgs = {NewOrg(r)}, !.memberships = {Owner(r)}]
<1>1. SlugFree(r) /\ ~SlugWaits(r) /\ staged' = [staged EXCEPT ![r] = new]
      /\ pc' = [pc EXCEPT ![r] = "commit"] /\ UNCHANGED <<call, orgs, memberships>>
  BY DEF InsertOrg, Stage, Goto, NewOrg, Owner, env, data
<1>2. new.orgs = {NewOrg(r)} /\ new.memberships = {Owner(r)}
  BY DEF NoRows
<1> HIDE DEF new
<1>3. /\ staged'[r] = new /\ pc'[r] = "commit"
      /\ \A q \in Requests \ {r} : pc'[q] = pc[q] /\ staged'[q] = staged[q]
  BY <1>1 DEF PoolInv, Types
<1>4. OrgStaged(r)'
  BY <1>1, <1>2, <1>3 DEF OrgStaged, NewOrg, Owner, SlugFree
<1>5. ASSUME NEW q \in Requests \ {r} PROVE OrgStaged(q)' /\ (StagesOrg(q)' <=> StagesOrg(q))
  BY <1>1, <1>3, <1>5 DEF OrgInv, OrgStaged, StagesOrg, NewOrg, Owner, SlugFree
<1>6. ASSUME NEW q \in Requests \ {r}, StagesOrg(q) PROVE call[q].slug # call[r].slug
  <2>1. NewOrg(q) \in staged[q].orgs
    BY <1>6 DEF OrgInv, OrgStaged
  <2> QED
    BY <1>1, <2>1 DEF SlugWaits, NewOrg
<1> QED
  BY <1>1, <1>4, <1>5, <1>6 DEF OrgInv, EveryOrgHasOwner

LEMMA CommitOrg ==
  ASSUME PoolInv, OrgInv, NEW r \in Requests, Commit(r)
  PROVE  OrgInv'
<1>1. /\ orgs' = orgs \cup staged[r].orgs
      /\ memberships' = memberships \cup staged[r].memberships
      /\ staged' = [staged EXCEPT ![r] = NoRows] /\ pc' = [pc EXCEPT ![r] = "done"]
      /\ call' = call
  BY DEF Commit, Return, Goto, env
<1>2. /\ staged'[r] = NoRows
      /\ \A q \in Requests \ {r} : pc'[q] = pc[q] /\ staged'[q] = staged[q]
  BY <1>1 DEF PoolInv, Types
<1>3. NoRows.orgs = {}
  BY DEF NoRows
<1>4. \A o \in staged[r].orgs : o = NewOrg(r) /\ Owner(r) \in staged[r].memberships /\ SlugFree(r)
  BY DEF OrgInv, OrgStaged, StagesOrg
<1>5. \A o, p \in orgs' : o.slug = p.slug => o = p
  BY <1>1, <1>4 DEF OrgInv, NewOrg, SlugFree
<1>6. EveryOrgHasOwner'
  BY <1>1, <1>4 DEF OrgInv, EveryOrgHasOwner, NewOrg, Owner
<1>7. OrgStaged(r)' /\ ~StagesOrg(r)'
  BY <1>2, <1>3 DEF OrgStaged, StagesOrg
<1>8. ASSUME NEW q \in Requests \ {r} PROVE OrgStaged(q)' /\ (StagesOrg(q)' <=> StagesOrg(q))
  <2>1. StagesOrg(q)' <=> StagesOrg(q)
    BY <1>2 DEF StagesOrg
  <2>2. ASSUME StagesOrg(q) PROVE SlugFree(q)'
    <3>1. \A o \in staged[r].orgs : o.slug # call[q].slug
      BY <1>4, <1>8, <2>2 DEF OrgInv, StagesOrg, NewOrg
    <3>2. \A o \in orgs : o.slug # call[q].slug
      BY <1>8, <2>2 DEF OrgInv, OrgStaged, SlugFree
    <3> QED
      BY <1>1, <3>1, <3>2 DEF SlugFree
  <2> QED
    BY <1>1, <1>2, <1>8, <2>1, <2>2 DEF OrgInv, OrgStaged, NewOrg, Owner
<1> QED
  BY <1>1, <1>5, <1>6, <1>7, <1>8 DEF OrgInv

LEMMA OrgStep ==
  ASSUME PoolInv, OrgInv, [Next]_vars
  PROVE  OrgInv'
<1> DEFINE noOrgs(rows) == rows.orgs = {}
<1>1. NoRows.orgs = {} /\ \A S : [NoRows EXCEPT !.stores = S].orgs = {}
  BY DEF NoRows
<1>2. ASSUME NEW r \in Requests, Rollback(r) PROVE OrgInv'
  <2>1. OrgKept(r)
    BY <1>1, <1>2 DEF Rollback, Return, Goto, OrgKept, env, data, PoolInv, Types
  <2> QED
    BY <2>1, OrgKeptStep
<1>3. ASSUME NEW r \in Requests, Begin(r) \/ Refuse(r) PROVE OrgInv'
  <2>1. staged[r] = NoRows
    BY <1>3 DEF Begin, Refuse, OrgInv, OrgStaged
  <2>2. OrgKept(r)
    BY <1>1, <1>3, <2>1 DEF Begin, Refuse, Goto, OrgKept, env, data, PoolInv, Types
  <2> QED
    BY <2>2, OrgKeptStep
<1>4. ASSUME NEW r \in Requests, Handle(r), ~InsertOrg(r), ~Rollback(r) PROVE OrgInv'
  <2>1. staged[r] = NoRows
    BY <1>4 DEF Handle, ListOrgs, Exchange, ListStores, LookUpStore, Other, CheckSlug,
                InsertStore, UpdateStore, DeleteStore, Uses, OrgInv, OrgStaged
  <2>2. UNCHANGED <<call, orgs, memberships>>
    BY <1>4, HandleStays DEF Stays, env, data, PoolInv
  <2>3. \A q \in Requests \ {r} : pc'[q] = pc[q]
    BY <1>4, HandleStays DEF Stays, PoolInv, Types
  <2>4. CASE ListOrgs(r) \/ Exchange(r) \/ ListStores(r) \/ LookUpStore(r) \/ CheckSlug(r)
    <3>1. staged' = staged
      BY <1>4, <2>4 DEF ListOrgs, Exchange, ListStores, LookUpStore, CheckSlug, See
    <3> QED
      BY <1>1, <2>1, <2>2, <2>3, <3>1, OrgKeptStep DEF OrgKept
  <2>5. CASE Other(r) \/ InsertStore(r) \/ UpdateStore(r) \/ DeleteStore(r)
    <3>1. PICK rows : Stage(r, rows) /\ rows.orgs = {}
      BY <1>1, <1>4, <2>5 DEF Other, InsertStore, UpdateStore, DeleteStore
    <3>2. /\ staged'[r].orgs = {} /\ pc'[r] = "commit"
          /\ \A q \in Requests \ {r} : staged'[q] = staged[q]
      BY <3>1 DEF Stage, Goto, PoolInv, Types
    <3> QED
      BY <2>2, <2>3, <3>2, OrgKeptStep DEF OrgKept
  <2> QED
    BY <1>4, <2>4, <2>5 DEF Handle
<1>5. CASE UNCHANGED vars
  BY <1>5 DEF vars, env, data, OrgInv, OrgStaged, StagesOrg, NewOrg, Owner, SlugFree,
              EveryOrgHasOwner
<1> QED
  BY <1>2, <1>3, <1>4, <1>5, InsertOrgStep, CommitOrg DEF Next, Fail

LEMMA OrgInit ==
  ASSUME Init
  PROVE  OrgInv
<1>1. NoRows.orgs = {}
  BY DEF NoRows
<1>2. \A o \in orgs : \E m \in Members : o = [id |-> m.org, slug |-> m.org]
  BY DEF Init
<1>3. memberships = Members
  BY DEF Init
<1>4. EveryOrgHasOwner
  BY <1>2, <1>3, TenantAssumption DEF EveryOrgHasOwner
<1>5. \A r \in Requests : staged[r] = NoRows
  BY DEF Init
<1> QED
  BY <1>1, <1>2, <1>4, <1>5 DEF OrgInv, OrgStaged, StagesOrg

LEMMA OrgInvHolds == Spec => []OrgInv
<1>1. Init => OrgInv
  BY OrgInit
<1>2. PoolInv /\ OrgInv /\ [Next]_vars => OrgInv'
  BY OrgStep
<1> QED
  BY <1>1, <1>2, PoolInvHolds, PTL DEF Spec

(* No organisation is stored without an owner, for any number of requests    *)
(* that create one and whichever of their statements row-level security or   *)
(* the database refuses.                                                     *)
THEOREM OrganisationsHaveOwners == Spec => []EveryOrgHasOwner
<1>1. OrgInv => EveryOrgHasOwner
  BY DEF OrgInv
<1> QED
  BY <1>1, OrgInvHolds, PTL

-----------------------------------------------------------------------------
(* Stores.                                                                 *)

NewStore(r) == [id |-> r, org |-> call[r].org, slug |-> call[r].slug, name |-> "old",
                status |-> "active"]

SameKey(s, t) == s.org = t.org /\ s.slug = t.slug

\* A version of a committed row of the caller's organisation, or a new row
\* whose key is free.
VersionOf(r, s) ==
  \E t \in stores : /\ t.id = s.id /\ SameKey(t, s)
                    /\ t.org = call[r].tenant.org
                    /\ t.status = "deleted" => s = t

NewRow(r, s) == s.id = r /\ \A t \in stores : ~SameKey(s, t)

StoreStaged(r) ==
  /\ pc[r] # "commit" => staged[r] = NoRows
  /\ \A s \in staged[r].stores : VersionOf(r, s) \/ NewRow(r, s)
  /\ \A s, t \in staged[r].stores : s = t
  /\ staged[r].stores \subseteq StoreRow
  /\ pc[r] \notin {"new", "failed"} => Allowed(r)

StoresApart ==
  \A r, q \in Requests : r # q =>
    \A s \in staged[r].stores, t \in staged[q].stores : s.id # t.id /\ ~SameKey(s, t)

StoreInv ==
  /\ stores \subseteq StoreRow
  /\ \A s, t \in stores : s.id = t.id \/ SameKey(s, t) => s = t
  /\ \A s \in stores : s.id \in Requests => pc[s.id] = "done"
  /\ \A r \in Requests : StoreStaged(r)
  /\ StoresApart

\* A step that neither stages nor commits a row of stores.
StoreKept(r) ==
  /\ UNCHANGED <<call, stores>>
  /\ \A q \in Requests \ {r} : pc'[q] = pc[q] /\ staged'[q] = staged[q]
  /\ pc[r] # "done" /\ (pc'[r] # "commit" => staged'[r] = NoRows)
  /\ staged'[r].stores = {}
  /\ pc'[r] \notin {"new", "failed"} => Allowed(r)

LEMMA StoreKeptStep ==
  ASSUME StoreInv, NEW r \in Requests, StoreKept(r)
  PROVE  StoreInv'
<1>1. UNCHANGED <<call, stores>>
  BY DEF StoreKept
<1>2. StoreStaged(r)'
  BY <1>1 DEF StoreKept, StoreStaged, Allowed
<1>3. ASSUME NEW q \in Requests \ {r} PROVE StoreStaged(q)'
  BY <1>1, <1>3 DEF StoreKept, StoreInv, StoreStaged, VersionOf, NewRow, SameKey, Allowed
<1>4. StoresApart'
  BY DEF StoreKept, StoreInv, StoresApart, SameKey
<1>5. \A s \in stores' : s.id \in Requests => pc'[s.id] = "done"
  BY <1>1 DEF StoreKept, StoreInv
<1> QED
  BY <1>1, <1>2, <1>3, <1>4, <1>5 DEF StoreInv, SameKey

\* A row is staged: alone, free or a version, and apart from all others.
LEMMA StageStoreStep ==
  ASSUME PoolInv, StoreInv, NEW r \in Requests, pc[r] = "open", NEW rows, Stage(r, rows),
         \A s \in rows.stores : VersionOf(r, s) \/ NewRow(r, s),
         \A s, t \in rows.stores : s = t,
         rows.stores \subseteq StoreRow,
         \A q \in Requests \ {r} : \A s \in rows.stores, t \in staged[q].stores :
           s.id # t.id /\ ~SameKey(s, t)
  PROVE  StoreInv'
<1>1. /\ staged' = [staged EXCEPT ![r] = rows] /\ pc' = [pc EXCEPT ![r] = "commit"]
      /\ UNCHANGED <<call, stores>>
  BY DEF Stage, Goto, env, data
<1>2. /\ staged'[r] = rows /\ pc'[r] = "commit"
      /\ \A q \in Requests \ {r} : pc'[q] = pc[q] /\ staged'[q] = staged[q]
  BY <1>1 DEF PoolInv, Types
<1>3. Allowed(r)
  BY DEF StoreInv, StoreStaged
<1>4. StoreStaged(r)'
  BY <1>1, <1>2, <1>3 DEF StoreStaged, VersionOf, NewRow, SameKey, Allowed
<1>5. ASSUME NEW q \in Requests \ {r} PROVE StoreStaged(q)'
  BY <1>1, <1>2, <1>5 DEF StoreInv, StoreStaged, VersionOf, NewRow, SameKey, Allowed
<1>6. StoresApart'
  BY <1>2 DEF StoreInv, StoresApart, SameKey
<1>7. \A s \in stores' : s.id \in Requests => pc'[s.id] = "done"
  BY <1>1, <1>2 DEF StoreInv
<1> QED
  BY <1>1, <1>4, <1>5, <1>6, <1>7 DEF StoreInv, SameKey

LEMMA InsertStoreStep ==
  ASSUME PoolInv, StoreInv, NEW r \in Requests, InsertStore(r), ~Rollback(r)
  PROVE  StoreInv'
<1> DEFINE rows == [NoRows EXCEPT !.stores = {NewStore(r)}]
<1>1. pc[r] = "open" /\ Stage(r, rows) /\ \A s \in stores : ~SameSlug(s, r)
  BY DEF InsertStore, Uses, NewStore
<1>2. rows.stores = {NewStore(r)} /\ NewStore(r).id = r
      /\ NewStore(r).org = call[r].org /\ NewStore(r).slug = call[r].slug
  BY DEF NoRows, NewStore
<1>3. NewRow(r, NewStore(r))
  BY <1>1, <1>2 DEF NewRow, SameKey, SameSlug
<1>4. ASSUME NEW q \in Requests \ {r}, NEW t \in staged[q].stores
      PROVE  r # t.id /\ ~SameKey(NewStore(r), t)
  <2>1. ~SameSlug(t, r)
    BY <1>4 DEF InsertStore
  <2>2. r # t.id
    <3>1. VersionOf(q, t) \/ t.id = q
      BY <1>4 DEF StoreInv, StoreStaged, NewRow
    <3>2. \A s \in stores : s.id # r
      BY <1>1 DEF StoreInv
    <3> QED
      BY <1>4, <3>1, <3>2 DEF VersionOf
  <2> QED
    BY <1>2, <2>1, <2>2 DEF SameKey, SameSlug
<1>5. rows.stores \subseteq StoreRow
  <2>1. call[r].org \in Orgs /\ call[r].slug \in Slugs /\ r \in Stores
    BY CallTypes, TenantAssumption DEF PoolInv, Call
  <2> QED
    BY <1>2, <2>1 DEF NewStore, StoreRow
<1> HIDE DEF rows
<1> QED
  BY <1>1, <1>2, <1>3, <1>4, <1>5, StageStoreStep

\* An update or a deletion: of the one committed row that matches.
LEMMA VersionStep ==
  ASSUME PoolInv, StoreInv, NEW r \in Requests, UpdateStore(r) \/ DeleteStore(r), ~Rollback(r)
  PROVE  StoreInv'
<1>1. PICK rows : /\ Stage(r, rows)
                  /\ \A s \in rows.stores : \E t \in stores :
                       /\ Matches(r, t) /\ t.id = s.id /\ SameKey(t, s)
                       /\ t.status = "deleted" => s = t
                  /\ \A s, t \in rows.stores : s = t
                  /\ rows.stores \subseteq StoreRow
  <2>0. stores \subseteq StoreRow
    BY DEF StoreInv
  <2>1. CASE UpdateStore(r)
    <3> DEFINE hits == {s \in stores : Matches(r, s) /\ s.status # "deleted"}
               new  == {[s EXCEPT !.name = "new"] : s \in hits}
               R    == [NoRows EXCEPT !.stores = new]
    <3>1. Stage(r, R)
      BY <2>1 DEF UpdateStore
    <3>2. R.stores = new
      BY DEF NoRows
    <3>3. ASSUME NEW s \in StoreRow
          PROVE  /\ [s EXCEPT !.name = "new"] \in StoreRow /\ [s EXCEPT !.name = "new"].id = s.id
                 /\ SameKey(s, [s EXCEPT !.name = "new"])
      BY <3>3 DEF SameKey, StoreRow
    <3>4. \A s \in new : \E t \in stores :
            /\ Matches(r, t) /\ t.id = s.id /\ SameKey(t, s)
            /\ t.status = "deleted" => s = t
      BY <2>0, <3>3
    <3>5. \A s, t \in new : s = t
      BY DEF Matches, StoreInv
    <3>6. new \subseteq StoreRow
      BY <2>0, <3>3
    <3> HIDE DEF new, hits, R
    <3> QED
      BY <3>1, <3>2, <3>4, <3>5, <3>6
  <2>2. CASE DeleteStore(r)
    <3> DEFINE mine == {s \in stores : Matches(r, s)}
               new  == {[s EXCEPT !.status = "deleted"] : s \in mine}
               R    == [NoRows EXCEPT !.stores = new]
    <3>1. Stage(r, R)
      BY <2>2 DEF DeleteStore
    <3>2. R.stores = new
      BY DEF NoRows
    <3>3. ASSUME NEW s \in StoreRow
          PROVE  /\ [s EXCEPT !.status = "deleted"] \in StoreRow /\ [s EXCEPT !.status = "deleted"].id = s.id
                 /\ SameKey(s, [s EXCEPT !.status = "deleted"])
                 /\ s.status = "deleted" => [s EXCEPT !.status = "deleted"] = s
      BY <3>3 DEF SameKey, StoreRow
    <3>4. \A s \in new : \E t \in stores :
            /\ Matches(r, t) /\ t.id = s.id /\ SameKey(t, s)
            /\ t.status = "deleted" => s = t
      BY <2>0, <3>3
    <3>5. \A s, t \in new : s = t
      BY DEF Matches, StoreInv
    <3>6. new \subseteq StoreRow
      BY <2>0, <3>3
    <3> HIDE DEF new, mine, R
    <3> QED
      BY <3>1, <3>2, <3>4, <3>5, <3>6
  <2> QED
    BY <2>1, <2>2
<1>2. pc[r] = "open" /\ ~StoreLocked(r) /\ call[r].org = call[r].tenant.org
  BY DEF UpdateStore, DeleteStore, Uses, StoreInv, StoreStaged, Allowed, Guarded
<1>3. \A s \in rows.stores : VersionOf(r, s)
  BY <1>1, <1>2 DEF VersionOf, Matches
<1>4. ASSUME NEW q \in Requests \ {r}, NEW s \in rows.stores, NEW t \in staged[q].stores
      PROVE  s.id # t.id /\ ~SameKey(s, t)
  <2>1. PICK u \in stores : u.id = call[r].store /\ u.id = s.id /\ SameKey(u, s)
    BY <1>1 DEF Matches
  <2>2. s.id # t.id
    BY <1>2, <2>1 DEF StoreLocked, Ids
  <2>3. CASE NewRow(q, t)
    BY <2>1, <2>2, <2>3 DEF NewRow, SameKey
  <2>4. CASE VersionOf(q, t)
    <3>1. PICK v \in stores : v.id = t.id /\ SameKey(v, t)
      BY <2>4 DEF VersionOf
    <3>2. ~SameKey(u, v)
      BY <2>1, <2>2, <3>1 DEF StoreInv
    <3> QED
      BY <2>1, <2>2, <3>1, <3>2 DEF SameKey
  <2> QED
    BY <1>4, <2>2, <2>3, <2>4 DEF StoreInv, StoreStaged
<1> QED
  BY <1>1, <1>2, <1>3, <1>4, StageStoreStep

LEMMA CommitStore ==
  ASSUME PoolInv, StoreInv, NEW r \in Requests, Commit(r)
  PROVE  StoreInv'
<1> DEFINE mine == staged[r].stores
<1>1. /\ stores' = {s \in stores : s.id \notin Ids(mine)} \cup mine
      /\ staged' = [staged EXCEPT ![r] = NoRows] /\ pc' = [pc EXCEPT ![r] = "done"]
      /\ call' = call /\ pc[r] = "commit"
  BY DEF Commit, Return, Goto, env, Uses
<1>2. /\ staged'[r] = NoRows /\ pc'[r] = "done"
      /\ \A q \in Requests \ {r} : pc'[q] = pc[q] /\ staged'[q] = staged[q]
  BY <1>1 DEF PoolInv, Types
<1>3. NoRows.stores = {}
  BY DEF NoRows
<1>4. /\ \A s \in mine : VersionOf(r, s) \/ NewRow(r, s)
      /\ \A s, t \in mine : s = t
  BY DEF StoreInv, StoreStaged
<1>5. \A s \in mine, t \in stores : t.id # s.id => ~SameKey(s, t)
  BY <1>4 DEF VersionOf, NewRow, StoreInv, SameKey
<1>6. \A s, t \in stores' : s.id = t.id \/ SameKey(s, t) => s = t
  BY <1>1, <1>4, <1>5 DEF StoreInv, Ids, SameKey
<1>7. \A s \in stores' : s.id \in Requests => pc'[s.id] = "done"
  <2>1. \A s \in mine : s.id = r \/ \E t \in stores : t.id = s.id
    BY <1>4 DEF VersionOf, NewRow
  <2>2. \A s \in stores : s.id \in Requests => pc'[s.id] = "done"
    BY <1>2 DEF StoreInv
  <2> QED
    BY <1>1, <1>2, <2>1, <2>2
<1>8. StoreStaged(r)'
  <2>1. Allowed(r)
    BY <1>1 DEF StoreInv, StoreStaged
  <2> QED
    BY <1>1, <1>2, <1>3, <2>1 DEF StoreStaged, Allowed
<1>9. ASSUME NEW q \in Requests \ {r} PROVE StoreStaged(q)'
  <2>1. \A s \in staged[q].stores : \A t \in mine : t.id # s.id /\ ~SameKey(s, t)
    BY <1>9 DEF StoreInv, StoresApart
  <2>2. ASSUME NEW s \in staged[q].stores, NewRow(q, s) PROVE NewRow(q, s)'
    BY <1>1, <2>1, <2>2 DEF NewRow, SameKey
  <2>3. ASSUME NEW s \in staged[q].stores, VersionOf(q, s) PROVE VersionOf(q, s)'
    <3>1. PICK t \in stores : /\ t.id = s.id /\ SameKey(t, s) /\ t.org = call[q].tenant.org
                              /\ t.status = "deleted" => s = t
      BY <2>3 DEF VersionOf
    <3>2. t \in stores'
      BY <1>1, <2>1, <3>1 DEF Ids
    <3> QED
      BY <1>1, <3>1, <3>2 DEF VersionOf, SameKey
  <2>4. \A s \in staged[q].stores : VersionOf(q, s) \/ NewRow(q, s)
    BY <1>9 DEF StoreInv, StoreStaged
  <2> QED
    BY <1>1, <1>2, <1>9, <2>2, <2>3, <2>4 DEF StoreInv, StoreStaged, Allowed
<1>10. StoresApart'
  BY <1>2, <1>3 DEF StoreInv, StoresApart, SameKey
<1>11. stores' \subseteq StoreRow
  BY <1>1 DEF StoreInv, StoreStaged
<1> QED
  BY <1>6, <1>7, <1>8, <1>9, <1>10, <1>11 DEF StoreInv, SameKey

LEMMA StoreStep ==
  ASSUME PoolInv, StoreInv, [Next]_vars
  PROVE  StoreInv'
<1>1. NoRows.stores = {}
  BY DEF NoRows
<1>2. ASSUME NEW r \in Requests, Fail(r) \/ (Handle(r) /\ Rollback(r)) PROVE StoreInv'
  <2>1. Rollback(r) /\ pc[r] # "done"
    BY <1>2 DEF Fail, Handle, ListOrgs, Exchange, ListStores, LookUpStore, Other, CheckSlug,
       InsertOrg, InsertStore, UpdateStore, DeleteStore, Uses
  <2>2. StoreKept(r)
    BY <1>1, <2>1 DEF Rollback, Return, Goto, StoreKept, env, data, PoolInv, Types
  <2> QED
    BY <2>2, StoreKeptStep
<1>3. ASSUME NEW r \in Requests, Begin(r) \/ Refuse(r) PROVE StoreInv'
  <2>1. staged[r] = NoRows
    BY <1>3 DEF Begin, Refuse, StoreInv, StoreStaged
  <2>2. StoreKept(r)
    BY <1>1, <1>3, <2>1 DEF Begin, Refuse, Goto, StoreKept, env, data, PoolInv, Types
  <2> QED
    BY <2>2, StoreKeptStep
<1>4. ASSUME NEW r \in Requests, Handle(r), ~Rollback(r),
             ~InsertStore(r), ~UpdateStore(r), ~DeleteStore(r)
      PROVE  StoreInv'
  <2>1. staged[r] = NoRows /\ pc[r] \in {"open", "checked"}
    BY <1>4 DEF Handle, ListOrgs, Exchange, ListStores, LookUpStore, Other, CheckSlug,
                InsertOrg, Uses, StoreInv, StoreStaged
  <2>2. Allowed(r)
    BY <2>1 DEF StoreInv, StoreStaged
  <2>3. UNCHANGED <<call, stores>> /\ \A q \in Requests \ {r} : pc'[q] = pc[q]
    BY <1>4, HandleStays DEF Stays, env, data, PoolInv, Types
  <2>4. CASE ListOrgs(r) \/ Exchange(r) \/ ListStores(r) \/ LookUpStore(r) \/ CheckSlug(r)
    <3>1. staged' = staged
      BY <1>4, <2>4 DEF ListOrgs, Exchange, ListStores, LookUpStore, CheckSlug, See
    <3> QED
      BY <1>1, <2>1, <2>2, <2>3, <3>1, StoreKeptStep DEF StoreKept
  <2>5. CASE Other(r) \/ InsertOrg(r)
    <3>1. PICK rows : Stage(r, rows) /\ rows.stores = {}
      <4>1. \A S, T : [NoRows EXCEPT !.orgs = S, !.memberships = T].stores = {}
        BY DEF NoRows
      <4> QED
        BY <1>1, <1>4, <2>5, <4>1 DEF Other, InsertOrg
    <3>2. /\ staged'[r].stores = {} /\ pc'[r] = "commit"
          /\ \A q \in Requests \ {r} : staged'[q] = staged[q]
      BY <3>1 DEF Stage, Goto, PoolInv, Types
    <3> QED
      BY <2>1, <2>2, <2>3, <3>2, StoreKeptStep DEF StoreKept
  <2> QED
    BY <1>4, <2>4, <2>5 DEF Handle
<1>5. CASE UNCHANGED vars
  BY <1>5 DEF vars, env, data, StoreInv, StoreStaged, StoresApart, VersionOf, NewRow, SameKey,
              Allowed
<1> QED
  BY <1>2, <1>3, <1>4, <1>5, InsertStoreStep, VersionStep, CommitStore DEF Next

LEMMA StoreInit ==
  ASSUME Init
  PROVE  StoreInv
<1>1. NoRows.stores = {}
  BY DEF NoRows
<1>2. \A r \in Requests : staged[r] = NoRows /\ pc[r] = "new"
  BY DEF Init
<1>3. stores = Existing
  BY DEF Init
<1> QED
  BY <1>1, <1>2, <1>3, TenantAssumption DEF StoreInv, StoreStaged, StoresApart, SameKey

LEMMA StoreInvHolds == Spec => []StoreInv
<1>1. Init => StoreInv
  BY StoreInit
<1>2. PoolInv /\ StoreInv /\ [Next]_vars => StoreInv'
  BY StoreStep
<1> QED
  BY <1>1, <1>2, PoolInvHolds, PTL DEF Spec

(* No two organisations share a slug, nor two stores of one organisation,    *)
(* for any number of requests between their SELECT and their INSERT.         *)
THEOREM SlugsAreUnique == Spec => []SlugsUnique
<1>1. OrgInv /\ StoreInv => SlugsUnique
  BY DEF OrgInv, StoreInv, SameKey, SlugsUnique
<1> QED
  BY <1>1, OrgInvHolds, StoreInvHolds, PTL

\* Only a commit changes stores, and only versions replace rows.
LEMMA OwnStoresStep ==
  ASSUME PoolInv, StoreInv, [Next]_vars, NEW s \in stores \ stores'
  PROVE  /\ s.status # "deleted"
         /\ \E r \in Requests : pc[r] # pc'[r] /\ call[r].tenant.org = s.org
<1>1. PICK r \in Requests : Commit(r)
  <2>1. ASSUME NEW r \in Requests, Handle(r) PROVE stores' = stores
    BY <2>1, HandleStays DEF PoolInv, Stays, Rollback, data
  <2>2. ASSUME NEW r \in Requests, Refuse(r) \/ Begin(r) \/ Fail(r) PROVE stores' = stores
    BY <2>2 DEF Refuse, Begin, Fail, Rollback, data
  <2>3. ASSUME UNCHANGED vars PROVE stores' = stores
    BY <2>3 DEF vars, data
  <2> QED
    BY <2>1, <2>2, <2>3 DEF Next
<1>2. pc[r] = "commit" /\ pc'[r] = "done"
  BY <1>1 DEF Commit, Uses, Goto, PoolInv, Types
<1>3. stores' = {t \in stores : t.id \notin Ids(staged[r].stores)} \cup staged[r].stores
  BY <1>1 DEF Commit
<1>4. PICK t \in staged[r].stores : t.id = s.id
  BY <1>3 DEF Ids
<1>5. VersionOf(r, t)
  BY <1>2, <1>4 DEF StoreInv, StoreStaged, NewRow
<1>6. PICK u \in stores : /\ u.id = t.id /\ u.org = call[r].tenant.org
                          /\ u.status = "deleted" => t = u
  BY <1>5 DEF VersionOf
<1>7. u = s
  BY <1>4, <1>6 DEF StoreInv
<1>8. t # s
  BY <1>3
<1> QED
  BY <1>2, <1>6, <1>7, <1>8

(* No row of a store is replaced but by a request of its own organisation,   *)
(* and none that is deleted, also where row-level security does not apply.   *)
THEOREM StoresStayOwn == Spec => StoresOfOwnOrg
<1>1. PoolInv /\ StoreInv /\ [Next]_vars =>
        [\A s \in stores \ stores' :
           /\ s.status # "deleted"
           /\ \E r \in Requests : pc[r] # pc'[r] /\ call[r].tenant.org = s.org]_vars
  BY OwnStoresStep
<1> QED
  BY <1>1, PoolInvHolds, StoreInvHolds, PTL DEF Spec, StoresOfOwnOrg

=============================================================================

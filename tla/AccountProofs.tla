---------------------------- MODULE AccountProofs ---------------------------
(***************************************************************************)
(* Proofs about an account: the members of an organization (Members) and   *)
(* its standing with Stripe (Billing), whatever requests overlap and in    *)
(* whatever order events arrive.                                           *)
(***************************************************************************)
EXTENDS Members, Billing, FiniteSetTheorems, TLAPS

-----------------------------------------------------------------------------
(***************************************************************************)
(* Members.  What a request relies on stands until another writes it; a    *)
(* request that commits although it was overtaken can cost only what       *)
(* MembersSound says of its kind.                                          *)
(***************************************************************************)
InviteRows ==
  [status : {"PENDING", "ACCEPTED", "CANCELED"}, by : Users, email : Users,
   level : RoleLevel, expiresAt : Nat]

MemberRows ==
  /\ level \in [Users -> RoleLevel \cup {NONE}]
  /\ orgKey \in [Users -> {"NONE", "ACTIVE", "REVOKED"}]
  /\ invite \in [Invites -> InviteRows \cup {NoInvite}]
  /\ day \in 0..MaxDay /\ maxMembers \in Nat \ {0}

Owned ==
  orgStatus = "NONE" \/ Raced({"accept", "role", "remove"}) \/ \E u \in Users : level[u] = OWNER
NoKeysLeft ==
  Raced({"key", "remove"}) \/ \A u \in Users : level[u] = NONE => orgKey[u] # "ACTIVE"
NoInvitesLeft ==
  \/ Raced({"invite"})
  \/ \A i \in Invites : invite[i].status = "PENDING" => level[invite[i].by] # NONE
OnePending ==
  \/ Raced({"invite"})
  \/ \A i, k \in Invites :
       invite[i].status = "PENDING" /\ invite[k].status = "PENDING"
         /\ invite[i].email = invite[k].email => i = k

\* The members there are or may come to be by what requests under way will save.
AcceptedNow   == {u \in Users : \E j \in OrgJobs : orgJob[j].op = "accept" /\ orgJob[j].user = u}
TransferFrom  == {u \in Users : \E j \in OrgJobs : orgJob[j].op = "transfer" /\ orgJob[j].user = u}
TransferTo    == {u \in Users : \E j \in OrgJobs : orgJob[j].op = "transfer" /\ orgJob[j].target = u}
SoonMembers   == MembersNow \cup AcceptedNow
EverMembers   == MembersNow \cup AcceptedNow \cup TransferFrom \cup TransferTo

Room ==
  /\ Cardinality(EverMembers) =< maxMembers + 2 * (AtOnce - 1)
  /\ Raced({"transfer"}) \/ Cardinality(SoonMembers) =< maxMembers + (AtOnce - 1)
  /\ Raced({"accept", "transfer"}) \/ countMembers =< maxMembers

\* What a request is about to write has its type.
WorkOK(w) ==
  \/ w.op = "invite" /\ w.row \in InviteRows /\ w.row.status = "PENDING"
  \/ /\ w.op = "accept" /\ w.user \in Users /\ w.inv \in Invites
     /\ w.row \in InviteRows /\ w.row.status = "ACCEPTED"
  \/ w.op = "role" /\ w.user \in Users /\ w.level \in RoleLevel
  \/ w.op = "remove" /\ w.user \in Users
  \/ w.op = "transfer" /\ w.user \in Users /\ w.target \in Users /\ w.user # w.target
  \/ w.op = "cancel" /\ w.inv \in Invites /\ w.row \in InviteRows /\ w.row.status = "CANCELED"
  \/ w.op = "rename" /\ w.status # "NONE"
  \/ w.op = "key" /\ w.user \in Users

\* What a request has read, and relies on when it commits.
WorkStands(w) ==
  /\ w.op = "invite" =>
       /\ level[w.row.by] # NONE
       /\ \A i \in Invites : invite[i].status = "PENDING" => invite[i].email # w.row.email
  /\ w.op = "accept" => level[w.user] = NONE /\ countMembers < maxMembers
  /\ w.op = "role" => level[w.user] # OWNER
  /\ w.op = "remove" =>
       /\ w.keys = {u \in {w.user} : orgKey[u] = "ACTIVE"}
       /\ level[w.user] = OWNER => \E u \in Users \ {w.user} : level[u] = OWNER
  /\ w.op = "transfer" => level[w.user] # NONE /\ level[w.target] # NONE
  /\ w.op = "key" => level[w.user] # NONE

JobsStand ==
  /\ orgJob = [j \in OrgJobs |-> orgJob[j]] /\ stale \subseteq OrgJobs
  /\ \A j \in OrgJobs :
       orgJob[j] # NoWork =>
         orgStatus # "NONE" /\ WorkOK(orgJob[j]) /\ (j \in stale \/ WorkStands(orgJob[j]))

\* Before the organization there is nothing.
Empty ==
  orgStatus = "NONE" =>
    (\A u \in Users : level[u] = NONE) /\ (\A i \in Invites : invite[i] = NoInvite)

MembersInv ==
  /\ MemberRows /\ Owned /\ Room /\ NoKeysLeft /\ NoInvitesLeft /\ OnePending
  /\ JobsStand /\ Empty

\* The members of an organization and its owners are finitely many.
LEMMA MembersCounted ==
  /\ \A S \in SUBSET Users : IsFiniteSet(S) /\ Cardinality(S) \in Nat
  /\ countMembers \in Nat /\ countOwners \in Nat
  /\ countOwners >= 1 <=> \E u \in Users : level[u] = OWNER
  /\ countOwners > 1 => \A t \in Users : \E u \in Users \ {t} : level[u] = OWNER
  /\ AtOnce \in Nat \ {0}
<1> DEFINE Owners == {u \in Users : level[u] = OWNER}
<1>1. \A S \in SUBSET Users : IsFiniteSet(S) /\ Cardinality(S) \in Nat
  BY FS_Subset, FS_CardinalityType, MembersAssumption
<1>2. countOwners = Cardinality(Owners) /\ Owners \in SUBSET Users
  BY DEF countOwners, isOwner
<1>3. countMembers \in Nat
  BY <1>1 DEF countMembers, MembersNow
<1>4. countOwners >= 1 <=> \E u \in Users : level[u] = OWNER
  <2>1. Cardinality(Owners) = 0 <=> Owners = {}
    BY <1>1, <1>2, FS_EmptySet
  <2> QED BY <1>1, <1>2, <2>1
<1>5. ASSUME countOwners > 1, NEW t \in Users PROVE \E u \in Users \ {t} : level[u] = OWNER
  <2>1. SUFFICES ASSUME \A u \in Users \ {t} : level[u] # OWNER PROVE FALSE
    OBVIOUS
  <2>2. Owners \subseteq {t}
    BY <2>1
  <2>3. IsFiniteSet({t}) /\ Cardinality({t}) = 1
    BY FS_Singleton
  <2>4. Cardinality(Owners) =< 1
    BY <2>2, <2>3, FS_Subset
  <2> QED BY <1>1, <1>2, <1>5, <2>4
<1>6. AtOnce \in Nat \ {0}
  BY FS_CardinalityType, FS_EmptySet, MembersAssumption DEF AtOnce
<1> QED BY <1>1, <1>2, <1>3, <1>4, <1>5, <1>6

\* As many people are named by some requests as there are requests, at most.
LEMMA NamedCounted ==
  ASSUME NEW J, IsFiniteSet(J), NEW f, NEW P \in SUBSET Users,
         \A u \in P : \E j \in J : f[j] = u
  PROVE  Cardinality(P) =< Cardinality(J)
<1> DEFINE who == [u \in P |-> CHOOSE j \in J : f[j] = u]
           I == {who[u] : u \in P}
<1>1. \A u \in P : who[u] \in J /\ f[who[u]] = u
  OBVIOUS
<1>2. I \subseteq J /\ who \in [P -> I] /\ \A u, v \in P : who[u] = who[v] => u = v
  BY <1>1
<1> HIDE DEF who
<1>3. who \in Bijection(P, I)
  BY <1>2 DEF Bijection, Injection, Surjection, IsInjective
<1>4. IsFiniteSet(I) /\ Cardinality(I) =< Cardinality(J)
  BY <1>2, FS_Subset
<1>5. IsFiniteSet(P)
  BY MembersCounted
<1>6. Cardinality(P) = Cardinality(I)
  BY <1>3, <1>4, <1>5, FS_Bijection DEF ExistsBijection
<1> QED BY <1>4, <1>6

LEMMA UnionBound ==
  ASSUME NEW S \in SUBSET Users, NEW T \in SUBSET Users
  PROVE  Cardinality(S \cup T) =< Cardinality(S) + Cardinality(T)
<1>1. IsFiniteSet(S) /\ IsFiniteSet(T) /\ S \cap T \in SUBSET Users
  BY MembersCounted
<1>2. Cardinality(S \cup T) = Cardinality(S) + Cardinality(T) - Cardinality(S \cap T)
  BY <1>1, FS_Union
<1>3. Cardinality(S) \in Nat /\ Cardinality(T) \in Nat /\ Cardinality(S \cap T) \in Nat
  BY <1>1, MembersCounted
<1> QED BY <1>2, <1>3

\* Nobody new may come to be a member.
LEMMA RoomStays ==
  ASSUME MembersInv, maxMembers' = maxMembers, overtaken \subseteq overtaken',
         EverMembers' \subseteq EverMembers,
         Raced({"transfer"})' \/ SoonMembers' \subseteq SoonMembers,
         Raced({"accept", "transfer"})' \/ countMembers' =< countMembers \/ countMembers' =< maxMembers
  PROVE  Room'
<1>1. /\ EverMembers \in SUBSET Users /\ SoonMembers \in SUBSET Users
      /\ EverMembers' \in SUBSET Users /\ SoonMembers' \in SUBSET Users
  BY DEF EverMembers, SoonMembers, MembersNow, AcceptedNow, TransferFrom, TransferTo
<1>2. /\ Cardinality(EverMembers') =< Cardinality(EverMembers)
      /\ Cardinality(EverMembers) \in Nat /\ Cardinality(EverMembers') \in Nat
      /\ Cardinality(SoonMembers) \in Nat /\ Cardinality(SoonMembers') \in Nat
      /\ SoonMembers' \subseteq SoonMembers => Cardinality(SoonMembers') =< Cardinality(SoonMembers)
  BY <1>1, MembersCounted, FS_Subset
<1>3. countMembers \in Nat /\ countMembers' \in Nat /\ maxMembers \in Nat
  <2>1. MembersNow' \in SUBSET Users
    BY DEF MembersNow
  <2>2. countMembers' \in Nat
    BY <2>1, MembersCounted DEF countMembers
  <2> QED BY <2>2, MembersCounted DEF MembersInv, MemberRows
<1>4. Raced({"transfer"}) => Raced({"transfer"})'
  BY DEF Raced
<1>5. Raced({"accept", "transfer"}) => Raced({"accept", "transfer"})'
  BY DEF Raced
<1>6. AtOnce' = AtOnce /\ AtOnce \in Nat \ {0}
  BY MembersCounted DEF AtOnce
<1>7. Cardinality(EverMembers') =< maxMembers + 2 * (AtOnce - 1)
  BY <1>2, <1>3, <1>6 DEF MembersInv, Room
<1>8. Raced({"transfer"})' \/ Cardinality(SoonMembers') =< maxMembers + (AtOnce - 1)
  BY <1>2, <1>3, <1>4, <1>6 DEF MembersInv, Room
<1>9. Raced({"accept", "transfer"})' \/ countMembers' =< maxMembers
  BY <1>3, <1>5 DEF MembersInv, Room
<1> QED BY <1>6, <1>7, <1>8, <1>9 DEF Room

\* Nobody joins.
LEMMA NobodyJoins ==
  ASSUME MembersInv, \A u \in Users : level'[u] # NONE => level[u] # NONE
  PROVE  MembersNow' \subseteq MembersNow /\ countMembers' =< countMembers
<1>1. MembersNow' \subseteq MembersNow /\ MembersNow \in SUBSET Users
  BY DEF MembersNow
<1>2. Cardinality(MembersNow') =< Cardinality(MembersNow)
  BY <1>1, MembersCounted, FS_Subset
<1> QED BY <1>1, <1>2 DEF countMembers

\* No request is begun.
LEMMA NobodyNamed ==
  ASSUME MembersInv, \A k \in OrgJobs : orgJob'[k] = orgJob[k] \/ orgJob'[k] = NoWork
  PROVE  /\ AcceptedNow' \subseteq AcceptedNow
         /\ TransferFrom' \subseteq TransferFrom /\ TransferTo' \subseteq TransferTo
BY DEF AcceptedNow, TransferFrom, TransferTo, NoWork

\* A step in which nobody joins and no request is begun leaves the room there was.
LEMMA RoomKept ==
  ASSUME MembersInv, maxMembers' = maxMembers, overtaken \subseteq overtaken',
         \A u \in Users : level'[u] # NONE => level[u] # NONE,
         \A k \in OrgJobs : orgJob'[k] = orgJob[k] \/ orgJob'[k] = NoWork
  PROVE  Room'
BY NobodyJoins, NobodyNamed, RoomStays DEF EverMembers, SoonMembers

\* An acceptance is begun only while there is room: the others at once may take
\* it, and no more.
LEMMA AcceptRoom ==
  ASSUME MembersInv, NEW j \in OrgJobs, maxMembers' = maxMembers, countMembers < maxMembers,
         UNCHANGED <<level, overtaken>>, orgJob'[j].op = "accept"
  PROVE  Room'
<1> DEFINE m == Cardinality(MembersNow)
           A == Cardinality(AcceptedNow')
           B == Cardinality((AcceptedNow \cup TransferFrom)')
           C == Cardinality(TransferTo')
<1>1. /\ MembersNow' = MembersNow /\ MembersNow \in SUBSET Users
      /\ AcceptedNow' \in SUBSET Users /\ (AcceptedNow \cup TransferFrom)' \in SUBSET Users
      /\ TransferTo' \in SUBSET Users
  BY DEF MembersNow, AcceptedNow, TransferFrom, TransferTo
<1>2. /\ m \in Nat /\ A \in Nat /\ B \in Nat /\ C \in Nat
      /\ countMembers = m /\ countMembers' = m
  BY <1>1, MembersCounted DEF countMembers
<1>3. A =< AtOnce /\ B =< AtOnce
  <2> DEFINE f == [k \in OrgJobs |-> orgJob'[k].user]
  <2>1. /\ \A u \in AcceptedNow' : \E k \in OrgJobs : f[k] = u
        /\ \A u \in (AcceptedNow \cup TransferFrom)' : \E k \in OrgJobs : f[k] = u
    BY DEF AcceptedNow, TransferFrom
  <2> HIDE DEF f
  <2> QED BY <1>1, <2>1, NamedCounted, MembersAssumption DEF AtOnce
<1>4. C =< AtOnce - 1
  <2> DEFINE f == [k \in OrgJobs \ {j} |-> orgJob'[k].target]
  <2>1. \A u \in TransferTo' : \E k \in OrgJobs \ {j} : f[k] = u
    BY DEF TransferTo
  <2> HIDE DEF f
  <2>2. IsFiniteSet(OrgJobs \ {j}) /\ Cardinality(OrgJobs \ {j}) = AtOnce - 1
    BY MembersAssumption, FS_RemoveElement DEF AtOnce
  <2> QED BY <1>1, <2>1, <2>2, NamedCounted
<1>5. Cardinality(SoonMembers') =< m + A
  BY <1>1, MembersCounted, UnionBound DEF SoonMembers
<1>6. Cardinality(EverMembers') =< (m + B) + C
  <2> DEFINE S == MembersNow \cup (AcceptedNow \cup TransferFrom)'
  <2>1. S \in SUBSET Users /\ EverMembers' = S \cup TransferTo'
    BY <1>1 DEF EverMembers
  <2>2. Cardinality(S) =< m + B
    BY <1>1, MembersCounted, UnionBound
  <2> HIDE DEF S
  <2>3. Cardinality(S \cup TransferTo') =< Cardinality(S) + C /\ Cardinality(S) \in Nat
    BY <1>1, <2>1, MembersCounted, UnionBound
  <2>4. Cardinality(S \cup TransferTo') \in Nat
    BY <1>1, <2>1, MembersCounted
  <2> QED BY <1>2, <2>1, <2>2, <2>3, <2>4
<1>7. maxMembers \in Nat /\ AtOnce \in Nat \ {0} /\ AtOnce' = AtOnce
  BY MembersCounted DEF MembersInv, MemberRows, AtOnce
<1>8. Cardinality(EverMembers') \in Nat /\ Cardinality(SoonMembers') \in Nat
  <2>1. EverMembers' \in SUBSET Users /\ SoonMembers' \in SUBSET Users
    BY <1>1 DEF EverMembers, SoonMembers
  <2> QED BY <2>1, MembersCounted
<1> HIDE DEF m, A, B, C
<1>9. /\ Cardinality(EverMembers') =< maxMembers + 2 * (AtOnce - 1)
      /\ Cardinality(SoonMembers') =< maxMembers + (AtOnce - 1)
      /\ countMembers' =< maxMembers
  BY <1>2, <1>3, <1>4, <1>5, <1>6, <1>7, <1>8
<1> QED BY <1>7, <1>9 DEF Room

\* A request that has read holds what stands.
LEMMA ReadsKeep ==
  ASSUME MembersInv, NEW j \in OrgJobs, NEW work, Reads(j, work), maxMembers' = maxMembers,
         orgStatus # "NONE", WorkOK(work), WorkStands(work)
  PROVE  MembersInv'
<1>1. /\ orgJob' = [orgJob EXCEPT ![j] = work] /\ orgJob[j] = NoWork
      /\ UNCHANGED <<level, invite, orgKey, orgStatus, day, maxMembers, stale, overtaken>>
  BY DEF Reads, raceVars
<1>2. /\ orgJob' = [k \in OrgJobs |-> orgJob'[k]] /\ orgJob'[j] = work
      /\ \A k \in OrgJobs : k # j => orgJob'[k] = orgJob[k]
  BY <1>1 DEF MembersInv, JobsStand
<1>3. countMembers' = countMembers
  BY <1>1 DEF countMembers, MembersNow
<1>4. \A w : WorkStands(w) => WorkStands(w)'
  BY <1>1, <1>3 DEF WorkStands
<1>5. JobsStand'
  <2> SUFFICES ASSUME NEW k \in OrgJobs, orgJob'[k] # NoWork
               PROVE  orgStatus' # "NONE" /\ WorkOK(orgJob[k])' /\ (k \in stale' \/ WorkStands(orgJob[k])')
    BY <1>1, <1>2 DEF JobsStand, MembersInv
  <2>1. PICK w : w = orgJob'[k]
    OBVIOUS
  <2>2. WorkOK(w) /\ (k \in stale \/ WorkStands(w))
    BY <1>2, <2>1 DEF MembersInv, JobsStand
  <2>3. WorkOK(orgJob[k])'
    BY <2>1, <2>2 DEF WorkOK
  <2>4. k \in stale' \/ WorkStands(w)'
    BY <1>1, <1>4, <2>2
  <2>5. WorkStands(w)' => WorkStands(orgJob[k])'
    BY <2>1 DEF WorkStands
  <2> QED BY <1>1, <2>3, <2>4, <2>5
<1>6. Room'
  <2>1. CASE work.op = "accept"
    BY <1>1, <1>2, <2>1, AcceptRoom DEF WorkStands
  <2>2. CASE work.op # "accept"
    <3>1. MembersNow' = MembersNow
      BY <1>1 DEF MembersNow
    <3>2. AcceptedNow' \subseteq AcceptedNow
      BY <1>2, <2>2 DEF AcceptedNow
    <3>3. /\ TransferFrom' \subseteq TransferFrom \cup MembersNow
          /\ TransferTo' \subseteq TransferTo \cup MembersNow
      BY <1>2 DEF TransferFrom, TransferTo, MembersNow, WorkStands
    <3> QED BY <1>1, <1>3, <3>1, <3>2, <3>3, RoomStays, MembersCounted DEF EverMembers, SoonMembers
  <2> QED BY <2>1, <2>2
<1> QED BY <1>1, <1>5, <1>6
     DEF MembersInv, MemberRows, Owned, NoKeysLeft, NoInvitesLeft, OnePending, Empty, Raced

\* Every request's reads stand when it has made them.
LEMMA MemberReads ==
  ASSUME MembersInv, maxMembers' = maxMembers, NEW j \in OrgJobs,
         \/ \E by, e \in Users, l \in RoleLevel : InviteMember(j, by, e, l)
         \/ \E u \in Users, i \in Invites : invite[i] # NoInvite /\ AcceptInvitation(j, u, i)
         \/ \E a, t \in Users, l \in RoleLevel : ChangeMemberRole(j, a, t, l)
         \/ \E a, t \in Users : RemoveMember(j, a, t)
         \/ \E a, t \in Users : TransferOwnership(j, a, t)
         \/ \E a \in Users, i \in Invites : CancelInvitation(j, a, i)
         \/ \E a \in Users : RenameOrganization(j, a)
         \/ \E u \in Users : MemberCreatesKey(j, u)
  PROVE  MembersInv'
<1> USE DEF findByAccountAndUser
<1>0. /\ \A u \in Users : level[u] \in RoleLevel \cup {NONE}
      /\ \A u \in Users : level[u] # NONE => orgStatus # "NONE"
      /\ \A i \in Invites : invite[i] # NoInvite => orgStatus # "NONE" /\ invite[i] \in InviteRows
      /\ \A u \in Users : isAdmin(level[u]) => level[u] # NONE
  BY DEF MembersInv, MemberRows, Empty, isAdmin, ADMIN, NONE
<1>1. ASSUME NEW by \in Users, NEW e \in Users, NEW l \in RoleLevel, InviteMember(j, by, e, l)
      PROVE  MembersInv'
  <2> DEFINE row == Invitation_create(by, e, l)
             work == [op |-> "invite", row |-> row]
  <2>1. row \in InviteRows /\ row.status = "PENDING" /\ row.by = by /\ row.email = e
    BY MembersAssumption DEF Invitation_create, InviteRows, MembersInv, MemberRows
  <2>2. /\ isAdmin(level[by]) /\ Reads(j, work)
        /\ \A i \in Invites : invite[i].status = "PENDING" => invite[i].email # e
    BY <1>1 DEF InviteMember, mayInvite, findPendingByEmail, findInvitesByStatus
  <2>3. WorkOK(work) /\ WorkStands(work)
    <3>1. work.op = "invite" /\ work.row = row
      OBVIOUS
    <3> HIDE DEF row, work
    <3> QED BY <1>0, <2>1, <2>2, <3>1 DEF WorkOK, WorkStands
  <2> QED BY <1>0, <2>2, <2>3, ReadsKeep
<1>2. ASSUME NEW u \in Users, NEW i \in Invites, invite[i] # NoInvite, AcceptInvitation(j, u, i)
      PROVE  MembersInv'
  <2> DEFINE work == [op |-> "accept", user |-> u, inv |-> i, row |-> markAccepted(invite[i])]
  <2>1. markAccepted(invite[i]) \in InviteRows /\ markAccepted(invite[i]).status = "ACCEPTED"
    BY <1>0, <1>2 DEF markAccepted, InviteRows
  <2>2. Reads(j, work) /\ level[u] = NONE /\ countMembers < maxMembers
    BY <1>2 DEF AcceptInvitation, canAddMember
  <2>3. WorkOK(work) /\ WorkStands(work)
    BY <2>1, <2>2 DEF WorkOK, WorkStands
  <2> QED BY <1>0, <1>2, <2>2, <2>3, ReadsKeep
<1>3. ASSUME NEW a \in Users, NEW t \in Users, NEW l \in RoleLevel, ChangeMemberRole(j, a, t, l)
      PROVE  MembersInv'
  <2> DEFINE work == [op |-> "role", user |-> t, level |-> l]
  <2>1. Reads(j, work) /\ level[a] # NONE /\ level[a] > level[t]
    BY <1>3 DEF ChangeMemberRole, mayChangeRole, canManage
  <2>2. level[t] # OWNER
    BY <1>0, <2>1 DEF RoleLevel, OWNER, ADMIN, MEMBER, NONE
  <2>3. WorkOK(work) /\ WorkStands(work)
    BY <2>2 DEF WorkOK, WorkStands
  <2> QED BY <1>0, <2>1, <2>3, ReadsKeep
<1>4. ASSUME NEW a \in Users, NEW t \in Users, RemoveMember(j, a, t)
      PROVE  MembersInv'
  <2> DEFINE work == [op |-> "remove", user |-> t, keys |-> {u \in {t} : orgKey[u] = "ACTIVE"}]
  <2>1. Reads(j, work) /\ level[t] # NONE /\ (level[t] = OWNER => countOwners > 1)
    BY <1>4 DEF RemoveMember, mayLeave, mayRemove, isOwner
  <2>2. WorkOK(work) /\ WorkStands(work)
    <3>1. level[t] = OWNER => \E u \in Users \ {t} : level[u] = OWNER
      BY <2>1, MembersCounted
    <3>2. work.op = "remove" /\ work.user = t /\ work.keys = {u \in {t} : orgKey[u] = "ACTIVE"}
      OBVIOUS
    <3> HIDE DEF work
    <3> QED BY <3>1, <3>2 DEF WorkOK, WorkStands
  <2> QED BY <1>0, <2>1, <2>2, ReadsKeep
<1>5. ASSUME NEW a \in Users, NEW t \in Users, TransferOwnership(j, a, t)
      PROVE  MembersInv'
  <2> DEFINE work == [op |-> "transfer", user |-> a, target |-> t]
  <2>1. Reads(j, work) /\ level[t] # NONE /\ level[a] = OWNER /\ a # t
    BY <1>5 DEF TransferOwnership, isOwner
  <2>2. WorkOK(work) /\ WorkStands(work)
    BY <2>1 DEF WorkOK, WorkStands, OWNER, NONE
  <2> QED BY <1>0, <2>1, <2>2, ReadsKeep
<1>6. ASSUME NEW a \in Users, NEW i \in Invites, CancelInvitation(j, a, i)
      PROVE  MembersInv'
  <2> DEFINE work == [op |-> "cancel", inv |-> i, row |-> cancelInvite(invite[i])]
  <2>1. Reads(j, work) /\ isAdmin(level[a]) /\ invite[i].status = "PENDING"
    BY <1>6 DEF CancelInvitation
  <2>2. invite[i] \in InviteRows
    BY <1>0, <2>1 DEF NoInvite
  <2>3. cancelInvite(invite[i]) \in InviteRows /\ cancelInvite(invite[i]).status = "CANCELED"
    BY <2>2 DEF cancelInvite, InviteRows
  <2>4. WorkOK(work) /\ WorkStands(work)
    BY <2>3 DEF WorkOK, WorkStands
  <2> QED BY <1>0, <2>1, <2>4, ReadsKeep
<1>7. ASSUME NEW a \in Users, RenameOrganization(j, a) PROVE MembersInv'
  <2> DEFINE work == [op |-> "rename", status |-> orgStatus]
  <2>1. Reads(j, work) /\ isAdmin(level[a])
    BY <1>7 DEF RenameOrganization
  <2>2. WorkOK(work) /\ WorkStands(work)
    BY <1>0, <2>1 DEF WorkOK, WorkStands
  <2> QED BY <1>0, <2>1, <2>2, ReadsKeep
<1>8. ASSUME NEW u \in Users, MemberCreatesKey(j, u) PROVE MembersInv'
  <2> DEFINE work == [op |-> "key", user |-> u]
  <2>1. Reads(j, work) /\ level[u] # NONE
    BY <1>8 DEF MemberCreatesKey
  <2>2. WorkOK(work) /\ WorkStands(work)
    BY <2>1 DEF WorkOK, WorkStands
  <2> QED BY <1>0, <2>1, <2>2, ReadsKeep
<1> QED BY <1>1, <1>2, <1>3, <1>4, <1>5, <1>6, <1>7, <1>8

\* A request that commits has read what its kind relies on, and that still stands
\* unless it was overtaken; the others stand, unless it has overtaken them.
LEMMA CommitsEnd ==
  ASSUME MembersInv, NEW j \in OrgJobs, NEW op, Commits(j, op), op # "idle",
         maxMembers' = maxMembers, orgStatus # "NONE" => orgStatus' # "NONE",
         "members" \in writesTo(op) \/ level' = level,
         "invitations" \in writesTo(op) \/ invite' = invite,
         "keys" \in writesTo(op) \/ orgKey' = orgKey
  PROVE  /\ orgStatus # "NONE" /\ WorkOK(orgJob[j]) /\ orgJob[j].op = op
         /\ op \in overtaken' \/ WorkStands(orgJob[j])
         /\ overtaken \subseteq overtaken'
         /\ \A k \in OrgJobs : orgJob'[k] = orgJob[k] \/ orgJob'[k] = NoWork
         /\ JobsStand'
<1>1. /\ orgJob[j].op = op /\ orgJob' = [orgJob EXCEPT ![j] = NoWork]
      /\ stale' = {k \in OrgJobs \ {j} :
                     k \in stale \/ writesTo(op) \cap reliesOn(orgJob[k].op) # {}}
      /\ overtaken' = IF j \in stale THEN overtaken \cup {op} ELSE overtaken
  BY DEF Commits
<1>2. orgStatus # "NONE" /\ WorkOK(orgJob[j]) /\ (j \in stale \/ WorkStands(orgJob[j]))
  BY <1>1 DEF MembersInv, JobsStand, NoWork
<1>3. /\ orgJob' = [k \in OrgJobs |-> orgJob'[k]] /\ orgJob'[j] = NoWork
      /\ \A k \in OrgJobs : k # j => orgJob'[k] = orgJob[k]
  BY <1>1 DEF MembersInv, JobsStand
<1>4. level' = level => countMembers' = countMembers
  BY DEF countMembers, MembersNow
<1>5. ASSUME NEW k \in OrgJobs, orgJob'[k] # NoWork
      PROVE  WorkOK(orgJob[k])' /\ (k \in stale' \/ WorkStands(orgJob[k])')
  <2>1. k # j /\ orgJob'[k] = orgJob[k]
    BY <1>3, <1>5
  <2>2. PICK w : w = orgJob[k]
    OBVIOUS
  <2>3. WorkOK(w) /\ (k \in stale \/ WorkStands(w))
    BY <1>5, <2>1, <2>2 DEF MembersInv, JobsStand
  <2>4. WorkOK(orgJob[k])'
    BY <2>1, <2>2, <2>3 DEF WorkOK
  <2>5. ASSUME k \notin stale' PROVE WorkStands(w)'
    <3>1. WorkStands(w) /\ writesTo(op) \cap reliesOn(w.op) = {}
      BY <1>1, <2>1, <2>2, <2>3, <2>5
    <3>2. CASE w.op = "invite"
      <4>1. level' = level /\ invite' = invite
        BY <3>1, <3>2 DEF reliesOn
      <4> QED BY <3>1, <3>2, <4>1 DEF WorkStands
    <3>3. CASE w.op = "remove"
      <4>1. level' = level /\ orgKey' = orgKey
        BY <3>1, <3>3 DEF reliesOn
      <4> QED BY <3>1, <3>3, <4>1 DEF WorkStands
    <3>4. CASE w.op \in {"accept", "role", "transfer", "key"}
      <4>1. level' = level
        BY <3>1, <3>4 DEF reliesOn
      <4> QED BY <1>4, <3>1, <3>4, <4>1 DEF WorkStands
    <3>5. CASE w.op \in {"cancel", "rename"}
      BY <3>5 DEF WorkStands
    <3> QED BY <2>3, <3>2, <3>3, <3>4, <3>5 DEF WorkOK
  <2>6. WorkStands(w)' => WorkStands(orgJob[k])'
    BY <2>1, <2>2 DEF WorkStands
  <2> QED BY <2>4, <2>5, <2>6
<1>6. stale' \subseteq OrgJobs
  BY <1>1
<1>7. JobsStand'
  BY <1>2, <1>3, <1>5, <1>6 DEF JobsStand
<1> QED BY <1>1, <1>2, <1>3, <1>7

\* The commits that write invitations only.
LEMMA InvitationCommits ==
  ASSUME MembersInv, maxMembers' = maxMembers, NEW j \in OrgJobs,
         InviteCommits(j) \/ CancelCommits(j)
  PROVE  MembersInv'
<1> USE DEF saveInvitation
<1>1. CASE InviteCommits(j)
  <2>1. PICK i, row : /\ i \in Invites /\ invite[i] = NoInvite /\ invite' = [invite EXCEPT ![i] = row]
                      /\ row = orgJob[j].row
                      /\ UNCHANGED <<level, orgKey, orgStatus, day>> /\ Commits(j, "invite")
    BY <1>1 DEF InviteCommits
  <2>2. /\ orgStatus # "NONE" /\ WorkOK(orgJob[j]) /\ orgJob[j].op = "invite"
        /\ "invite" \in overtaken' \/ WorkStands(orgJob[j])
        /\ overtaken \subseteq overtaken' /\ JobsStand'
        /\ \A k \in OrgJobs : orgJob'[k] = orgJob[k] \/ orgJob'[k] = NoWork
    BY <2>1, CommitsEnd DEF writesTo
  <2>3. /\ row \in InviteRows /\ row.status = "PENDING"
        /\ \/ "invite" \in overtaken'
           \/ /\ level[row.by] # NONE
              /\ \A k \in Invites : invite[k].status = "PENDING" => invite[k].email # row.email
    BY <2>1, <2>2 DEF WorkOK, WorkStands
  <2>4. /\ invite'[i] = row /\ \A k \in Invites : k # i => invite'[k] = invite[k]
        /\ invite' \in [Invites -> InviteRows \cup {NoInvite}]
    BY <2>1, <2>3 DEF MembersInv, MemberRows
  <2>5. Raced({"invite"})' \/ (~Raced({"invite"}) /\ "invite" \notin overtaken')
    BY <2>2 DEF Raced
  <2>6. NoInvitesLeft' /\ OnePending'
    BY <2>1, <2>3, <2>4, <2>5 DEF MembersInv, NoInvitesLeft, OnePending
  <2>7. Room'
    BY <2>1, <2>2, RoomKept
  <2> QED BY <2>1, <2>2, <2>4, <2>6, <2>7
          DEF MembersInv, MemberRows, Owned, NoKeysLeft, Empty, Raced
<1>2. CASE CancelCommits(j)
  <2>1. PICK i, row : /\ invite' = [invite EXCEPT ![i] = row]
                      /\ i = orgJob[j].inv /\ row = orgJob[j].row
                      /\ UNCHANGED <<level, orgKey, orgStatus, day>> /\ Commits(j, "cancel")
    BY <1>2 DEF CancelCommits
  <2>2. /\ orgStatus # "NONE" /\ WorkOK(orgJob[j]) /\ orgJob[j].op = "cancel"
        /\ overtaken \subseteq overtaken' /\ JobsStand'
        /\ \A k \in OrgJobs : orgJob'[k] = orgJob[k] \/ orgJob'[k] = NoWork
    BY <2>1, CommitsEnd DEF writesTo
  <2>3. i \in Invites /\ row \in InviteRows /\ row.status = "CANCELED"
    BY <2>1, <2>2 DEF WorkOK
  <2>4. /\ invite'[i] = row /\ \A k \in Invites : k # i => invite'[k] = invite[k]
        /\ invite' \in [Invites -> InviteRows \cup {NoInvite}]
    BY <2>1, <2>3 DEF MembersInv, MemberRows
  <2>5. Raced({"invite"}) => Raced({"invite"})'
    BY <2>2 DEF Raced
  <2>6. NoInvitesLeft' /\ OnePending'
    BY <2>1, <2>3, <2>4, <2>5 DEF MembersInv, NoInvitesLeft, OnePending
  <2>7. Room'
    BY <2>1, <2>2, RoomKept
  <2> QED BY <2>1, <2>2, <2>4, <2>6, <2>7
          DEF MembersInv, MemberRows, Owned, NoKeysLeft, Empty, Raced
<1> QED BY <1>1, <1>2

\* Joining: within the room there is, and without touching an owner, unless the
\* acceptance was overtaken.
LEMMA AcceptKeeps ==
  ASSUME MembersInv, maxMembers' = maxMembers, NEW j \in OrgJobs, AcceptCommits(j)
  PROVE  MembersInv'
<1>1. PICK i, u, row : /\ invite' = [invite EXCEPT ![i] = row]
                       /\ level' = [level EXCEPT ![u] = row.level]
                       /\ i = orgJob[j].inv /\ u = orgJob[j].user /\ row = orgJob[j].row
                       /\ UNCHANGED <<orgKey, orgStatus, day>> /\ Commits(j, "accept")
  BY DEF AcceptCommits, saveInvitation, saveMembership
<1>2. /\ orgStatus # "NONE" /\ WorkOK(orgJob[j]) /\ orgJob[j].op = "accept"
      /\ "accept" \in overtaken' \/ WorkStands(orgJob[j])
      /\ overtaken \subseteq overtaken' /\ JobsStand'
      /\ \A k \in OrgJobs : orgJob'[k] = orgJob[k] \/ orgJob'[k] = NoWork
  BY <1>1, CommitsEnd DEF writesTo
<1>3. /\ i \in Invites /\ u \in Users /\ row \in InviteRows /\ row.status = "ACCEPTED"
      /\ "accept" \in overtaken' \/ (level[u] = NONE /\ countMembers < maxMembers)
  BY <1>1, <1>2 DEF WorkOK, WorkStands
<1>4. row.level \in RoleLevel /\ row.level # NONE
  BY <1>3 DEF InviteRows, RoleLevel, OWNER, ADMIN, MEMBER, NONE
<1>5. /\ invite'[i] = row /\ \A k \in Invites : k # i => invite'[k] = invite[k]
      /\ level'[u] = row.level /\ \A v \in Users : v # u => level'[v] = level[v]
      /\ MemberRows'
  BY <1>1, <1>3, <1>4 DEF MembersInv, MemberRows
<1>6. \A ops : Raced(ops) => Raced(ops)'
  BY <1>2 DEF Raced
<1>7. "accept" \in overtaken' => Raced({"accept", "role", "remove"})' /\ Raced({"accept", "transfer"})'
  BY DEF Raced
<1>8. Owned'
  <2>1. CASE "accept" \in overtaken'
    BY <1>7, <2>1 DEF Owned
  <2>2. CASE level[u] = NONE
    <3>1. Raced({"accept", "role", "remove"})' \/ ~Raced({"accept", "role", "remove"})
      BY <1>6
    <3>2. ASSUME NEW o \in Users, level[o] = OWNER PROVE level'[o] = OWNER
      BY <1>5, <2>2, <3>2 DEF OWNER, NONE
    <3> QED BY <1>2, <3>1, <3>2 DEF MembersInv, Owned
  <2> QED BY <1>3, <2>1, <2>2
<1>9. MembersNow' = MembersNow \cup {u}
  BY <1>3, <1>4, <1>5 DEF MembersNow
<1>10. Room'
  <2>1. u \in AcceptedNow
    BY <1>1, <1>2, <1>3 DEF AcceptedNow
  <2>2. EverMembers' \subseteq EverMembers /\ SoonMembers' \subseteq SoonMembers
    BY <1>2, <1>9, <2>1, NobodyNamed DEF EverMembers, SoonMembers
  <2>3. Raced({"accept", "transfer"})' \/ countMembers' =< maxMembers
    <3> SUFFICES ASSUME "accept" \notin overtaken' PROVE countMembers' =< maxMembers
      BY <1>7
    <3>1. u \notin MembersNow /\ countMembers < maxMembers
      BY <1>3 DEF MembersNow
    <3>2. IsFiniteSet(MembersNow)
      BY MembersCounted DEF MembersNow
    <3>3. countMembers' = countMembers + 1
      BY <1>9, <3>1, <3>2, FS_AddElement DEF countMembers
    <3> QED BY <3>1, <3>3, MembersCounted DEF MembersInv, MemberRows
  <2> QED BY <1>2, <2>2, <2>3, RoomStays
<1>11. NoKeysLeft'
  BY <1>1, <1>3, <1>4, <1>5, <1>6 DEF MembersInv, NoKeysLeft, MemberRows
<1>12. NoInvitesLeft' /\ OnePending'
  <2>1. \A v \in Users : level'[v] = NONE => level[v] = NONE
    BY <1>4, <1>5
  <2>2. \A k \in Invites : invite'[k].status = "PENDING" =>
          invite'[k] = invite[k] /\ invite[k].status = "PENDING" /\ invite[k].by \in Users
    BY <1>3, <1>5 DEF MembersInv, MemberRows, InviteRows, NoInvite
  <2> QED BY <1>6, <2>1, <2>2 DEF MembersInv, NoInvitesLeft, OnePending
<1> QED BY <1>1, <1>2, <1>5, <1>8, <1>10, <1>11, <1>12 DEF MembersInv, Empty

\* A role changes, and one owner hands over: somebody stays owner.
LEMMA RoleCommits ==
  ASSUME MembersInv, maxMembers' = maxMembers, NEW j \in OrgJobs,
         ChangeRoleCommits(j) \/ TransferCommits(j)
  PROVE  MembersInv'
<1> USE DEF saveMembership
<1>1. CASE ChangeRoleCommits(j)
  <2>1. PICK u, l : /\ level' = [level EXCEPT ![u] = l] /\ level[u] # NONE
                    /\ u = orgJob[j].user /\ l = orgJob[j].level
                    /\ UNCHANGED <<invite, orgKey, orgStatus, day>> /\ Commits(j, "role")
    BY <1>1 DEF ChangeRoleCommits
  <2>2. /\ orgStatus # "NONE" /\ WorkOK(orgJob[j]) /\ orgJob[j].op = "role"
        /\ "role" \in overtaken' \/ WorkStands(orgJob[j])
        /\ overtaken \subseteq overtaken' /\ JobsStand'
        /\ \A k \in OrgJobs : orgJob'[k] = orgJob[k] \/ orgJob'[k] = NoWork
    BY <2>1, CommitsEnd DEF writesTo
  <2>3. u \in Users /\ l \in RoleLevel /\ ("role" \in overtaken' \/ level[u] # OWNER)
    BY <2>1, <2>2 DEF WorkOK, WorkStands
  <2>4. /\ level'[u] = l /\ l # NONE /\ \A v \in Users : v # u => level'[v] = level[v]
        /\ MemberRows'
    BY <2>1, <2>3 DEF MembersInv, MemberRows, RoleLevel, OWNER, ADMIN, MEMBER, NONE
  <2>5. \A ops : Raced(ops) => Raced(ops)'
    BY <2>2 DEF Raced
  <2>6. Owned'
    <3>1. CASE "role" \in overtaken'
      BY <3>1 DEF Owned, Raced
    <3>2. CASE level[u] # OWNER
      <4>1. Raced({"accept", "role", "remove"})' \/ ~Raced({"accept", "role", "remove"})
        BY <2>5
      <4>2. ASSUME NEW o \in Users, level[o] = OWNER PROVE level'[o] = OWNER
        BY <2>4, <3>2, <4>2
      <4> QED BY <2>2, <4>1, <4>2 DEF MembersInv, Owned
    <3> QED BY <2>3, <3>1, <3>2
  <2>7. Room'
    BY <2>1, <2>2, <2>4, RoomKept
  <2>8. \A v \in Users : level'[v] = NONE => level[v] = NONE
    BY <2>4
  <2>9. NoKeysLeft'
    BY <2>1, <2>5, <2>8 DEF MembersInv, NoKeysLeft
  <2>10. NoInvitesLeft' /\ OnePending'
    <3>1. \A k \in Invites : invite[k].status = "PENDING" => invite[k].by \in Users
      BY DEF MembersInv, MemberRows, InviteRows, NoInvite
    <3> QED BY <2>1, <2>5, <2>8, <3>1 DEF MembersInv, NoInvitesLeft, OnePending
  <2> QED BY <2>1, <2>2, <2>4, <2>6, <2>7, <2>9, <2>10 DEF MembersInv, Empty
<1>2. CASE TransferCommits(j)
  <2>1. PICK u, t : /\ level' = [level EXCEPT ![t] = OWNER, ![u] = ADMIN]
                    /\ u = orgJob[j].user /\ t = orgJob[j].target
                    /\ UNCHANGED <<invite, orgKey, orgStatus, day>> /\ Commits(j, "transfer")
    BY <1>2 DEF TransferCommits
  <2>2. /\ orgStatus # "NONE" /\ WorkOK(orgJob[j]) /\ orgJob[j].op = "transfer"
        /\ "transfer" \in overtaken' \/ WorkStands(orgJob[j])
        /\ overtaken \subseteq overtaken' /\ JobsStand'
        /\ \A k \in OrgJobs : orgJob'[k] = orgJob[k] \/ orgJob'[k] = NoWork
    BY <2>1, CommitsEnd DEF writesTo
  <2>3. /\ u \in Users /\ t \in Users /\ u # t
        /\ "transfer" \in overtaken' \/ (level[u] # NONE /\ level[t] # NONE)
    BY <2>1, <2>2 DEF WorkOK, WorkStands
  <2>4. /\ level'[u] = ADMIN /\ level'[t] = OWNER /\ \A v \in Users \ {u, t} : level'[v] = level[v]
        /\ level' \in [Users -> RoleLevel \cup {NONE}]
    BY <2>1, <2>3 DEF MembersInv, MemberRows, RoleLevel
  <2>5. MemberRows' /\ Owned'
    BY <2>1, <2>3, <2>4 DEF MembersInv, MemberRows, Owned
  <2>6. \A ops : Raced(ops) => Raced(ops)'
    BY <2>2 DEF Raced
  <2>7. Room'
    <3>1. CASE "transfer" \in overtaken'
      <4>1. Raced({"transfer"})' /\ Raced({"accept", "transfer"})'
        BY <3>1 DEF Raced
      <4>2. u \in TransferFrom /\ t \in TransferTo
        BY <2>1, <2>2, <2>3 DEF TransferFrom, TransferTo
      <4>3. MembersNow' \subseteq MembersNow \cup {u, t}
        BY <2>4 DEF MembersNow
      <4>4. EverMembers' \subseteq EverMembers
        BY <2>2, <4>2, <4>3, NobodyNamed DEF EverMembers
      <4> QED BY <2>2, <4>1, <4>4, RoomStays
    <3>2. CASE level[u] # NONE /\ level[t] # NONE
      <4>1. \A v \in Users : level'[v] # NONE => level[v] # NONE
        BY <2>4, <3>2
      <4> QED BY <2>2, <4>1, RoomKept
    <3> QED BY <2>3, <3>1, <3>2
  <2>8. \A v \in Users : level'[v] = NONE => level[v] = NONE
    BY <2>3, <2>4 DEF OWNER, ADMIN, NONE
  <2>9. NoKeysLeft'
    BY <2>1, <2>6, <2>8 DEF MembersInv, NoKeysLeft
  <2>10. NoInvitesLeft' /\ OnePending'
    <3>1. \A k \in Invites : invite[k].status = "PENDING" => invite[k].by \in Users
      BY DEF MembersInv, MemberRows, InviteRows, NoInvite
    <3> QED BY <2>1, <2>6, <2>8, <3>1 DEF MembersInv, NoInvitesLeft, OnePending
  <2> QED BY <2>1, <2>2, <2>5, <2>7, <2>9, <2>10 DEF MembersInv, Empty
<1> QED BY <1>1, <1>2

\* Who leaves leaves an owner, no invitation, and no key but one the departure did
\* not see.
LEMMA RemoveKeeps ==
  ASSUME MembersInv, maxMembers' = maxMembers, NEW j \in OrgJobs, RemoveCommits(j)
  PROVE  MembersInv'
<1>1. PICK u, keys : /\ level' = [level EXCEPT ![u] = NONE]
                     /\ orgKey' = revokeKeys(keys) /\ invite' = cancelInvitesOf(u)
                     /\ u = orgJob[j].user /\ keys = orgJob[j].keys
                     /\ UNCHANGED <<orgStatus, day>> /\ Commits(j, "remove")
  BY DEF RemoveCommits, revokeAccess, deleteMembership
<1>2. /\ orgStatus # "NONE" /\ WorkOK(orgJob[j]) /\ orgJob[j].op = "remove"
      /\ "remove" \in overtaken' \/ WorkStands(orgJob[j])
      /\ overtaken \subseteq overtaken' /\ JobsStand'
      /\ \A k \in OrgJobs : orgJob'[k] = orgJob[k] \/ orgJob'[k] = NoWork
  BY <1>1, CommitsEnd DEF writesTo
<1>3. /\ u \in Users
      /\ \/ "remove" \in overtaken'
         \/ /\ keys = {v \in {u} : orgKey[v] = "ACTIVE"}
            /\ level[u] = OWNER => \E v \in Users \ {u} : level[v] = OWNER
  BY <1>1, <1>2 DEF WorkOK, WorkStands
<1>4. /\ level'[u] = NONE /\ \A v \in Users : v # u => level'[v] = level[v]
      /\ level' \in [Users -> RoleLevel \cup {NONE}]
  BY <1>1, <1>3 DEF MembersInv, MemberRows
<1>5. /\ orgKey' \in [Users -> {"NONE", "ACTIVE", "REVOKED"}]
      /\ \A v \in Users : orgKey'[v] = "ACTIVE" => orgKey[v] = "ACTIVE" /\ v \notin keys
  BY <1>1 DEF revokeKeys, MembersInv, MemberRows
<1>6. /\ invite' \in [Invites -> InviteRows \cup {NoInvite}]
      /\ \A i \in Invites : invite'[i].status = "PENDING" =>
           invite'[i] = invite[i] /\ invite[i].by # u /\ invite[i].by \in Users
  <2>1. \A x \in InviteRows : cancelInvite(x) \in InviteRows /\ cancelInvite(x).status = "CANCELED"
    BY DEF cancelInvite, InviteRows
  <2>2. \A i \in Invites : invite[i].status = "PENDING" => invite[i] \in InviteRows
    BY DEF MembersInv, MemberRows, NoInvite
  <2>3. \A i \in Invites : invite'[i] = IF invite[i].status = "PENDING" /\ invite[i].by = u
                                        THEN cancelInvite(invite[i]) ELSE invite[i]
    BY <1>1 DEF cancelInvitesOf
  <2>4. \A i \in Invites : invite'[i] \in InviteRows \cup {NoInvite}
    BY <2>1, <2>2, <2>3 DEF MembersInv, MemberRows
  <2>5. invite' \in [Invites -> InviteRows \cup {NoInvite}]
    BY <1>1, <2>4 DEF cancelInvitesOf
  <2>6. \A x \in InviteRows : x.by \in Users
    BY DEF InviteRows
  <2> QED BY <2>1, <2>2, <2>3, <2>5, <2>6
<1>7. \A ops : Raced(ops) => Raced(ops)'
  BY <1>2 DEF Raced
<1>8. Owned'
  <2>1. CASE "remove" \in overtaken'
    BY <2>1 DEF Owned, Raced
  <2>2. CASE level[u] = OWNER => \E v \in Users \ {u} : level[v] = OWNER
    <3>1. Raced({"accept", "role", "remove"})' \/ ~Raced({"accept", "role", "remove"})
      BY <1>7
    <3>2. (\E o \in Users : level[o] = OWNER) => \E o \in Users \ {u} : level[o] = OWNER
      BY <2>2
    <3> QED BY <1>2, <1>4, <3>1, <3>2 DEF MembersInv, Owned
  <2> QED BY <1>3, <2>1, <2>2
<1>9. NoKeysLeft'
  <2>1. CASE "remove" \in overtaken'
    BY <2>1 DEF NoKeysLeft, Raced
  <2>2. CASE keys = {v \in {u} : orgKey[v] = "ACTIVE"}
    <3>1. Raced({"key", "remove"})' \/ ~Raced({"key", "remove"})
      BY <1>7
    <3>2. orgKey'[u] # "ACTIVE"
      BY <1>3, <1>5, <2>2
    <3> QED BY <1>4, <1>5, <3>1, <3>2 DEF MembersInv, NoKeysLeft
  <2> QED BY <1>3, <2>1, <2>2
<1>10. NoInvitesLeft' /\ OnePending'
  BY <1>4, <1>6, <1>7 DEF MembersInv, NoInvitesLeft, OnePending
<1>11. Room'
  BY <1>2, <1>4, RoomKept
<1>12. MemberRows'
  BY <1>1, <1>4, <1>5, <1>6 DEF MembersInv, MemberRows
<1> QED BY <1>1, <1>2, <1>8, <1>9, <1>10, <1>11, <1>12 DEF MembersInv, Empty

\* The steps that are not about members or invitations, and the first one.
LEMMA OtherMemberSteps ==
  ASSUME MembersInv, maxMembers' = maxMembers,
         \/ postOrganizations \/ BillingWrites \/ DayPasses
         \/ \E j \in OrgJobs : RenameCommits(j) \/ KeyCommits(j) \/ WorkFails(j)
  PROVE  MembersInv'
<1>1. CASE postOrganizations
  <2>1. PICK u \in Users : CreateOrganization(u)
    BY <1>1 DEF postOrganizations
  <2>2. /\ \A v \in Users : level[v] = NONE
        /\ level'[u] = OWNER /\ \A v \in Users : v # u => level'[v] = NONE
        /\ level' \in [Users -> RoleLevel \cup {NONE}]
        /\ UNCHANGED <<invite, orgKey, orgJob, day, stale, overtaken>>
        /\ orgStatus' = "ACTIVE" /\ orgStatus = "NONE"
    BY <2>1 DEF CreateOrganization, saveMembership, MembersInv, MemberRows, Empty, RoleLevel, raceVars
  <2>3. \A j \in OrgJobs : orgJob[j] = NoWork
    BY <2>2 DEF MembersInv, JobsStand
  <2>4. JobsStand'
    BY <2>2, <2>3 DEF MembersInv, JobsStand
  <2>5. Room'
    <3>1. MembersNow' = {u}
      BY <2>2 DEF MembersNow, OWNER, NONE
    <3>2. AcceptedNow' = {} /\ TransferFrom' = {} /\ TransferTo' = {}
      BY <2>2, <2>3 DEF AcceptedNow, TransferFrom, TransferTo, NoWork
    <3>3. EverMembers' = {u} /\ SoonMembers' = {u}
      BY <3>1, <3>2 DEF EverMembers, SoonMembers
    <3>4. Cardinality({u}) = 1
      BY FS_Singleton
    <3>5. /\ Cardinality(EverMembers') = 1 /\ Cardinality(SoonMembers') = 1 /\ countMembers' = 1
          /\ AtOnce' = AtOnce /\ maxMembers' \in Nat \ {0}
      BY <3>1, <3>3, <3>4 DEF countMembers, AtOnce, MembersInv, MemberRows
    <3> QED BY <3>5, MembersCounted DEF Room
  <2> QED BY <2>2, <2>4, <2>5
      DEF MembersInv, MemberRows, Owned, NoKeysLeft, NoInvitesLeft, OnePending, Empty, Raced, NoInvite
<1>2. CASE BillingWrites
  <2>1. /\ UNCHANGED <<level, invite, orgKey, orgJob, day, stale, overtaken>>
        /\ orgStatus' = "SUSPENDED" /\ orgStatus = "ACTIVE"
    BY <1>2 DEF BillingWrites, raceVars
  <2>2. countMembers' = countMembers
    BY <2>1 DEF countMembers, MembersNow
  <2>3. JobsStand'
    BY <2>1, <2>2 DEF MembersInv, JobsStand, WorkStands, WorkOK
  <2>4. Room'
    BY <2>1, RoomKept
  <2> QED BY <2>1, <2>3, <2>4
      DEF MembersInv, MemberRows, Owned, NoKeysLeft, NoInvitesLeft, OnePending, Empty, Raced
<1>3. CASE DayPasses
  <2>1. /\ UNCHANGED <<level, invite, orgKey, orgStatus, orgJob, stale, overtaken>>
        /\ day' \in 0..MaxDay
    BY <1>3, MembersAssumption DEF DayPasses, MembersInv, MemberRows, raceVars
  <2>2. \A j \in OrgJobs : orgJob'[j] = NoWork
    BY <1>3 DEF DayPasses
  <2>3. JobsStand'
    BY <2>1, <2>2 DEF MembersInv, JobsStand
  <2>4. Room'
    BY <2>1, RoomKept
  <2> QED BY <2>1, <2>3, <2>4
      DEF MembersInv, MemberRows, Owned, NoKeysLeft, NoInvitesLeft, OnePending, Empty, Raced
<1>4. ASSUME NEW j \in OrgJobs, RenameCommits(j) PROVE MembersInv'
  <2>1. UNCHANGED <<level, invite, orgKey, day>> /\ Commits(j, "rename") /\ orgStatus' = orgJob[j].status
    BY <1>4 DEF RenameCommits
  <2>2. orgStatus # "NONE" => orgStatus' # "NONE"
    BY <2>1 DEF Commits, MembersInv, JobsStand, WorkOK, NoWork
  <2>3. /\ orgStatus # "NONE" /\ overtaken \subseteq overtaken' /\ JobsStand'
        /\ \A k \in OrgJobs : orgJob'[k] = orgJob[k] \/ orgJob'[k] = NoWork
    BY <2>1, <2>2, CommitsEnd
  <2>4. Room'
    BY <2>1, <2>3, RoomKept
  <2>5. \A ops : Raced(ops) => Raced(ops)'
    BY <2>3 DEF Raced
  <2>6. Owned' /\ NoKeysLeft' /\ NoInvitesLeft' /\ OnePending'
    BY <2>1, <2>3, <2>5 DEF MembersInv, Owned, NoKeysLeft, NoInvitesLeft, OnePending
  <2> QED BY <2>1, <2>2, <2>3, <2>4, <2>6 DEF MembersInv, MemberRows, Empty
<1>5. ASSUME NEW j \in OrgJobs, KeyCommits(j) PROVE MembersInv'
  <2>1. PICK u : /\ orgKey' = [orgKey EXCEPT ![u] = "ACTIVE"] /\ u = orgJob[j].user
                 /\ UNCHANGED <<level, invite, orgStatus, day>> /\ Commits(j, "key")
    BY <1>5 DEF KeyCommits
  <2>2. /\ orgStatus # "NONE" /\ WorkOK(orgJob[j]) /\ orgJob[j].op = "key"
        /\ "key" \in overtaken' \/ WorkStands(orgJob[j])
        /\ overtaken \subseteq overtaken' /\ JobsStand'
        /\ \A k \in OrgJobs : orgJob'[k] = orgJob[k] \/ orgJob'[k] = NoWork
    BY <2>1, CommitsEnd DEF writesTo
  <2>3. u \in Users /\ ("key" \in overtaken' \/ level[u] # NONE)
    BY <2>1, <2>2 DEF WorkOK, WorkStands
  <2>4. /\ MemberRows' /\ \A v \in Users : v # u => orgKey'[v] = orgKey[v]
    BY <2>1, <2>3 DEF MembersInv, MemberRows
  <2>5. \A ops : Raced(ops) => Raced(ops)'
    BY <2>2 DEF Raced
  <2>6. NoKeysLeft'
    <3>1. CASE "key" \in overtaken'
      BY <3>1 DEF NoKeysLeft, Raced
    <3>2. CASE level[u] # NONE
      BY <2>1, <2>4, <2>5, <3>2 DEF MembersInv, NoKeysLeft
    <3> QED BY <2>3, <3>1, <3>2
  <2>7. Room'
    BY <2>1, <2>2, RoomKept
  <2>8. Owned' /\ NoInvitesLeft' /\ OnePending'
    BY <2>1, <2>5 DEF MembersInv, Owned, NoInvitesLeft, OnePending
  <2> QED BY <2>1, <2>2, <2>4, <2>6, <2>7, <2>8 DEF MembersInv, Empty
<1>6. ASSUME NEW j \in OrgJobs, WorkFails(j) PROVE MembersInv'
  <2>1. /\ UNCHANGED <<level, invite, orgKey, orgStatus, day, overtaken>>
        /\ orgJob' = [orgJob EXCEPT ![j] = NoWork] /\ stale' = stale \ {j}
    BY <1>6 DEF WorkFails
  <2>2. /\ orgJob' = [k \in OrgJobs |-> orgJob'[k]] /\ orgJob'[j] = NoWork
        /\ \A k \in OrgJobs : k # j => orgJob'[k] = orgJob[k]
    BY <2>1 DEF MembersInv, JobsStand
  <2>3. countMembers' = countMembers
    BY <2>1 DEF countMembers, MembersNow
  <2>4. ASSUME NEW k \in OrgJobs, orgJob'[k] # NoWork
        PROVE  WorkOK(orgJob[k])' /\ (k \in stale' \/ WorkStands(orgJob[k])')
    <3>1. PICK w : w = orgJob[k]
      OBVIOUS
    <3>2. k # j /\ orgJob'[k] = w /\ WorkOK(w) /\ (k \in stale \/ WorkStands(w))
      BY <2>2, <2>4, <3>1 DEF MembersInv, JobsStand
    <3>3. WorkOK(orgJob[k])'
      BY <3>2 DEF WorkOK
    <3>4. WorkStands(w) => WorkStands(w)'
      BY <2>1, <2>3 DEF WorkStands
    <3>5. WorkStands(w)' => WorkStands(orgJob[k])'
      BY <3>2 DEF WorkStands
    <3> QED BY <2>1, <3>2, <3>3, <3>4, <3>5
  <2>5. JobsStand'
    BY <2>1, <2>2, <2>4 DEF MembersInv, JobsStand
  <2>6. Room'
    BY <2>1, <2>2, RoomKept
  <2> QED BY <2>1, <2>5, <2>6
      DEF MembersInv, MemberRows, Owned, NoKeysLeft, NoInvitesLeft, OnePending, Empty, Raced
<1> QED BY <1>1, <1>2, <1>3, <1>4, <1>5, <1>6

\* The invariant says all that MembersSound does: what remains is that three
\* levels are ordered as the dashboard's buttons and the use cases' guards have it.
LEMMA MembersInvSound ==
  ASSUME MembersInv
  PROVE  MembersSound
<1>1. MembersTypeOK
  BY DEF MembersInv, MemberRows, MembersTypeOK, InviteRows, JobsStand
<1>2. HasOwner
  BY MembersCounted DEF MembersInv, Owned, HasOwner
<1>3. WithinMemberLimit
  <2>1. /\ MembersNow \subseteq EverMembers /\ MembersNow \subseteq SoonMembers
        /\ EverMembers \in SUBSET Users /\ SoonMembers \in SUBSET Users
    BY DEF MembersNow, EverMembers, SoonMembers, AcceptedNow, TransferFrom, TransferTo
  <2>2. /\ countMembers =< Cardinality(EverMembers) /\ countMembers =< Cardinality(SoonMembers)
        /\ Cardinality(EverMembers) \in Nat /\ Cardinality(SoonMembers) \in Nat
    BY <2>1, MembersCounted, FS_Subset DEF countMembers
  <2>3. countMembers \in Nat /\ maxMembers \in Nat /\ AtOnce \in Nat
    BY MembersCounted DEF MembersInv, MemberRows
  <2>4. Room
    BY DEF MembersInv
  <2> QED BY <2>2, <2>3, <2>4 DEF Room, WithinMemberLimit
<1>4. NothingLeftBehind
  <2>1. \A i \in Invites : invite[i].status = "PENDING" => invite[i].by \in Users
    BY DEF MembersInv, MemberRows, InviteRows, NoInvite
  <2> QED BY <2>1 DEF MembersInv, NoKeysLeft, NoInvitesLeft, NothingLeftBehind
<1>5. DashboardHonest
  <2>1. \A u \in Users : level[u] \in {0, 10, 70, 100}
    BY DEF MembersInv, MemberRows, RoleLevel, OWNER, ADMIN, MEMBER, NONE
  <2>2. \A u \in Users : isAdmin(level[u]) <=> mayInvite(level[u], MEMBER)
    BY <2>1 DEF isAdmin, mayInvite, OWNER, ADMIN, MEMBER
  <2>3. ASSUME NEW u \in Users, NEW t \in Users, level[u] # NONE, level[t] # NONE
        PROVE  canManage(level[u], level[t]) <=> mayRemove(level[u], level[t])
    BY <2>1, <2>3 DEF canManage, mayRemove, isAdmin, isOwner, OWNER, ADMIN, NONE
  <2>4. ASSUME NEW u \in Users, NEW i \in getInvitations(u, "PENDING"),
               NEW k \in getInvitations(u, "PENDING"), invite[i].email = invite[k].email
        PROVE  i = k \/ Raced({"invite"})
    BY <2>4 DEF getInvitations, findInvitesByStatus, MembersInv, OnePending
  <2>5. \A u \in Users : getOrganization(u).isAdmin = isAdmin(level[u])
    BY DEF getOrganization
  <2>6. \A u, t \in Users : getMember(u, t).canManage = canManage(level[u], level[t])
    BY DEF getMember
  <2> QED BY <2>2, <2>3, <2>4, <2>5, <2>6 DEF DashboardHonest
<1> QED BY <1>1, <1>2, <1>3, <1>4, <1>5 DEF MembersSound

(* No sequence of requests, however they overlap and fail, leaves an           *)
(* organization without an owner, over its plan's members, with a key or an    *)
(* invitation of a former member, or a dashboard that offers what the server   *)
(* refuses, but where a request of the kinds MembersSound names had been       *)
(* overtaken when it committed; and the members then exceed the plan by the    *)
(* requests at once, not by how often they overlap (account.routes, the        *)
(* account use cases): for any people, invitations, limits and requests.       *)
THEOREM MembersCorrect == MembersSpec => []MembersSound
<1>1. MembersInit => MembersInv
  <2> SUFFICES ASSUME MembersInit PROVE MembersInv
    OBVIOUS
  <2> USE DEF MembersInit
  <2>1. /\ MemberRows /\ Owned /\ NoKeysLeft /\ NoInvitesLeft /\ OnePending /\ JobsStand /\ Empty
    BY MembersAssumption
    DEF MemberRows, Owned, NoKeysLeft, NoInvitesLeft, OnePending, JobsStand, Empty, NoInvite
  <2>2. /\ MembersNow = {} /\ AcceptedNow = {} /\ TransferFrom = {} /\ TransferTo = {}
    BY DEF MembersNow, AcceptedNow, TransferFrom, TransferTo, NoWork
  <2>3. EverMembers = {} /\ SoonMembers = {}
    BY <2>2 DEF EverMembers, SoonMembers
  <2>4. Cardinality(EverMembers) = 0 /\ Cardinality(SoonMembers) = 0 /\ countMembers = 0
    BY <2>2, <2>3, FS_EmptySet DEF countMembers
  <2>5. Room
    BY <2>1, <2>4, MembersCounted DEF Room, MemberRows
  <2> QED BY <2>1, <2>5 DEF MembersInv
<1>2. MembersInv /\ [MembersNext /\ UNCHANGED maxMembers]_orgVars => MembersInv'
  <2>1. MembersInv /\ UNCHANGED orgVars => MembersInv'
    <3> SUFFICES ASSUME MembersInv, UNCHANGED orgVars PROVE MembersInv'
      OBVIOUS
    <3>1. UNCHANGED <<level, invite, orgKey, orgStatus, maxMembers, orgJob, day, stale, overtaken>>
      BY DEF orgVars, raceVars
    <3>2. countMembers' = countMembers /\ Room'
      BY <3>1, RoomKept DEF countMembers, MembersNow
    <3>3. JobsStand'
      BY <3>1, <3>2 DEF MembersInv, JobsStand, WorkStands, WorkOK
    <3> QED BY <3>1, <3>2, <3>3
        DEF MembersInv, MemberRows, Owned, NoKeysLeft, NoInvitesLeft, OnePending, Empty, Raced
  <2>2. ASSUME MembersInv, MembersNext, maxMembers' = maxMembers PROVE MembersInv'
    BY <2>2, MemberReads, InvitationCommits, AcceptKeeps, RoleCommits, RemoveKeeps, OtherMemberSteps
    DEF MembersNext, postInvite, postAccept, patchRole, deleteMember, postTransfer,
        deleteInvitation, patchOrganization
  <2> QED BY <2>1, <2>2
<1>3. MembersInv => MembersSound
  BY MembersInvSound
<1> QED BY <1>1, <1>2, <1>3, PTL DEF MembersSpec

-----------------------------------------------------------------------------
(***************************************************************************)
(* The account's standing, whatever overlaps.                              *)
(***************************************************************************)
EventStatus ==
  {"incomplete", "active", "past_due", "unpaid", "canceled",
   "draft", "open", "paid", "uncollectible"}
Events ==
  [n : Nat, kind : {"upsert", "deleted", "succeeded", "failed", "invoice"},
   sub : Subs, status : EventStatus, plan : Plans]
SubRows == [status : SubscriptionStatus \cup {"none"}, plan : Plans]
Handling ==
  {h \in [pc : {"invoice", "read", "save", "account", "deadline", "notify"},
          ev : Events, row : SubRows] :
     h.ev.kind = "invoice" => h.pc = "invoice"}

StandingRows ==
  /\ billing \in [Accounts -> [status : BillingStatus, graceEndsAt : {NoDeadline} \cup Nat,
                               customer : Nat]]
  /\ subRow \in [Subs -> SubRows]
  /\ \A s \in Subs : subRow[s].status = "none" => subRow[s] = NoRow
  /\ invoiceRow \in [Subs -> {"none"} \cup InvoiceStatus]
  /\ worker \subseteq Accounts
  /\ now \in 0..MaxClock /\ posted \in 0..MaxEvents /\ retries \in 0..MaxRetries
  /\ graces \in [Accounts -> Nat] /\ failedMails \in [Accounts -> Nat]

StripeRows ==
  /\ stripe \in [Subs -> [status : {"none", "incomplete", "active", "past_due", "unpaid", "canceled"},
                          plan : Plans]]
  /\ stripeInvoice \in [Subs -> {"draft", "paid", "open", "uncollectible"}]
  /\ inflight \subseteq Events

HandlersShape ==
  /\ delivery = [d \in Deliveries |-> delivery[d]]
  /\ \A d \in Deliveries : delivery[d] = IdleDelivery \/ delivery[d] \in Handling

CheckoutsShape ==
  /\ customers \in Nat /\ checkout = [c \in Checkouts |-> checkout[c]]
  /\ \A c \in Checkouts :
       \/ checkout[c].pc = "idle"
       \/ /\ checkout[c] \in [pc : {"customer", "session"}, account : Accounts]
       \/ /\ checkout[c] \in [pc : {"store"}, account : Accounts, id : Nat]

\* The handlers that will mail a failed payment of the account.
WillMail(a) ==
  {d \in Deliveries : /\ delivery[d].pc = "notify" /\ delivery[d].ev.kind = "failed"
                      /\ AccountOf[delivery[d].ev.sub] = a}
MailsDue ==
  \A a \in Accounts : failedMails[a] + Cardinality(WillMail(a)) =< graces[a]

StandingInv ==
  /\ StandingRows /\ StripeRows /\ HandlersShape /\ CheckoutsShape
  /\ DeadlineIffPastDue /\ MailsDue

\* What a change of the account's row leaves true of it.
StandingKept ==
  /\ billing' \in [Accounts -> [status : BillingStatus, graceEndsAt : {NoDeadline} \cup Nat,
                                customer : Nat]]
  /\ DeadlineIffPastDue' /\ GraceNotExtended /\ NotRevived

\* The account repository's updates, each guarded by the status it expects.
LEMMA RowChanges ==
  ASSUME StandingInv, NEW a \in Accounts, NEW row,
         row \in [status : BillingStatus, graceEndsAt : {NoDeadline} \cup Nat, customer : Nat],
         row.status = "PAST_DUE" <=> row.graceEndsAt # NoDeadline,
         row.status = "PAST_DUE" /\ billing[a].status = "PAST_DUE" =>
           row.graceEndsAt = billing[a].graceEndsAt,
         billing[a].status \in {"SUSPENDED", "CANCELED"} => row.status \in {"SUSPENDED", "CANCELED"},
         billing' = [billing EXCEPT ![a] = row]
  PROVE  StandingKept
<1>1. /\ billing'[a] = row /\ \A b \in Accounts : b # a => billing'[b] = billing[b]
      /\ billing' \in [Accounts -> [status : BillingStatus, graceEndsAt : {NoDeadline} \cup Nat,
                                    customer : Nat]]
  BY DEF StandingInv, StandingRows
<1>2. DeadlineIffPastDue'
  BY <1>1 DEF StandingInv, DeadlineIffPastDue
<1>3. GraceNotExtended /\ NotRevived
  BY <1>1 DEF GraceNotExtended, NotRevived
<1> QED BY <1>1, <1>2, <1>3 DEF StandingKept

LEMMA RowSame ==
  ASSUME StandingInv, billing' = billing
  PROVE  StandingKept
BY DEF StandingInv, StandingRows, StandingKept, DeadlineIffPastDue, GraceNotExtended, NotRevived

\* The row of an account with another status and deadline.
LEMMA StatusRow ==
  ASSUME StandingInv, NEW a \in Accounts, NEW st \in BillingStatus,
         NEW deadline \in {NoDeadline} \cup Nat, SetStatus(a, st, deadline)
  PROVE  \E row \in [status : BillingStatus, graceEndsAt : {NoDeadline} \cup Nat, customer : Nat] :
           /\ row.status = st /\ row.graceEndsAt = deadline
           /\ billing' = [billing EXCEPT ![a] = row]
<1>1. PICK s0 \in BillingStatus, g0 \in {NoDeadline} \cup Nat, c0 \in Nat :
        billing[a] = [status |-> s0, graceEndsAt |-> g0, customer |-> c0]
  BY DEF StandingInv, StandingRows
<1>2. PICK row : row = [status |-> st, graceEndsAt |-> deadline, customer |-> c0]
  OBVIOUS
<1>3. /\ row \in [status : BillingStatus, graceEndsAt : {NoDeadline} \cup Nat, customer : Nat]
      /\ row.status = st /\ row.graceEndsAt = deadline
  BY <1>2
<1>4. [[billing[a] EXCEPT !.status = st] EXCEPT !.graceEndsAt = deadline] = row
  <2>1. [[status |-> s0, graceEndsAt |-> g0, customer |-> c0] EXCEPT !.status = st]
          = [status |-> st, graceEndsAt |-> g0, customer |-> c0]
    OBVIOUS
  <2>2. [[status |-> st, graceEndsAt |-> g0, customer |-> c0] EXCEPT !.graceEndsAt = deadline] = row
    BY <1>2
  <2> QED BY <1>1, <2>1, <2>2
<1>5. [billing EXCEPT ![a].status = st, ![a].graceEndsAt = deadline]
        = [billing EXCEPT ![a] = [[billing[a] EXCEPT !.status = st] EXCEPT !.graceEndsAt = deadline]]
  BY DEF StandingInv, StandingRows
<1>6. billing' = [billing EXCEPT ![a] = row]
  BY <1>4, <1>5 DEF SetStatus
<1> QED BY <1>3, <1>6

\* The four updates of the repository, the worker's and the checkout's.
LEMMA UpdatesKeep ==
  ASSUME StandingInv, NEW a \in Accounts,
         \/ SetStatus(a, "PAST_DUE", now + GracePeriod) /\ pastDueFromActive(a)
         \/ markActiveFromPastDue(a)
         \/ updateBillingStatus(a, "CANCELED")
         \/ SetStatus(a, "SUSPENDED", NoDeadline)
         \/ \E id \in Nat : billing' = [billing EXCEPT ![a].customer = id]
  PROVE  StandingKept
<1>0. {"ACTIVE", "PAST_DUE", "SUSPENDED", "CANCELED"} \subseteq BillingStatus
  BY DEF BillingStatus
<1>1. CASE SetStatus(a, "PAST_DUE", now + GracePeriod) /\ pastDueFromActive(a)
  <2>1. now + GracePeriod \in Nat /\ now + GracePeriod # NoDeadline
    BY BillingAssumption DEF StandingInv, StandingRows, NoDeadline
  <2>2. PICK row \in [status : BillingStatus, graceEndsAt : {NoDeadline} \cup Nat, customer : Nat] :
          /\ row.status = "PAST_DUE" /\ row.graceEndsAt = now + GracePeriod
          /\ billing' = [billing EXCEPT ![a] = row]
    BY <1>0, <1>1, <2>1, StatusRow
  <2> QED BY <1>1, <2>1, <2>2, RowChanges DEF pastDueFromActive
<1>2. CASE markActiveFromPastDue(a)
  <2>1. CASE billing[a].status # "PAST_DUE"
    BY <1>2, <2>1, RowSame DEF markActiveFromPastDue
  <2>2. CASE billing[a].status = "PAST_DUE"
    <3>1. SetStatus(a, "ACTIVE", NoDeadline)
      BY <1>2, <2>2 DEF markActiveFromPastDue, SetStatus
    <3>2. PICK row \in [status : BillingStatus, graceEndsAt : {NoDeadline} \cup Nat, customer : Nat] :
            /\ row.status = "ACTIVE" /\ row.graceEndsAt = NoDeadline
            /\ billing' = [billing EXCEPT ![a] = row]
      BY <1>0, <3>1, StatusRow
    <3> QED BY <2>2, <3>2, RowChanges
  <2> QED BY <2>1, <2>2
<1>3. CASE \/ updateBillingStatus(a, "CANCELED")
           \/ SetStatus(a, "SUSPENDED", NoDeadline)
  <2>1. PICK row \in [status : BillingStatus, graceEndsAt : {NoDeadline} \cup Nat, customer : Nat] :
          /\ row.status \in {"SUSPENDED", "CANCELED"} /\ row.graceEndsAt = NoDeadline
          /\ billing' = [billing EXCEPT ![a] = row]
    BY <1>0, <1>3, StatusRow DEF updateBillingStatus
  <2> QED BY <2>1, RowChanges
<1>4. CASE \E id \in Nat : billing' = [billing EXCEPT ![a].customer = id]
  <2>1. PICK id \in Nat : billing' = [billing EXCEPT ![a].customer = id]
    BY <1>4
  <2>2. PICK st \in BillingStatus, g \in {NoDeadline} \cup Nat, c \in Nat :
          billing[a] = [status |-> st, graceEndsAt |-> g, customer |-> c]
    BY DEF StandingInv, StandingRows
  <2>3. PICK row : row = [status |-> st, graceEndsAt |-> g, customer |-> id]
    OBVIOUS
  <2>4. [[status |-> st, graceEndsAt |-> g, customer |-> c] EXCEPT !.customer = id] = row
    BY <2>3
  <2>5. billing' = [billing EXCEPT ![a] = row]
    BY <2>1, <2>2, <2>4
  <2>6. /\ row \in [status : BillingStatus, graceEndsAt : {NoDeadline} \cup Nat, customer : Nat]
        /\ row.status = billing[a].status /\ row.graceEndsAt = billing[a].graceEndsAt
    BY <2>2, <2>3
  <2>7. row.status = "PAST_DUE" <=> row.graceEndsAt # NoDeadline
    BY <2>6 DEF StandingInv, DeadlineIffPastDue
  <2> QED BY <2>5, <2>6, <2>7, RowChanges
<1> QED BY <1>1, <1>2, <1>3, <1>4

\* A handler at work has an event and the row it read.
LEMMA AtWork ==
  ASSUME StandingInv, NEW d \in Deliveries, delivery[d].pc # "idle"
  PROVE  delivery[d] \in Handling /\ delivery[d].ev \in Events /\ delivery[d].row \in SubRows
<1>1. delivery[d] \in Handling
  BY DEF StandingInv, HandlersShape, IdleDelivery
<1> QED BY <1>1 DEF Handling

\* Statuses and rows that handlers write are ones the tables allow.
LEMMA EntityRow ==
  ASSUME StandingInv, NEW d \in Deliveries, delivery[d].pc # "idle",
         delivery[d].ev.kind # "invoice"
  PROVE  Entity(d) \in SubRows /\ Entity(d).status # "none"
<1>1. delivery[d].ev \in Events /\ delivery[d].row \in SubRows
  BY AtWork
<1>2. \A st : mapStripeStatus(st) \in SubscriptionStatus
  BY DEF mapStripeStatus, SubscriptionStatus
<1>3. "none" \notin SubscriptionStatus
  BY DEF SubscriptionStatus
<1>4. CASE delivery[d].ev.kind = "upsert"
  <2>1. Entity(d) = [status |-> mapStripeStatus(delivery[d].ev.status), plan |-> delivery[d].ev.plan]
    BY <1>4 DEF Entity, Subscription_create
  <2> QED BY <1>1, <1>2, <1>3, <2>1 DEF SubRows, Events
<1>5. CASE delivery[d].ev.kind \in {"deleted", "succeeded", "failed"}
  <2>1. NewStatus(delivery[d].ev) \in SubscriptionStatus
    BY <1>5 DEF NewStatus, SubscriptionStatus
  <2>2. Entity(d) = [delivery[d].row EXCEPT !.status = NewStatus(delivery[d].ev)]
    BY <1>5 DEF Entity, applyStripeUpdate
  <2>3. PICK st \in SubscriptionStatus \cup {"none"}, pl \in Plans :
          delivery[d].row = [status |-> st, plan |-> pl]
    BY <1>1 DEF SubRows
  <2>4. Entity(d) = [status |-> NewStatus(delivery[d].ev), plan |-> pl]
    BY <2>2, <2>3
  <2> QED BY <1>3, <2>1, <2>4 DEF SubRows
<1> QED BY <1>1, <1>4, <1>5 DEF Events

LEMMA InvoiceRowOK ==
  ASSUME NEW e
  PROVE  invoiceStatus(e) \in InvoiceStatus
BY DEF invoiceStatus, InvoiceStatus

\* One handler's record changes.
LEMMA HandlerMoves ==
  ASSUME StandingInv, NEW d \in Deliveries, NEW h, h = IdleDelivery \/ h \in Handling,
         delivery' = [delivery EXCEPT ![d] = h]
  PROVE  /\ HandlersShape' /\ delivery'[d] = h
         /\ \A k \in Deliveries : k # d => delivery'[k] = delivery[k]
<1>1. delivery = [k \in Deliveries |-> delivery[k]]
  BY DEF StandingInv, HandlersShape
<1>2. delivery' = [k \in Deliveries |-> IF k = d THEN h ELSE delivery[k]]
  BY <1>1
<1>3. /\ delivery'[d] = h
      /\ \A k \in Deliveries : k # d => delivery'[k] = delivery[k]
  BY <1>2
<1>4. delivery' = [k \in Deliveries |-> delivery'[k]]
  BY <1>2
<1>5. \A k \in Deliveries : delivery'[k] = IdleDelivery \/ delivery'[k] \in Handling
  BY <1>3 DEF StandingInv, HandlersShape
<1> QED BY <1>3, <1>4, <1>5 DEF HandlersShape, Handling, IdleDelivery

\* A handler goes on to its next await with the event and the row it has.
LEMMA GoesOn ==
  ASSUME StandingInv, NEW d \in Deliveries, delivery[d].pc # "idle",
         delivery[d].ev.kind # "invoice",
         NEW pc \in {"read", "save", "account", "deadline", "notify"}, Goto(d, pc)
  PROVE  \E h \in Handling : /\ h.pc = pc /\ h.ev = delivery[d].ev /\ h.row = delivery[d].row
                             /\ delivery' = [delivery EXCEPT ![d] = h]
<1>1. delivery[d] \in Handling
  BY AtWork
<1>2. PICK p0 \in {"invoice", "read", "save", "account", "deadline", "notify"},
           e0 \in Events, r0 \in SubRows :
        delivery[d] = [pc |-> p0, ev |-> e0, row |-> r0]
  BY <1>1 DEF Handling
<1>3. PICK h : h = [pc |-> pc, ev |-> e0, row |-> r0]
  OBVIOUS
<1>4. [delivery[d] EXCEPT !.pc = pc] = h
  BY <1>2, <1>3
<1>5. h \in Handling
  BY <1>2, <1>3 DEF Handling
<1>6. delivery = [k \in Deliveries |-> delivery[k]]
  BY DEF StandingInv, HandlersShape
<1>7. delivery' = [delivery EXCEPT ![d] = h]
  BY <1>4, <1>6 DEF Goto
<1>8. h.pc = pc /\ h.ev = delivery[d].ev /\ h.row = delivery[d].row
  BY <1>2, <1>3
<1> QED BY <1>5, <1>7, <1>8

LEMMA FewHandlers ==
  ASSUME NEW S \in SUBSET Deliveries
  PROVE  IsFiniteSet(S) /\ Cardinality(S) \in Nat
BY BillingAssumption, FS_Subset, FS_CardinalityType

\* One mail for a grace period: a handler owes one exactly when it started one.
LEMMA MailsKept ==
  ASSUME StandingInv, NEW d \in Deliveries, NEW h, delivery' = [delivery EXCEPT ![d] = h],
         h = IdleDelivery \/ h \in Handling, NEW a \in Accounts,
         \/ /\ graces' = graces /\ failedMails' = failedMails
            /\ h.pc # "notify" \/ h.ev.kind # "failed"
         \/ /\ graces' = [graces EXCEPT ![a] = @ + 1] /\ failedMails' = failedMails
            /\ h # IdleDelivery => AccountOf[h.ev.sub] = a
         \/ /\ graces' = graces /\ failedMails' = [failedMails EXCEPT ![a] = @ + 1]
            /\ d \in WillMail(a) /\ h = IdleDelivery
  PROVE  MailsDue' /\ graces' \in [Accounts -> Nat] /\ failedMails' \in [Accounts -> Nat]
<1>1. /\ delivery'[d] = h /\ HandlersShape'
      /\ \A k \in Deliveries : k # d => delivery'[k] = delivery[k]
  BY HandlerMoves
<1>2. IdleDelivery.pc = "idle"
  BY DEF IdleDelivery
<1>3. graces \in [Accounts -> Nat] /\ failedMails \in [Accounts -> Nat] /\ MailsDue
  BY DEF StandingInv, StandingRows
<1>4. graces' \in [Accounts -> Nat] /\ failedMails' \in [Accounts -> Nat]
  BY <1>3
<1>5. ASSUME NEW b \in Accounts
      PROVE  failedMails'[b] + Cardinality(WillMail(b)') =< graces'[b]
  <2>1. WillMail(b)' \in SUBSET Deliveries /\ WillMail(b) \in SUBSET Deliveries
    BY DEF WillMail
  <2>2. /\ IsFiniteSet(WillMail(b)) /\ Cardinality(WillMail(b)) \in Nat
        /\ IsFiniteSet(WillMail(b)') /\ Cardinality(WillMail(b)') \in Nat
    BY <2>1, FewHandlers
  <2>3. \A S, T : S \subseteq T /\ IsFiniteSet(T) => Cardinality(S) =< Cardinality(T)
    BY FS_Subset
  <2>4. failedMails[b] \in Nat /\ graces[b] \in Nat
        /\ failedMails[b] + Cardinality(WillMail(b)) =< graces[b]
    BY <1>3 DEF MailsDue
  <2>5. CASE /\ graces' = graces /\ failedMails' = failedMails
             /\ h.pc # "notify" \/ h.ev.kind # "failed"
    <3>1. WillMail(b)' \subseteq WillMail(b)
      BY <1>1, <2>5 DEF WillMail
    <3>2. Cardinality(WillMail(b)') =< Cardinality(WillMail(b))
      BY <3>1, <2>2, <2>3
    <3> QED BY <3>2, <2>2, <2>4, <2>5
  <2>6. CASE /\ graces' = [graces EXCEPT ![a] = @ + 1] /\ failedMails' = failedMails
             /\ h # IdleDelivery => AccountOf[h.ev.sub] = a
    <3>1. CASE b = a
      <4>1. WillMail(b)' \subseteq WillMail(b) \cup {d}
        BY <1>1 DEF WillMail
      <4>2. /\ IsFiniteSet(WillMail(b) \cup {d}) /\ Cardinality(WillMail(b) \cup {d}) \in Nat
            /\ Cardinality(WillMail(b) \cup {d}) =< Cardinality(WillMail(b)) + 1
        BY <2>2, FS_AddElement, SMTT(60)
      <4>3. Cardinality(WillMail(b)') =< Cardinality(WillMail(b) \cup {d})
        BY <4>1, <4>2, <2>3
      <4>4. graces'[b] = graces[b] + 1
        BY <1>3, <2>6, <3>1
      <4> QED BY <4>2, <4>3, <4>4, <2>2, <2>4, <2>6
    <3>2. CASE b # a
      <4>1. WillMail(b)' \subseteq WillMail(b)
        BY <1>1, <1>2, <2>6, <3>2 DEF WillMail
      <4>2. Cardinality(WillMail(b)') =< Cardinality(WillMail(b))
        BY <4>1, <2>2, <2>3
      <4>3. graces'[b] = graces[b]
        BY <1>3, <2>6, <3>2
      <4> QED BY <4>2, <4>3, <2>2, <2>4, <2>6
    <3> QED BY <3>1, <3>2
  <2>7. CASE /\ graces' = graces /\ failedMails' = [failedMails EXCEPT ![a] = @ + 1]
             /\ d \in WillMail(a) /\ h = IdleDelivery
    <3>1. CASE b = a
      <4>1. WillMail(b)' \subseteq WillMail(b) \ {d}
        BY <1>1, <1>2, <2>7 DEF WillMail
      <4>2. /\ IsFiniteSet(WillMail(b) \ {d}) /\ Cardinality(WillMail(b) \ {d}) \in Nat
            /\ Cardinality(WillMail(b) \ {d}) = Cardinality(WillMail(b)) - 1
        BY <2>2, <2>7, <3>1, FS_RemoveElement, FS_CardinalityType
      <4>3. Cardinality(WillMail(b)') =< Cardinality(WillMail(b) \ {d})
        BY <4>1, <4>2, <2>3
      <4>4. failedMails'[b] = failedMails[b] + 1
        BY <1>3, <2>7, <3>1
      <4> QED BY <4>2, <4>3, <4>4, <2>2, <2>4, <2>7
    <3>2. CASE b # a
      <4>1. WillMail(b)' \subseteq WillMail(b)
        BY <1>1, <1>2, <2>7 DEF WillMail
      <4>2. Cardinality(WillMail(b)') =< Cardinality(WillMail(b))
        BY <4>1, <2>2, <2>3
      <4>3. failedMails'[b] = failedMails[b]
        BY <1>3, <2>7, <3>2
      <4> QED BY <4>2, <4>3, <2>2, <2>4, <2>7
    <3> QED BY <3>1, <3>2
  <2> QED BY <2>5, <2>6, <2>7
<1> QED BY <1>4, <1>5 DEF MailsDue

StandingStep == StandingInv' /\ GraceNotExtended /\ NotRevived

\* What the steps of the handlers share.
LEMMA HandlerRest ==
  ASSUME StandingInv, StandingKept, UNCHANGED_OTHERS, HandlersShape', MailsDue',
         graces' \in [Accounts -> Nat], failedMails' \in [Accounts -> Nat],
         subRow' \in [Subs -> SubRows],
         \A s \in Subs : subRow'[s].status = "none" => subRow'[s] = NoRow,
         invoiceRow' \in [Subs -> {"none"} \cup InvoiceStatus],
         inflight' \subseteq inflight, retries' \in 0..MaxRetries
  PROVE  StandingStep
<1>1. StandingRows'
  BY DEF StandingInv, StandingRows, StandingKept, UNCHANGED_OTHERS, UNCHANGED_STRIPE
<1>2. StripeRows'
  BY DEF StandingInv, StripeRows, UNCHANGED_OTHERS, UNCHANGED_STRIPE
<1>3. CheckoutsShape'
  BY DEF StandingInv, CheckoutsShape, UNCHANGED_OTHERS
<1> QED BY <1>1, <1>2, <1>3 DEF StandingInv, StandingStep, StandingKept

\* The same, when only the handler and the events in flight change.
LEMMA HandlerOnly ==
  ASSUME StandingInv, NEW d \in Deliveries, UNCHANGED_OTHERS,
         NEW h, h = IdleDelivery \/ h \in Handling, h.pc # "notify" \/ h.ev.kind # "failed",
         delivery' = [delivery EXCEPT ![d] = h],
         UNCHANGED <<subRow, graces, failedMails>>, StandingKept,
         invoiceRow' \in [Subs -> {"none"} \cup InvoiceStatus],
         inflight' \subseteq inflight, retries' \in 0..MaxRetries
  PROVE  StandingStep
<1>1. PICK e \in {delivery[d].ev} : TRUE
  OBVIOUS
<1>2. HandlersShape'
  BY HandlerMoves
<1>3. CASE Accounts # {}
  <2>1. PICK a \in Accounts : TRUE
    BY <1>3
  <2>2. graces' = graces /\ failedMails' = failedMails
    OBVIOUS
  <2>3. MailsDue' /\ graces' \in [Accounts -> Nat] /\ failedMails' \in [Accounts -> Nat]
    BY <2>1, <2>2, MailsKept
  <2> QED BY <1>2, <2>3, HandlerRest DEF StandingInv, StandingRows
<1>4. CASE Accounts = {}
  <2>1. MailsDue' /\ graces' \in [Accounts -> Nat] /\ failedMails' \in [Accounts -> Nat]
    BY <1>4 DEF MailsDue, StandingInv, StandingRows
  <2> QED BY <1>2, <2>1, HandlerRest DEF StandingInv, StandingRows
<1> QED BY <1>3, <1>4

LEMMA Acknowledged ==
  ASSUME StandingInv, NEW d \in Deliveries, Acknowledge(d)
  PROVE  /\ delivery' = [delivery EXCEPT ![d] = IdleDelivery]
         /\ inflight' \subseteq inflight /\ retries' \in 0..MaxRetries
         /\ IdleDelivery.pc # "notify"
BY BillingAssumption DEF Acknowledge, StandingInv, StandingRows, IdleDelivery

LEMMA DeliverKeeps ==
  ASSUME StandingInv, NEW d \in Deliveries, NEW e \in inflight, DeliverEvent(d, e)
  PROVE  StandingStep
<1>1. e \in Events /\ NoRow \in SubRows
  BY DEF StandingInv, StripeRows, NoRow, SubRows, Plans
<1>2. PICK h : h = [pc |-> IF e.kind \in {"succeeded", "failed", "invoice"} THEN "invoice" ELSE "read",
                    ev |-> e, row |-> NoRow]
  OBVIOUS
<1>3. h \in Handling /\ h.pc # "notify"
  BY <1>1, <1>2 DEF Handling
<1>4. /\ delivery' = [delivery EXCEPT ![d] = h] /\ UNCHANGED_OTHERS
      /\ UNCHANGED <<billing, subRow, invoiceRow, inflight, graces, failedMails, retries>>
  BY <1>2 DEF DeliverEvent
<1>5. StandingKept
  BY <1>4, RowSame
<1> QED BY <1>3, <1>4, <1>5, HandlerOnly DEF StandingInv, StandingRows

LEMMA ThrowsKeeps ==
  ASSUME StandingInv, NEW d \in Deliveries, HandlerThrows(d)
  PROVE  StandingStep
<1>1. /\ delivery' = [delivery EXCEPT ![d] = IdleDelivery] /\ UNCHANGED_OTHERS
      /\ UNCHANGED <<billing, subRow, invoiceRow, inflight, graces, failedMails>>
      /\ retries' \in 0..MaxRetries /\ IdleDelivery.pc # "notify"
  BY BillingAssumption DEF HandlerThrows, StandingInv, StandingRows, IdleDelivery
<1>2. StandingKept
  BY <1>1, RowSame
<1> QED BY <1>1, <1>2, HandlerOnly DEF StandingInv, StandingRows

LEMMA HandleInvoiceKeeps ==
  ASSUME StandingInv, NEW d \in Deliveries, HandleInvoice(d)
  PROVE  StandingStep
<1>1. delivery[d].pc = "invoice" /\ delivery[d].ev \in Events /\ UNCHANGED_OTHERS
      /\ UNCHANGED <<billing, subRow, graces, failedMails>>
  BY AtWork DEF HandleInvoice
<1>2. invoiceRow' \in [Subs -> {"none"} \cup InvoiceStatus]
  BY InvoiceRowOK DEF HandleInvoice, upsertInvoice, saveInvoice, StandingInv, StandingRows
<1>3. StandingKept
  BY <1>1, RowSame
<1>4. CASE delivery[d].ev.kind = "invoice"
  <2>1. Acknowledge(d)
    BY <1>4 DEF HandleInvoice
  <2> QED BY <1>1, <1>2, <1>3, <2>1, Acknowledged, HandlerOnly
<1>5. CASE delivery[d].ev.kind # "invoice"
  <2>1. Goto(d, "read") /\ UNCHANGED <<inflight, retries>>
    BY <1>5 DEF HandleInvoice
  <2>2. PICK h \in Handling : h.pc = "read" /\ delivery' = [delivery EXCEPT ![d] = h]
    BY <1>1, <1>5, <2>1, GoesOn
  <2> QED BY <1>1, <1>2, <1>3, <2>1, <2>2, HandlerOnly DEF StandingInv, StandingRows
<1> QED BY <1>4, <1>5

\* A handler that goes on from its read holds the row as it is now.
LEMMA ReadsRow ==
  ASSUME StandingInv, NEW d \in Deliveries, ReadSubscription(d),
         AfterRead(delivery[d].ev, findByStripeSubscriptionId(delivery[d].ev.sub)) # "done"
  PROVE  \E h \in Handling :
           /\ h.pc = AfterRead(delivery[d].ev, findByStripeSubscriptionId(delivery[d].ev.sub))
           /\ h.pc \in {"save", "account"} /\ h.ev = delivery[d].ev
           /\ h.row = subRow[delivery[d].ev.sub]
           /\ delivery' = [delivery EXCEPT ![d] = h] /\ UNCHANGED <<inflight, retries>>
<1>1. delivery[d].pc = "read" /\ delivery[d] \in Handling
  BY AtWork DEF ReadSubscription
<1>2. PICK next : next = AfterRead(delivery[d].ev, findByStripeSubscriptionId(delivery[d].ev.sub))
  OBVIOUS
<1>3. PICK e0 \in Events, r0 \in SubRows :
        delivery[d] = [pc |-> "read", ev |-> e0, row |-> r0] /\ e0.kind # "invoice"
  BY <1>1 DEF Handling
<1>4. e0.kind \in {"upsert", "deleted", "succeeded", "failed"} /\ e0.sub \in Subs
  BY <1>3 DEF Events
<1>5. PICK row \in SubRows : row = findByStripeSubscriptionId(e0.sub)
  BY <1>4 DEF findByStripeSubscriptionId, StandingInv, StandingRows
<1>6. next \in {"save", "account"}
  BY <1>2, <1>3, <1>4 DEF AfterRead
<1>7. PICK h : h = [pc |-> next, ev |-> e0, row |-> row]
  OBVIOUS
<1>8. [[delivery[d] EXCEPT !.pc = next] EXCEPT !.row = row] = h
  <2>1. [[pc |-> "read", ev |-> e0, row |-> r0] EXCEPT !.pc = next]
          = [pc |-> next, ev |-> e0, row |-> r0]
    OBVIOUS
  <2>2. [[pc |-> next, ev |-> e0, row |-> r0] EXCEPT !.row = row] = h
    BY <1>7
  <2> QED BY <1>3, <2>1, <2>2
<1>9. delivery' = [delivery EXCEPT ![d] = h] /\ UNCHANGED <<inflight, retries>>
  <2>1. delivery[d].ev.sub = e0.sub
    BY <1>3
  <2>2. /\ delivery' = [delivery EXCEPT ![d].pc = next, ![d].row = row]
        /\ UNCHANGED <<inflight, retries>>
    BY <1>2, <1>5, <2>1 DEF ReadSubscription
  <2>3. delivery = [k \in Deliveries |-> delivery[k]]
    BY DEF StandingInv, HandlersShape
  <2>4. [delivery EXCEPT ![d].pc = next, ![d].row = row]
          = [delivery EXCEPT ![d] = [[delivery[d] EXCEPT !.pc = next] EXCEPT !.row = row]]
    BY <2>3
  <2> QED BY <1>8, <2>2, <2>4
<1>10. h \in Handling
  BY <1>3, <1>6, <1>7 DEF Handling
<1>11. h.pc = next /\ h.ev = delivery[d].ev /\ h.row = subRow[delivery[d].ev.sub]
  BY <1>3, <1>5, <1>7 DEF findByStripeSubscriptionId
<1> QED BY <1>2, <1>6, <1>9, <1>10, <1>11

LEMMA ReadKeeps ==
  ASSUME StandingInv, NEW d \in Deliveries, ReadSubscription(d)
  PROVE  StandingStep
<1>1. /\ delivery[d].pc = "read" /\ delivery[d] \in Handling /\ UNCHANGED_OTHERS
      /\ UNCHANGED <<billing, subRow, invoiceRow, graces, failedMails>>
  BY AtWork DEF ReadSubscription
<1>2. StandingKept /\ invoiceRow' \in [Subs -> {"none"} \cup InvoiceStatus]
  BY <1>1, RowSame DEF StandingInv, StandingRows
<1>3. CASE AfterRead(delivery[d].ev, findByStripeSubscriptionId(delivery[d].ev.sub)) = "done"
  <2>1. Acknowledge(d)
    BY <1>3 DEF ReadSubscription
  <2> QED BY <1>1, <1>2, <2>1, Acknowledged, HandlerOnly
<1>4. CASE AfterRead(delivery[d].ev, findByStripeSubscriptionId(delivery[d].ev.sub)) # "done"
  <2>1. PICK h \in Handling :
          /\ h.pc \in {"save", "account"} /\ delivery' = [delivery EXCEPT ![d] = h]
          /\ UNCHANGED <<inflight, retries>>
    BY <1>4, ReadsRow
  <2> QED BY <1>1, <1>2, <2>1, HandlerOnly DEF StandingInv, StandingRows
<1> QED BY <1>3, <1>4

LEMMA SaveKeeps ==
  ASSUME StandingInv, NEW d \in Deliveries, SaveSubscription(d)
  PROVE  StandingStep
<1>1. /\ delivery[d].pc = "save" /\ delivery[d] \in Handling /\ UNCHANGED_OTHERS
      /\ UNCHANGED <<billing, invoiceRow, inflight, graces, failedMails, retries>>
  BY AtWork DEF SaveSubscription
<1>2. delivery[d].ev \in Events /\ delivery[d].ev.kind # "invoice" /\ delivery[d].ev.sub \in Subs
  BY <1>1 DEF Handling, Events
<1>3. StandingKept
  BY <1>1, RowSame
<1>4. \A s \in Subs : subRow[s].status = "none" => subRow[s] = NoRow
  BY DEF StandingInv, StandingRows
<1>5. CASE delivery' = [delivery EXCEPT ![d] = IdleDelivery] /\ UNCHANGED subRow
  BY <1>1, <1>3, <1>5, HandlerOnly DEF StandingInv, StandingRows, IdleDelivery
<1>6. CASE saveSubscription(delivery[d].ev.sub, Entity(d)) /\ Goto(d, "account")
  <2>1. PICK h \in Handling : h.pc = "account" /\ delivery' = [delivery EXCEPT ![d] = h]
    BY <1>1, <1>2, <1>6, GoesOn
  <2>2. Entity(d) \in SubRows /\ Entity(d).status # "none"
    BY <1>1, <1>2, EntityRow
  <2>3. subRow' \in [Subs -> SubRows] /\ \A s \in Subs : subRow'[s].status = "none" => subRow'[s] = NoRow
    BY <1>2, <1>4, <1>6, <2>2 DEF saveSubscription, StandingInv, StandingRows
  <2>4. HandlersShape'
    BY <2>1, HandlerMoves
  <2>5. PICK a \in Accounts : TRUE
    BY <1>2, BillingAssumption
  <2>6. graces' = graces /\ failedMails' = failedMails
    BY <1>1
  <2>7. MailsDue' /\ graces' \in [Accounts -> Nat] /\ failedMails' \in [Accounts -> Nat]
    BY <2>1, <2>5, <2>6, MailsKept
  <2> QED BY <1>1, <1>3, <2>3, <2>4, <2>7, HandlerRest DEF StandingInv, StandingRows
<1> QED BY <1>5, <1>6 DEF SaveSubscription

\* A failed payment implies PAST_DUE: only a handler that starts a grace owes the mail.
LEMMA FailedImplies ==
  ASSUME NEW e, e.kind = "failed"
  PROVE  Implied(e) = "PAST_DUE"
BY DEF Implied, NewStatus, subscriptionStatusToAccountStatus

LEMMA AccountStepKeeps ==
  ASSUME StandingInv, NEW d \in Deliveries, AccountStep(d)
  PROVE  StandingStep
<1>1. /\ delivery[d].pc = "account" /\ delivery[d] \in Handling /\ UNCHANGED_OTHERS
      /\ UNCHANGED <<subRow, invoiceRow, failedMails>>
  BY AtWork DEF AccountStep
<1>2. /\ delivery[d].ev \in Events /\ delivery[d].ev.kind # "invoice"
      /\ AccountOf[delivery[d].ev.sub] \in Accounts
  BY <1>1, BillingAssumption DEF Handling, Events
<1>3. PICK a \in Accounts : a = AccountOf[delivery[d].ev.sub]
  BY <1>2
<1>4. /\ invoiceRow' \in [Subs -> {"none"} \cup InvoiceStatus]
      /\ retries \in 0..MaxRetries /\ failedMails \in [Accounts -> Nat]
  BY <1>1 DEF StandingInv, StandingRows
<1>5. CASE Implied(delivery[d].ev) = "PAST_DUE"
  <2>1. CASE pastDueFromActive(a)
    <3>1. startGrace(a) /\ Goto(d, "notify") /\ UNCHANGED <<inflight, retries>>
      BY <1>3, <1>5, <2>1 DEF AccountStep
    <3>2. PICK h \in Handling : /\ h.pc = "notify" /\ h.ev = delivery[d].ev
                                /\ delivery' = [delivery EXCEPT ![d] = h]
      BY <1>1, <1>2, <3>1, GoesOn
    <3>3. graces' = [graces EXCEPT ![a] = @ + 1] /\ SetStatus(a, "PAST_DUE", now + GracePeriod)
      BY <3>1 DEF startGrace
    <3>4. StandingKept
      BY <2>1, <3>3, UpdatesKeep
    <3>5. MailsDue' /\ graces' \in [Accounts -> Nat] /\ failedMails' \in [Accounts -> Nat]
      BY <1>1, <1>3, <3>2, <3>3, MailsKept
    <3>6. HandlersShape'
      BY <3>2, HandlerMoves
    <3> QED BY <1>1, <1>4, <3>1, <3>4, <3>5, <3>6, HandlerRest DEF StandingInv, StandingRows
  <2>2. CASE ~pastDueFromActive(a)
    <3>1. Goto(d, "deadline") /\ UNCHANGED <<billing, graces, inflight, retries>>
      BY <1>3, <1>5, <2>2 DEF AccountStep
    <3>2. PICK h \in Handling : h.pc = "deadline" /\ delivery' = [delivery EXCEPT ![d] = h]
      BY <1>1, <1>2, <3>1, GoesOn
    <3>3. StandingKept
      BY <3>1, RowSame
    <3> QED BY <1>1, <1>4, <3>1, <3>2, <3>3, HandlerOnly
  <2> QED BY <2>1, <2>2
<1>6. CASE Implied(delivery[d].ev) # "PAST_DUE"
  <2>1. delivery[d].ev.kind # "failed"
    BY <1>6, FailedImplies
  <2>2. StandingKept /\ UNCHANGED graces
    <3>1. CASE Implied(delivery[d].ev) = "ACTIVE"
      <4>1. markActiveFromPastDue(a) /\ UNCHANGED graces
        BY <1>3, <3>1 DEF AccountStep
      <4> QED BY <4>1, UpdatesKeep
    <3>2. CASE Implied(delivery[d].ev) = "CANCELED"
      <4>1. updateBillingStatus(a, "CANCELED") /\ UNCHANGED graces
        BY <1>3, <3>2 DEF AccountStep
      <4> QED BY <4>1, UpdatesKeep
    <3>3. CASE Implied(delivery[d].ev) \notin {"PAST_DUE", "ACTIVE", "CANCELED"}
      <4>1. UNCHANGED <<billing, graces>>
        BY <3>3 DEF AccountStep
      <4> QED BY <4>1, RowSame
    <3> QED BY <1>6, <3>1, <3>2, <3>3
  <2>3. Acknowledge(d) \/ (Goto(d, "notify") /\ UNCHANGED <<inflight, retries>>)
    <3>1. CASE Implied(delivery[d].ev) = "ACTIVE"
      BY <3>1 DEF AccountStep
    <3>2. CASE Implied(delivery[d].ev) = "CANCELED"
      BY <3>2 DEF AccountStep
    <3>3. CASE Implied(delivery[d].ev) \notin {"PAST_DUE", "ACTIVE", "CANCELED"}
      BY <3>3 DEF AccountStep
    <3> QED BY <1>6, <3>1, <3>2, <3>3
  <2>4. CASE Acknowledge(d)
    BY <1>1, <1>4, <2>2, <2>4, Acknowledged, HandlerOnly
  <2>5. CASE Goto(d, "notify") /\ UNCHANGED <<inflight, retries>>
    <3>1. PICK h \in Handling : /\ h.pc = "notify" /\ h.ev = delivery[d].ev
                                /\ delivery' = [delivery EXCEPT ![d] = h]
      BY <1>1, <1>2, <2>5, GoesOn
    <3> QED BY <1>1, <1>4, <2>1, <2>2, <2>5, <3>1, HandlerOnly
  <2> QED BY <2>3, <2>4, <2>5
<1> QED BY <1>5, <1>6

\* A PAST_DUE account has its deadline, so the second update changes nothing.
LEMMA MissingDeadlineKeeps ==
  ASSUME StandingInv, NEW d \in Deliveries, MissingDeadlineStep(d)
  PROVE  StandingStep
<1>1. /\ delivery[d].pc = "deadline" /\ delivery[d] \in Handling /\ UNCHANGED_OTHERS
      /\ UNCHANGED <<subRow, invoiceRow, failedMails>>
  BY AtWork DEF MissingDeadlineStep
<1>2. AccountOf[delivery[d].ev.sub] \in Accounts
  BY <1>1, BillingAssumption DEF Handling, Events
<1>3. ~pastDueMissingDeadline(AccountOf[delivery[d].ev.sub])
  BY <1>2 DEF pastDueMissingDeadline, StandingInv, DeadlineIffPastDue
<1>4. Acknowledge(d) /\ UNCHANGED <<billing, graces>>
  BY <1>3 DEF MissingDeadlineStep
<1>5. StandingKept /\ invoiceRow' \in [Subs -> {"none"} \cup InvoiceStatus]
  BY <1>1, <1>4, RowSame DEF StandingInv, StandingRows
<1> QED BY <1>1, <1>4, <1>5, Acknowledged, HandlerOnly

LEMMA NotifyKeeps ==
  ASSUME StandingInv, NEW d \in Deliveries, NotifyStep(d)
  PROVE  StandingStep
<1>1. /\ delivery[d].pc = "notify" /\ delivery[d] \in Handling /\ UNCHANGED_OTHERS
      /\ UNCHANGED <<billing, subRow, invoiceRow, graces>> /\ Acknowledge(d)
  BY AtWork DEF NotifyStep
<1>2. PICK a \in Accounts : a = AccountOf[delivery[d].ev.sub]
  BY <1>1, BillingAssumption DEF Handling, Events
<1>3. StandingKept /\ invoiceRow' \in [Subs -> {"none"} \cup InvoiceStatus]
  BY <1>1, RowSame DEF StandingInv, StandingRows
<1>4. /\ delivery' = [delivery EXCEPT ![d] = IdleDelivery]
      /\ inflight' \subseteq inflight /\ retries' \in 0..MaxRetries /\ IdleDelivery.pc # "notify"
  BY <1>1, Acknowledged
<1>5. CASE delivery[d].ev.kind = "failed"
  <2>1. failedMails' = [failedMails EXCEPT ![a] = @ + 1] /\ d \in WillMail(a) /\ graces' = graces
    BY <1>1, <1>2, <1>5 DEF NotifyStep, WillMail
  <2>2. MailsDue' /\ graces' \in [Accounts -> Nat] /\ failedMails' \in [Accounts -> Nat]
    BY <1>4, <2>1, MailsKept
  <2>3. HandlersShape'
    BY <1>4, HandlerMoves
  <2> QED BY <1>1, <1>3, <1>4, <2>2, <2>3, HandlerRest DEF StandingInv, StandingRows
<1>6. CASE delivery[d].ev.kind # "failed"
  <2>1. failedMails' = failedMails
    BY <1>6 DEF NotifyStep
  <2> QED BY <1>1, <1>3, <1>4, <2>1, HandlerOnly
<1> QED BY <1>5, <1>6

\* What the steps outside the handlers leave alone.
LEMMA HandlersStay ==
  ASSUME StandingInv, UNCHANGED <<delivery, graces, failedMails>>
  PROVE  HandlersShape' /\ MailsDue'
BY DEF StandingInv, HandlersShape, MailsDue, WillMail, Handling, IdleDelivery

LEMMA WorkerKeeps ==
  ASSUME StandingInv,
         \/ WorkerTick
         \/ \E a \in Accounts : WorkerSuspends(a) \/ WorkerFails(a)
  PROVE  StandingStep
<1>1. UNCHANGED <<subRow, invoiceRow, inflight, delivery, graces, failedMails,
                  checkout, customers, now, stripe, stripeInvoice, posted>>
  BY DEF WorkerTick, WorkerSuspends, WorkerFails, UNCHANGED_STRIPE
<1>2. worker' \subseteq Accounts
  BY DEF WorkerTick, WorkerSuspends, WorkerFails, StandingInv, StandingRows
<1>3. retries' \in 0..MaxRetries
  BY BillingAssumption DEF WorkerTick, WorkerSuspends, WorkerFails, StandingInv, StandingRows
<1>4. StandingKept
  <2>1. CASE UNCHANGED billing
    BY <2>1, RowSame
  <2>2. CASE \E a \in Accounts : WorkerSuspends(a)
    <3>1. PICK a \in Accounts : SetStatus(a, "SUSPENDED", NoDeadline)
      BY <2>2 DEF WorkerSuspends
    <3> QED BY <3>1, UpdatesKeep
  <2> QED BY <2>1, <2>2 DEF WorkerTick, WorkerFails
<1>5. HandlersShape' /\ MailsDue'
  BY <1>1, HandlersStay
<1>6. StandingRows'
  BY <1>1, <1>2, <1>3, <1>4 DEF StandingInv, StandingRows, StandingKept
<1>7. StripeRows' /\ CheckoutsShape'
  BY <1>1 DEF StandingInv, StripeRows, CheckoutsShape
<1> QED BY <1>4, <1>5, <1>6, <1>7 DEF StandingStep, StandingKept, StandingInv

LEMMA ClockKeeps ==
  ASSUME StandingInv, ClockTicks
  PROVE  StandingStep
<1>1. UNCHANGED <<billing, subRow, invoiceRow, inflight, delivery, checkout, customers, worker,
                  graces, failedMails, retries, stripe, stripeInvoice, posted>>
  BY DEF ClockTicks, UNCHANGED_STRIPE
<1>2. now' \in 0..MaxClock
  BY BillingAssumption DEF ClockTicks, StandingInv, StandingRows
<1>3. StandingKept /\ HandlersShape' /\ MailsDue'
  BY <1>1, RowSame, HandlersStay
<1>4. StandingRows'
  BY <1>1, <1>2, <1>3 DEF StandingInv, StandingRows, StandingKept
<1>5. StripeRows' /\ CheckoutsShape'
  BY <1>1 DEF StandingInv, StripeRows, CheckoutsShape
<1> QED BY <1>3, <1>4, <1>5 DEF StandingStep, StandingKept, StandingInv

\* A restart forgets the handlers: the mails they owed are never sent.
LEMMA RestartKeeps ==
  ASSUME StandingInv, ApiRestarts
  PROVE  StandingStep
<1>1. /\ UNCHANGED <<billing, subRow, invoiceRow, inflight, graces, failedMails, customers,
                     now, stripe, stripeInvoice, posted>>
      /\ worker' = {} /\ delivery' = [d \in Deliveries |-> IdleDelivery]
      /\ checkout' = [c \in Checkouts |-> [pc |-> "idle"]]
  BY DEF ApiRestarts, UNCHANGED_STRIPE
<1>2. retries' \in 0..MaxRetries
  BY BillingAssumption DEF ApiRestarts, StandingInv, StandingRows
<1>3. StandingKept
  BY <1>1, RowSame
<1>4. StandingRows'
  BY <1>1, <1>2, <1>3 DEF StandingInv, StandingRows, StandingKept
<1>5. StripeRows'
  BY <1>1 DEF StandingInv, StripeRows
<1>6. CheckoutsShape'
  BY <1>1 DEF StandingInv, CheckoutsShape
<1>7. HandlersShape'
  BY <1>1 DEF HandlersShape
<1>8. MailsDue'
  <2>1. \A a \in Accounts : WillMail(a)' = {}
    BY <1>1 DEF WillMail, IdleDelivery
  <2>2. Cardinality({}) = 0
    BY FS_EmptySet
  <2>3. ASSUME NEW a \in Accounts PROVE failedMails[a] =< graces[a]
    <3>1. WillMail(a) \in SUBSET Deliveries
      BY DEF WillMail
    <3>2. Cardinality(WillMail(a)) \in Nat
      BY <3>1, FewHandlers
    <3> QED BY <3>2 DEF StandingInv, StandingRows, MailsDue
  <2>4. failedMails \in [Accounts -> Nat]
    BY DEF StandingInv, StandingRows
  <2>5. ASSUME NEW a \in Accounts PROVE failedMails[a] + Cardinality({}) =< graces[a]
    BY <2>2, <2>3, <2>4
  <2>6. \A a \in Accounts : failedMails'[a] + Cardinality(WillMail(a)') =< graces'[a]
    BY <1>1, <2>1, <2>5
  <2> QED BY <2>6 DEF MailsDue
<1> QED BY <1>3, <1>4, <1>5, <1>6, <1>7, <1>8 DEF StandingStep, StandingKept, StandingInv

\* One checkout's record changes.
CheckoutTo(c, h) ==
  /\ checkout' = [checkout EXCEPT ![c] = h] /\ customers' \in Nat
  /\ \/ h.pc = "idle"
     \/ h \in [pc : {"customer", "session"}, account : Accounts]
     \/ h \in [pc : {"store"}, account : Accounts, id : Nat]

LEMMA CheckoutsKeep ==
  ASSUME StandingInv, NEW c \in Checkouts,
         \/ \E a \in Accounts : CreateCheckoutSession(c, a)
         \/ GetStripeCustomerId(c) \/ setStripeCustomerId(c) \/ CreateSession(c)
  PROVE  StandingStep
<1>1. UNCHANGED <<subRow, invoiceRow, inflight, delivery, worker, now, graces, failedMails,
                  retries, stripe, stripeInvoice, posted>>
  BY DEF CreateCheckoutSession, GetStripeCustomerId, setStripeCustomerId, CreateSession,
         UNCHANGED_WEBHOOKS
<1>2. /\ checkout = [k \in Checkouts |-> checkout[k]] /\ customers \in Nat
      /\ \/ checkout[c].pc = "idle"
         \/ checkout[c] \in [pc : {"customer", "session"}, account : Accounts]
         \/ checkout[c] \in [pc : {"store"}, account : Accounts, id : Nat]
  BY DEF StandingInv, CheckoutsShape
<1>3. StandingKept
  <2>1. CASE UNCHANGED billing
    BY <2>1, RowSame
  <2>2. CASE setStripeCustomerId(c)
    <3>1. checkout[c] \in [pc : {"store"}, account : Accounts, id : Nat]
      BY <1>2, <2>2 DEF setStripeCustomerId
    <3>2. /\ checkout[c].account \in Accounts /\ checkout[c].id \in Nat
          /\ billing' = [billing EXCEPT ![checkout[c].account].customer = checkout[c].id]
      BY <2>2, <3>1 DEF setStripeCustomerId
    <3> QED BY <3>2, UpdatesKeep
  <2> QED BY <2>1, <2>2 DEF CreateCheckoutSession, GetStripeCustomerId, CreateSession
<1>4. \E h : CheckoutTo(c, h)
  <2>1. CASE \E a \in Accounts : CreateCheckoutSession(c, a)
    <3>1. PICK a \in Accounts : CreateCheckoutSession(c, a)
      BY <2>1
    <3>2. PICK h : h = [pc |-> "customer", account |-> a]
      OBVIOUS
    <3>3. h \in [pc : {"customer", "session"}, account : Accounts]
      BY <3>2
    <3>4. CheckoutTo(c, h)
      BY <1>2, <3>1, <3>2, <3>3 DEF CreateCheckoutSession, CheckoutTo
    <3> QED BY <3>4
  <2>2. CASE GetStripeCustomerId(c)
    <3>1. checkout[c] \in [pc : {"customer", "session"}, account : Accounts]
      BY <1>2, <2>2 DEF GetStripeCustomerId
    <3>2. PICK a \in Accounts : checkout[c] = [pc |-> "customer", account |-> a]
      BY <2>2, <3>1 DEF GetStripeCustomerId
    <3>3. CASE checkout' = [checkout EXCEPT ![c].pc = "session"] /\ UNCHANGED customers
      <4>1. PICK h : h = [pc |-> "session", account |-> a]
        OBVIOUS
      <4>2. [checkout[c] EXCEPT !.pc = "session"] = h
        BY <3>2, <4>1
      <4>3. checkout' = [checkout EXCEPT ![c] = h]
        BY <1>2, <3>3, <4>2
      <4>4. h \in [pc : {"customer", "session"}, account : Accounts]
        BY <4>1
      <4>5. CheckoutTo(c, h)
        BY <1>2, <3>3, <4>3, <4>4 DEF CheckoutTo
      <4> QED BY <4>5
    <3>4. CASE /\ customers' = customers + 1
               /\ checkout' = [checkout EXCEPT ![c] =
                    [pc |-> "store", account |-> checkout[c].account, id |-> customers + 1]]
      <4>1. PICK h : h = [pc |-> "store", account |-> a, id |-> customers + 1]
        OBVIOUS
      <4>2. checkout[c].account = a
        BY <3>2
      <4>3. checkout' = [checkout EXCEPT ![c] = h]
        BY <3>4, <4>1, <4>2
      <4>4. customers + 1 \in Nat
        BY <1>2
      <4>5. h \in [pc : {"store"}, account : Accounts, id : Nat]
        BY <4>1, <4>4
      <4>6. CheckoutTo(c, h)
        BY <3>4, <4>3, <4>4, <4>5 DEF CheckoutTo
      <4> QED BY <4>6
    <3> QED BY <2>2, <3>3, <3>4 DEF GetStripeCustomerId
  <2>3. CASE setStripeCustomerId(c)
    <3>1. checkout[c] \in [pc : {"store"}, account : Accounts, id : Nat]
      BY <1>2, <2>3 DEF setStripeCustomerId
    <3>2. PICK h : h = [pc |-> "session", account |-> checkout[c].account]
      OBVIOUS
    <3>3. checkout' = [checkout EXCEPT ![c] = h] /\ customers' = customers
      BY <2>3, <3>2 DEF setStripeCustomerId
    <3>4. checkout[c].account \in Accounts
      BY <3>1
    <3>5. h \in [pc : {"customer", "session"}, account : Accounts]
      BY <3>2, <3>4
    <3>6. CheckoutTo(c, h)
      BY <1>2, <3>3, <3>5 DEF CheckoutTo
    <3> QED BY <3>6
  <2>4. CASE CreateSession(c)
    <3>1. PICK h : h = [pc |-> "idle"]
      OBVIOUS
    <3>2. CheckoutTo(c, h)
      BY <1>2, <2>4, <3>1 DEF CreateSession, CheckoutTo
    <3> QED BY <3>2
  <2> QED BY <2>1, <2>2, <2>3, <2>4
<1>5. CheckoutsShape'
  <2>1. PICK h : CheckoutTo(c, h)
    BY <1>4
  <2>2. checkout' = [k \in Checkouts |-> IF k = c THEN h ELSE checkout[k]]
    BY <1>2, <2>1 DEF CheckoutTo
  <2>3. checkout' = [k \in Checkouts |-> checkout'[k]]
    BY <2>2
  <2>4. checkout'[c] = h /\ \A k \in Checkouts : k # c => checkout'[k] = checkout[k]
    BY <2>2
  <2> QED BY <2>1, <2>3, <2>4 DEF StandingInv, CheckoutsShape, CheckoutTo
<1>6. HandlersShape' /\ MailsDue'
  BY <1>1, HandlersStay
<1>7. StandingRows'
  BY <1>1, <1>3 DEF StandingInv, StandingRows, StandingKept
<1>8. StripeRows'
  BY <1>1 DEF StandingInv, StripeRows
<1> QED BY <1>3, <1>5, <1>6, <1>7, <1>8 DEF StandingStep, StandingKept, StandingInv

\* Stripe's moves: the API's rows stay, its events are well formed.
LEMMA Posts ==
  ASSUME StandingInv, NEW S \in SUBSET Events, IsFiniteSet(S), Post(S)
  PROVE  inflight' \subseteq Events /\ posted' \in 0..MaxEvents
<1>1. Cardinality(S) \in Nat
  BY FS_CardinalityType
<1> QED BY <1>1, BillingAssumption DEF Post, StandingInv, StandingRows, StripeRows

LEMMA PostsOne ==
  ASSUME StandingInv, NEW e \in Events, Post({e})
  PROVE  inflight' \subseteq Events /\ posted' \in 0..MaxEvents
<1>1. {e} \in SUBSET Events /\ IsFiniteSet({e})
  BY FS_Singleton
<1> QED BY <1>1, Posts

LEMMA PostsTwo ==
  ASSUME StandingInv, NEW e \in Events, NEW f \in Events,
         Post({e, Second(f)}) \/ Post({f, Second(e)})
  PROVE  inflight' \subseteq Events /\ posted' \in 0..MaxEvents
<1>1. \A g \in Events : Second(g) \in Events
  BY DEF Events, Second
<1>2. \A x, y : IsFiniteSet({x, y})
  <2>1. ASSUME NEW x, NEW y PROVE IsFiniteSet({x, y})
    <3>1. IsFiniteSet({x}) /\ {x, y} = {x} \cup {y}
      BY FS_Singleton
    <3> QED BY <3>1, FS_AddElement
  <2> QED BY <2>1
<1>3. {e, Second(f)} \in SUBSET Events /\ {f, Second(e)} \in SUBSET Events
  BY <1>1
<1> QED BY <1>2, <1>3, Posts

LEMMA EventOK ==
  ASSUME StandingInv, NEW s \in Subs, NEW st \in EventStatus, NEW plan \in Plans,
         NEW kind \in {"upsert", "deleted", "succeeded", "failed", "invoice"}
  PROVE  Event(kind, s, st, plan) \in Events
BY DEF Event, Events, StandingInv, StandingRows

LEMMA StripeRest ==
  ASSUME StandingInv, UNCHANGED_API, inflight' \subseteq Events, posted' \in 0..MaxEvents,
         NEW s \in Subs,
         \/ UNCHANGED <<stripe, stripeInvoice>>
         \/ \E st \in {"incomplete", "active", "past_due", "unpaid", "canceled"}, plan \in Plans,
               inv \in {"draft", "paid", "open", "uncollectible"} : StripeMoves(s, st, plan, inv)
  PROVE  StandingStep
<1>1. UNCHANGED <<billing, subRow, invoiceRow, delivery, checkout, customers, worker, now,
                  graces, failedMails, retries>>
  BY DEF UNCHANGED_API
<1>2. StripeRows'
  BY DEF StandingInv, StripeRows, StripeMoves
<1>3. StandingKept /\ HandlersShape' /\ MailsDue'
  BY <1>1, RowSame, HandlersStay
<1>4. StandingRows'
  BY <1>1, <1>3 DEF StandingInv, StandingRows, StandingKept
<1>5. CheckoutsShape'
  BY <1>1 DEF StandingInv, CheckoutsShape
<1> QED BY <1>2, <1>3, <1>4, <1>5 DEF StandingStep, StandingKept, StandingInv

LEMMA StripeKeeps ==
  ASSUME StandingInv, NEW s \in Subs,
         StripeSubscribes(s) \/ StripePays(s) \/ StripeDeclines(s) \/ StripeTouches(s)
  PROVE  StandingStep
<1>1. stripe[s].plan \in Plans /\ stripeInvoice[s] \in {"draft", "paid", "open", "uncollectible"}
      /\ {"PRO", "ENTERPRISE"} \subseteq Plans
  BY DEF StandingInv, StripeRows, Plans
<1>2. {"incomplete", "active", "past_due", "unpaid", "canceled",
       "draft", "open", "paid", "uncollectible"} \subseteq EventStatus
  BY DEF EventStatus
<1>3. CASE StripeSubscribes(s)
  <2>1. /\ StripeMoves(s, "incomplete", "PRO", "draft")
        /\ Post({Event("upsert", s, "incomplete", "PRO")}) /\ UNCHANGED_API
    BY <1>3 DEF StripeSubscribes
  <2>2. Event("upsert", s, "incomplete", "PRO") \in Events
    BY <1>1, <1>2, EventOK
  <2> QED BY <1>1, <2>1, <2>2, PostsOne, StripeRest
<1>4. CASE StripePays(s)
  <2>1. /\ StripeMoves(s, "active", stripe[s].plan, "paid") /\ UNCHANGED_API
        /\ \/ Post({Event("upsert", s, "active", stripe[s].plan),
                    Second(Event("succeeded", s, "paid", stripe[s].plan))})
           \/ Post({Event("succeeded", s, "paid", stripe[s].plan),
                    Second(Event("upsert", s, "active", stripe[s].plan))})
    BY <1>4 DEF StripePays
  <2>2. /\ Event("upsert", s, "active", stripe[s].plan) \in Events
        /\ Event("succeeded", s, "paid", stripe[s].plan) \in Events
    BY <1>1, <1>2, EventOK
  <2> QED BY <1>1, <2>1, <2>2, PostsTwo, StripeRest
<1>5. CASE StripeDeclines(s)
  <2>1. /\ StripeMoves(s, "past_due", stripe[s].plan, "open") /\ UNCHANGED_API
        /\ \/ Post({Event("upsert", s, "past_due", stripe[s].plan),
                    Second(Event("failed", s, "open", stripe[s].plan))})
           \/ Post({Event("failed", s, "open", stripe[s].plan),
                    Second(Event("upsert", s, "past_due", stripe[s].plan))})
           \/ Post({Event("failed", s, "open", stripe[s].plan)})
    BY <1>5 DEF StripeDeclines
  <2>2. /\ Event("upsert", s, "past_due", stripe[s].plan) \in Events
        /\ Event("failed", s, "open", stripe[s].plan) \in Events
    BY <1>1, <1>2, EventOK
  <2>3. inflight' \subseteq Events /\ posted' \in 0..MaxEvents
    BY <2>1, <2>2, PostsOne, PostsTwo
  <2> QED BY <1>1, <2>1, <2>3, StripeRest
<1>6. CASE StripeTouches(s)
  <2>1. /\ Event("upsert", s, "unpaid", stripe[s].plan) \in Events
        /\ Event("upsert", s, "active", "ENTERPRISE") \in Events
        /\ Event("deleted", s, "canceled", stripe[s].plan) \in Events
        /\ Event("invoice", s, stripeInvoice[s], stripe[s].plan) \in Events
    BY <1>1, <1>2, EventOK
  <2>2. inflight' \subseteq Events /\ posted' \in 0..MaxEvents
    BY <1>6, <2>1, PostsOne DEF StripeTouches
  <2>3. UNCHANGED_API
    BY <1>6 DEF StripeTouches
  <2>4. \/ UNCHANGED <<stripe, stripeInvoice>>
        \/ \E st \in {"incomplete", "active", "past_due", "unpaid", "canceled"}, plan \in Plans,
              inv \in {"draft", "paid", "open", "uncollectible"} : StripeMoves(s, st, plan, inv)
    BY <1>1, <1>6 DEF StripeTouches
  <2> QED BY <2>2, <2>3, <2>4, StripeRest
<1> QED BY <1>3, <1>4, <1>5, <1>6

LEMMA StandingStarts ==
  ASSUME BillingInit
  PROVE  StandingInv
<1>1. StandingRows
  BY BillingAssumption DEF BillingInit, StandingRows, BillingStatus, SubRows, Plans,
     SubscriptionStatus, InvoiceStatus, NoRow, NoDeadline
<1>2. StripeRows /\ HandlersShape
  BY DEF BillingInit, StripeRows, HandlersShape, Plans
<1>3. CheckoutsShape
  BY DEF BillingInit, CheckoutsShape
<1>4. DeadlineIffPastDue
  BY DEF BillingInit, DeadlineIffPastDue, NoDeadline
<1>5. MailsDue
  <2>1. \A a \in Accounts : WillMail(a) = {} /\ failedMails[a] = 0 /\ graces[a] = 0
    BY DEF BillingInit, WillMail, IdleDelivery
  <2> QED BY <2>1, FS_EmptySet DEF MailsDue
<1> QED BY <1>1, <1>2, <1>3, <1>4, <1>5 DEF StandingInv

LEMMA StandingSteps ==
  ASSUME StandingInv, BillingNext
  PROVE  StandingStep
<1>1. CASE StripeNext
  BY <1>1, StripeKeeps DEF StripeNext
<1>2. CASE WebhookNext
  BY <1>2, DeliverKeeps, ThrowsKeeps, HandleInvoiceKeeps, ReadKeeps, SaveKeeps,
     AccountStepKeeps, MissingDeadlineKeeps, NotifyKeeps DEF WebhookNext, HandlerStep
<1>3. CASE CheckoutNext
  BY <1>3, CheckoutsKeep DEF CheckoutNext
<1>4. CASE WorkerNext
  BY <1>4, WorkerKeeps DEF WorkerNext
<1>5. CASE ApiRestarts \/ ClockTicks
  BY <1>5, RestartKeeps, ClockKeeps
<1> QED BY <1>1, <1>2, <1>3, <1>4, <1>5 DEF BillingNext

LEMMA StandingStutters ==
  ASSUME StandingInv, UNCHANGED billingVars
  PROVE  StandingStep
<1>1. UNCHANGED <<stripe, stripeInvoice, inflight, posted, billing, subRow, invoiceRow,
                  delivery, checkout, customers, worker, now, graces, failedMails, retries>>
  BY DEF billingVars
<1>2. StandingKept /\ HandlersShape' /\ MailsDue'
  BY <1>1, RowSame, HandlersStay
<1>3. StandingRows'
  BY <1>1, <1>2 DEF StandingInv, StandingRows, StandingKept
<1>4. StripeRows' /\ CheckoutsShape'
  BY <1>1 DEF StandingInv, StripeRows, CheckoutsShape
<1> QED BY <1>2, <1>3, <1>4 DEF StandingStep, StandingKept, StandingInv

LEMMA StandingMeans ==
  ASSUME StandingInv
  PROVE  BillingTypeOK /\ DeadlineIffPastDue /\ OneMailPerGrace
<1>1. BillingTypeOK
  BY DEF StandingInv, StandingRows, BillingTypeOK, SubRows, NoRow
<1>2. ASSUME NEW a \in Accounts PROVE failedMails[a] =< graces[a]
  <2>1. WillMail(a) \in SUBSET Deliveries
    BY DEF WillMail
  <2>2. Cardinality(WillMail(a)) \in Nat
    BY <2>1, FewHandlers
  <2> QED BY <2>2 DEF StandingInv, StandingRows, MailsDue
<1> QED BY <1>1, <1>2 DEF OneMailPerGrace, StandingInv

-----------------------------------------------------------------------------
(***************************************************************************)
(* The rows, while events are handled in the order they were posted: what  *)
(* the rows lack of Stripe's state is what events still in flight say.     *)
(***************************************************************************)
Upserts(s) == {e \in inflight : e.sub = s /\ e.kind = "upsert"}
StatusEvents(s) == {e \in inflight : e.sub = s /\ e.kind \in {"upsert", "deleted"}}
Followed(e) == \E f \in StatusEvents(e.sub) : f.n > e.n

Numbered == \A e, f \in inflight : e.n =< posted /\ (e.n = f.n => e = f)

\* An event in flight says where Stripe is, or a later one does.
WordOf(e) ==
  /\ e.kind = "upsert" => /\ e.status \in {"incomplete", "active", "past_due", "unpaid"}
                          /\ Followed(e) \/ e.status = stripe[e.sub].status
                          /\ \/ \E f \in Upserts(e.sub) : f.n > e.n
                             \/ e.plan = stripe[e.sub].plan
                          /\ e.status = "incomplete" =>
                               \A f \in inflight : f.sub = e.sub => e.n =< f.n
  /\ e.kind = "deleted" => /\ stripe[e.sub].status = "canceled"
                           /\ \A f \in inflight : f.sub = e.sub => f.n =< e.n
  /\ e.kind = "succeeded" => Followed(e) \/ stripe[e.sub].status = "active"
  /\ e.kind = "failed" => Followed(e) \/ stripe[e.sub].status = "past_due"
  /\ stripe[e.sub].status # "none"

RowFollows(s) ==
  stripe[s].status # "none" =>
    /\ StatusEvents(s) = {} => subRow[s].status = mapStripeStatus(stripe[s].status)
    /\ Upserts(s) = {} => subRow[s] # NoRow /\ subRow[s].plan = stripe[s].plan

AccountFollows(s) ==
  LET st == billing[AccountOf[s]].status IN
  /\ stripe[s].status = "canceled" /\ StatusEvents(s) = {} => st \in {"CANCELED", "SUSPENDED"}
  /\ Subs = {s} /\ st = "PAST_DUE" =>
       /\ StatusEvents(s) # {} \/ stripe[s].status \in {"past_due", "unpaid"}
       /\ \A e \in Upserts(s) : e.status # "incomplete"

\* The one handler at work has the oldest event, and has done what its pc says.
Oldest(e) == e \in inflight /\ \A f \in inflight : e.n =< f.n
HasDone(h) ==
  LET e == h.ev
      st == billing[AccountOf[e.sub]].status
  IN /\ h.pc = "save" => h.row = subRow[e.sub]
     /\ e.kind = "succeeded" /\ h.pc \in {"save", "account", "notify"} => Followed(e)
     /\ e.kind = "failed" /\ h.pc = "save" => Followed(e)
     /\ h.pc \in {"account", "deadline", "notify"} =>
          /\ e.kind = "upsert" => subRow[e.sub] = Subscription_create(e)
          /\ e.kind = "deleted" => subRow[e.sub].status = "CANCELED"
     /\ h.pc = "deadline" => Implied(e) = "PAST_DUE"
     /\ h.pc = "notify" =>
          /\ e.kind = "deleted" => st \in {"CANCELED", "SUSPENDED"}
          /\ e.kind = "upsert" /\ Implied(e) = "ACTIVE" /\ Subs = {e.sub} => st # "PAST_DUE"
HandlerInTurn ==
  \A d \in Deliveries : delivery[d] # IdleDelivery =>
    /\ Oldest(delivery[d].ev) /\ HasDone(delivery[d])
    /\ \A k \in Deliveries : delivery[k] # IdleDelivery => k = d

InTurn ==
  /\ Numbered /\ HandlerInTurn /\ \A e \in inflight : WordOf(e)
  /\ \A s \in Subs : RowFollows(s) /\ AccountFollows(s)
OrderInv == ~disorder => InTurn

LEMMA NotIdle ==
  ASSUME StandingInv, NEW d \in Deliveries, delivery[d] # IdleDelivery
  PROVE  delivery[d] \in Handling /\ delivery[d].pc # "idle"
BY DEF StandingInv, HandlersShape, Handling

\* The events in flight are ordered, and only the oldest is at work.
LEMMA NothingEarlier ==
  ASSUME StandingInv, InTurn, NEW d \in Deliveries, delivery[d].pc # "idle",
         NEW f \in inflight, f # delivery[d].ev
  PROVE  f.n > delivery[d].ev.n
<1>1. delivery[d] # IdleDelivery
  BY DEF IdleDelivery
<1>2. Oldest(delivery[d].ev) /\ Numbered
  BY <1>1 DEF InTurn, HandlerInTurn
<1>3. f \in Events /\ delivery[d].ev \in Events
  BY <1>2 DEF StandingInv, StripeRows, Oldest
<1> QED BY <1>2, <1>3 DEF Oldest, Numbered, Events

LEMMA AtWorkInTurn ==
  ASSUME StandingInv, InTurn, NEW d \in Deliveries, delivery[d].pc # "idle"
  PROVE  /\ delivery[d].ev \in inflight /\ delivery[d].ev \in Events
         /\ WordOf(delivery[d].ev) /\ HasDone(delivery[d]) /\ Oldest(delivery[d].ev)
         /\ delivery[d].ev.sub \in Subs /\ AccountOf[delivery[d].ev.sub] \in Accounts
         /\ \A k \in Deliveries : delivery[k] # IdleDelivery => k = d
<1>1. delivery[d] # IdleDelivery
  BY DEF IdleDelivery
<1>2. Oldest(delivery[d].ev) /\ HasDone(delivery[d])
      /\ \A k \in Deliveries : delivery[k] # IdleDelivery => k = d
  BY <1>1 DEF InTurn, HandlerInTurn
<1>3. delivery[d].ev \in inflight
  BY <1>2 DEF Oldest
<1>4. delivery[d].ev \in Events
  BY <1>3 DEF StandingInv, StripeRows
<1>5. delivery[d].ev.sub \in Subs
  BY <1>4 DEF Events
<1> QED BY <1>2, <1>3, <1>4, <1>5, BillingAssumption DEF InTurn

\* Steps that leave Stripe, its events and the rows of subscriptions alone.
LEMMA EventsStay ==
  ASSUME StandingInv, InTurn, UNCHANGED <<stripe, inflight, posted>>
  PROVE  /\ Numbered' /\ \A e \in inflight' : WordOf(e)'
         /\ \A e : (Oldest(e)' <=> Oldest(e)) /\ (Followed(e)' <=> Followed(e))
         /\ \A s : StatusEvents(s)' = StatusEvents(s) /\ Upserts(s)' = Upserts(s)
<1>1. \A s : StatusEvents(s)' = StatusEvents(s) /\ Upserts(s)' = Upserts(s)
  BY DEF StatusEvents, Upserts
<1>2. \A e : (Oldest(e)' <=> Oldest(e)) /\ (Followed(e)' <=> Followed(e))
  BY <1>1 DEF Oldest, Followed
<1>3. Numbered'
  BY DEF InTurn, Numbered
<1>4. ASSUME NEW e \in inflight PROVE WordOf(e)'
  BY <1>1, <1>2 DEF InTurn, WordOf
<1> QED BY <1>1, <1>2, <1>3, <1>4

\* A step outside the handlers may suspend an account or forget handlers.
LEMMA InTurnStays ==
  ASSUME StandingInv, InTurn, UNCHANGED <<stripe, inflight, posted, subRow>>,
         \A a \in Accounts : billing'[a].status \in {billing[a].status, "SUSPENDED"},
         \A d \in Deliveries : delivery'[d] \in {delivery[d], IdleDelivery}
  PROVE  InTurn'
<1>1. /\ Numbered' /\ \A e \in inflight' : WordOf(e)'
      /\ \A e : (Oldest(e)' <=> Oldest(e)) /\ (Followed(e)' <=> Followed(e))
      /\ \A s : StatusEvents(s)' = StatusEvents(s) /\ Upserts(s)' = Upserts(s)
  BY EventsStay
<1>2. ASSUME NEW s \in Subs PROVE RowFollows(s)' /\ AccountFollows(s)'
  <2>1. RowFollows(s) /\ AccountFollows(s) /\ AccountOf[s] \in Accounts
    BY BillingAssumption DEF InTurn
  <2>2. RowFollows(s)'
    BY <1>1, <2>1 DEF RowFollows
  <2>3. AccountFollows(s)'
    BY <1>1, <2>1 DEF AccountFollows
  <2> QED BY <2>2, <2>3
<1>3. ASSUME NEW d \in Deliveries, delivery'[d] # IdleDelivery
      PROVE  /\ Oldest(delivery[d].ev)' /\ HasDone(delivery[d])'
             /\ \A k \in Deliveries : delivery'[k] # IdleDelivery => k = d
  <2>1. delivery'[d] = delivery[d] /\ delivery[d] # IdleDelivery
    BY <1>3
  <2>2. delivery[d].pc # "idle"
    BY <2>1, NotIdle
  <2>3. /\ HasDone(delivery[d]) /\ Oldest(delivery[d].ev)
        /\ AccountOf[delivery[d].ev.sub] \in Accounts
        /\ \A k \in Deliveries : delivery[k] # IdleDelivery => k = d
    BY <2>2, AtWorkInTurn
  <2>4. Oldest(delivery[d].ev)'
    BY <1>1, <2>1, <2>3
  <2>5. HasDone(delivery[d])'
    BY <1>1, <2>1, <2>3 DEF HasDone
  <2> QED BY <2>3, <2>4, <2>5
<1> QED BY <1>1, <1>2, <1>3 DEF InTurn, HandlerInTurn

\* Without a status event in flight the oldest event is not followed.
LEMMA LastWord ==
  ASSUME StandingInv, InTurn, NEW d \in Deliveries, delivery[d].pc # "idle",
         StatusEvents(delivery[d].ev.sub) \subseteq {delivery[d].ev}
  PROVE  ~Followed(delivery[d].ev)
<1>1. delivery[d].ev \in Events
  BY AtWorkInTurn
<1> QED BY <1>1 DEF Followed, Events

\* An event is acknowledged: the rows now say what it said.
LEMMA AnsweredInTurn ==
  ASSUME StandingInv, InTurn, NEW d \in Deliveries, delivery[d].pc # "idle",
         UNCHANGED <<stripe, posted, subRow, billing>>, HandlersShape',
         delivery'[d] = IdleDelivery,
         \A k \in Deliveries : k # d => delivery'[k] = delivery[k],
         NEW e, e = delivery[d].ev, inflight' = inflight \ {e},
         e.kind = "upsert" =>
           /\ subRow[e.sub] = Subscription_create(e)
           /\ Subs = {e.sub} /\ billing[AccountOf[e.sub]].status = "PAST_DUE" =>
                e.status \in {"past_due", "unpaid"},
         e.kind = "deleted" =>
           /\ subRow[e.sub].status = "CANCELED"
           /\ billing[AccountOf[e.sub]].status \in {"CANCELED", "SUSPENDED"}
  PROVE  InTurn'
<1>1. /\ e \in inflight /\ e \in Events /\ WordOf(e) /\ e.sub \in Subs
      /\ \A k \in Deliveries : delivery[k] # IdleDelivery => k = d
  BY AtWorkInTurn
<1>2. \A s : StatusEvents(s)' = StatusEvents(s) \ {e} /\ Upserts(s)' = Upserts(s) \ {e}
  BY DEF StatusEvents, Upserts
<1>3. \A f \in inflight : f # e => f.n > e.n
  BY NothingEarlier
<1>4. \A f \in inflight : f \in Events /\ f.n \in Nat
  BY DEF StandingInv, StripeRows, Events
<1>5. Numbered'
  BY DEF InTurn, Numbered
<1>6. HandlerInTurn'
  BY <1>1 DEF HandlerInTurn
<1>7. ASSUME NEW f \in inflight' PROVE WordOf(f)'
  <2>1. f \in inflight /\ f # e /\ WordOf(f) /\ f.n > e.n /\ f.n \in Nat /\ e.n \in Nat
    BY <1>1, <1>3, <1>4 DEF InTurn
  <2>2. Followed(f) => Followed(f)'
    <3>1. ASSUME NEW g \in StatusEvents(f.sub), g.n > f.n PROVE g \in StatusEvents(f.sub)'
      <4>1. g.n \in Nat
        BY <1>4 DEF StatusEvents
      <4> QED BY <1>2, <2>1, <3>1, <4>1
    <3> QED BY <3>1 DEF Followed
  <2>3. ASSUME NEW g \in Upserts(f.sub), g.n > f.n PROVE g \in Upserts(f.sub)'
    <3>1. g.n \in Nat
      BY <1>4 DEF Upserts
    <3> QED BY <1>2, <2>1, <2>3, <3>1
  <2> QED BY <2>1, <2>2, <2>3 DEF WordOf
<1>8. ASSUME NEW s \in Subs PROVE RowFollows(s)' /\ AccountFollows(s)'
  <2>1. RowFollows(s) /\ AccountFollows(s)
    BY DEF InTurn
  <2>2. CASE s # e.sub \/ e.kind \notin {"upsert", "deleted"}
    <3>1. StatusEvents(s)' = StatusEvents(s) /\ Upserts(s)' = Upserts(s)
      BY <1>2, <2>2 DEF StatusEvents, Upserts
    <3> QED BY <2>1, <3>1 DEF RowFollows, AccountFollows
  <2>3. CASE s = e.sub /\ e.kind = "upsert"
    <3>1. StatusEvents(s)' = {} => e.status = stripe[s].status
      <4>1. StatusEvents(s)' = {} => ~Followed(e)
        BY <1>2, <2>3, LastWord
      <4> QED BY <1>1, <2>3, <4>1 DEF WordOf
    <3>2. Upserts(s)' = {} => e.plan = stripe[s].plan
      <4>1. Upserts(s)' = {} => ~\E f \in Upserts(s) : f.n > e.n
        BY <1>1, <1>2 DEF Events
      <4> QED BY <1>1, <2>3, <4>1 DEF WordOf
    <3>3. subRow[s].status = mapStripeStatus(e.status) /\ subRow[s].plan = e.plan
      BY <2>3 DEF Subscription_create
    <3>4. subRow[s] # NoRow
      BY <3>3 DEF mapStripeStatus, NoRow
    <3>5. RowFollows(s)'
      BY <3>1, <3>2, <3>3, <3>4 DEF RowFollows
    <3>6. e.status # "canceled"
      BY <1>1, <2>3 DEF WordOf
    <3>7. Upserts(s)' \subseteq Upserts(s)
      BY <1>2
    <3>8. AccountFollows(s)'
      BY <2>1, <2>3, <3>1, <3>6, <3>7 DEF AccountFollows
    <3> QED BY <3>5, <3>8
  <2>4. CASE s = e.sub /\ e.kind = "deleted"
    <3>1. Upserts(s)' = Upserts(s)
      BY <1>2, <2>4 DEF Upserts
    <3>2. stripe[s].status = "canceled" /\ subRow[s].status = mapStripeStatus("canceled")
      BY <1>1, <2>4 DEF WordOf, mapStripeStatus
    <3>3. RowFollows(s)'
      BY <2>1, <3>1, <3>2 DEF RowFollows
    <3>4. AccountFollows(s)'
      BY <2>4 DEF AccountFollows
    <3> QED BY <3>3, <3>4
  <2> QED BY <2>2, <2>3, <2>4
<1> QED BY <1>5, <1>6, <1>7, <1>8 DEF InTurn

\* The same, whether or not the answer reaches Stripe.
LEMMA AcknowledgedInTurn ==
  ASSUME StandingInv, InTurn, NEW d \in Deliveries, delivery[d].pc # "idle", Acknowledge(d),
         UNCHANGED <<stripe, posted, subRow, billing>>,
         delivery[d].ev.kind = "upsert" =>
           /\ subRow[delivery[d].ev.sub] = Subscription_create(delivery[d].ev)
           /\ Subs = {delivery[d].ev.sub}
                /\ billing[AccountOf[delivery[d].ev.sub]].status = "PAST_DUE" =>
                delivery[d].ev.status \in {"past_due", "unpaid"},
         delivery[d].ev.kind = "deleted" =>
           /\ subRow[delivery[d].ev.sub].status = "CANCELED"
           /\ billing[AccountOf[delivery[d].ev.sub]].status \in {"CANCELED", "SUSPENDED"}
  PROVE  InTurn'
<1>1. delivery' = [delivery EXCEPT ![d] = IdleDelivery]
  BY DEF Acknowledge
<1>2. /\ HandlersShape' /\ delivery'[d] = IdleDelivery
      /\ \A k \in Deliveries : k # d => delivery'[k] = delivery[k]
  BY <1>1, HandlerMoves
<1>3. CASE inflight' = inflight
  BY <1>2, <1>3, InTurnStays
<1>4. CASE inflight' = inflight \ {delivery[d].ev}
  BY <1>2, <1>4, AnsweredInTurn
<1> QED BY <1>3, <1>4 DEF Acknowledge

\* A handler goes on: what it has done by then holds, and the rows follow.
LEMMA MovesInTurn ==
  ASSUME StandingInv, InTurn, NEW d \in Deliveries, delivery[d].pc # "idle",
         UNCHANGED <<stripe, posted, inflight>>,
         NEW h \in Handling, h.ev = delivery[d].ev, delivery' = [delivery EXCEPT ![d] = h],
         HasDone(delivery[d])', \A s \in Subs : RowFollows(s)' /\ AccountFollows(s)'
  PROVE  InTurn'
<1>1. /\ delivery'[d] = h
      /\ \A k \in Deliveries : k # d => delivery'[k] = delivery[k]
  BY HandlerMoves
<1>2. /\ Oldest(delivery[d].ev)
      /\ \A k \in Deliveries : delivery[k] # IdleDelivery => k = d
  BY AtWorkInTurn
<1>3. /\ Numbered' /\ \A e \in inflight' : WordOf(e)'
      /\ \A e : Oldest(e)' <=> Oldest(e)
  BY EventsStay
<1>4. HandlerInTurn'
  <2>1. ASSUME NEW k \in Deliveries, delivery'[k] # IdleDelivery
        PROVE  k = d
    BY <1>1, <1>2, <2>1
  <2>2. Oldest(delivery[d].ev)'
    BY <1>1, <1>2, <1>3
  <2> QED BY <2>1, <2>2 DEF HandlerInTurn
<1> QED BY <1>3, <1>4 DEF InTurn

LEMMA RowsStay ==
  ASSUME StandingInv, InTurn, UNCHANGED <<stripe, inflight, posted, subRow, billing>>
  PROVE  \A s \in Subs : RowFollows(s)' /\ AccountFollows(s)'
<1>1. \A s : StatusEvents(s)' = StatusEvents(s) /\ Upserts(s)' = Upserts(s)
  BY EventsStay
<1> QED BY <1>1 DEF InTurn, RowFollows, AccountFollows

LEMMA DeliverInTurn ==
  ASSUME StandingInv, InTurn, NEW d \in Deliveries, NEW e \in inflight, DeliverEvent(d, e),
         InOrder(e)
  PROVE  InTurn'
<1>1. /\ UNCHANGED <<stripe, inflight, posted, subRow, billing>>
      /\ e \in Events /\ NoRow \in SubRows
  BY DEF DeliverEvent, UNCHANGED_OTHERS, UNCHANGED_STRIPE, StandingInv, StripeRows, NoRow,
         SubRows, Plans
<1>2. PICK h : h = [pc |-> IF e.kind \in {"succeeded", "failed", "invoice"} THEN "invoice" ELSE "read",
                    ev |-> e, row |-> NoRow]
  OBVIOUS
<1>3. h \in Handling /\ h.pc \in {"invoice", "read"} /\ h.ev = e
  BY <1>1, <1>2 DEF Handling
<1>4. delivery' = [delivery EXCEPT ![d] = h]
  BY <1>2 DEF DeliverEvent
<1>5. delivery'[d] = h /\ \A k \in Deliveries : k # d => delivery'[k] = delivery[k]
  BY <1>3, <1>4, HandlerMoves
<1>6. \A k \in Deliveries : delivery[k] = IdleDelivery
  BY NotIdle DEF InOrder
<1>7. \A f \in inflight : e.n =< f.n
  BY <1>1 DEF InOrder, StandingInv, StripeRows, Events
<1>8. Oldest(e)' /\ HasDone(delivery[d])'
  BY <1>1, <1>3, <1>5, <1>7 DEF Oldest, HasDone
<1>9. HandlerInTurn'
  BY <1>3, <1>5, <1>6, <1>8 DEF HandlerInTurn
<1> QED BY <1>1, <1>9, EventsStay, RowsStay DEF InTurn

LEMMA InvoiceInTurn ==
  ASSUME StandingInv, InTurn, NEW d \in Deliveries, HandleInvoice(d)
  PROVE  InTurn'
<1>1. /\ delivery[d].pc = "invoice" /\ delivery[d].ev \in Events
      /\ UNCHANGED <<stripe, posted, subRow, billing>>
  BY AtWork DEF HandleInvoice, UNCHANGED_OTHERS, UNCHANGED_STRIPE
<1>2. CASE delivery[d].ev.kind = "invoice"
  BY <1>1, <1>2, AcknowledgedInTurn DEF HandleInvoice
<1>3. CASE delivery[d].ev.kind # "invoice"
  <2>1. Goto(d, "read") /\ UNCHANGED inflight
    BY <1>3 DEF HandleInvoice
  <2>2. PICK h \in Handling : h.pc = "read" /\ h.ev = delivery[d].ev
                              /\ delivery' = [delivery EXCEPT ![d] = h]
    BY <1>1, <1>3, <2>1, GoesOn
  <2>3. HasDone(delivery[d])'
    BY <2>2, HandlerMoves DEF HasDone
  <2> QED BY <1>1, <2>1, <2>2, <2>3, RowsStay, MovesInTurn
<1> QED BY <1>2, <1>3

LEMMA ReadInTurn ==
  ASSUME StandingInv, InTurn, NEW d \in Deliveries, ReadSubscription(d)
  PROVE  InTurn'
<1> DEFINE e == delivery[d].ev
           s == delivery[d].ev.sub
<1>1. /\ delivery[d].pc = "read" /\ delivery[d] \in Handling /\ e \in Events /\ s \in Subs
      /\ UNCHANGED <<stripe, posted, subRow, billing>> /\ e.kind # "invoice"
  BY AtWork DEF ReadSubscription, UNCHANGED_OTHERS, UNCHANGED_STRIPE, Handling, Events
<1>2. /\ e \in inflight /\ WordOf(e) /\ RowFollows(s) /\ stripe[s].status # "none"
  BY <1>1, AtWorkInTurn DEF InTurn, WordOf
\* Without a row the subscription's creation is still to come.
<1>3. e.kind = "deleted" => subRow[s] # NoRow
  <2> SUFFICES ASSUME e.kind = "deleted", subRow[s] = NoRow PROVE FALSE
    OBVIOUS
  <2>1. PICK f \in Upserts(s) : TRUE
    BY <1>2 DEF RowFollows
  <2>2. f \in inflight /\ f.sub = s /\ f # e /\ f \in Events
    BY <2>1 DEF Upserts, StandingInv, StripeRows
  <2>3. f.n > e.n /\ f.n =< e.n
    BY <1>1, <1>2, <2>2, NothingEarlier DEF WordOf
  <2> QED BY <1>1, <2>2, <2>3 DEF Events
\* A row that does not say so yet has a status event behind it.
<1>4. ASSUME \/ e.kind = "succeeded" /\ subRow[s].status # "ACTIVE"
             \/ e.kind = "failed" /\ subRow[s].status # "PAST_DUE"
      PROVE  Followed(e)
  <2> SUFFICES ASSUME ~Followed(e) PROVE FALSE
    OBVIOUS
  <2>1. subRow[s].status # mapStripeStatus(stripe[s].status)
    BY <1>2, <1>4 DEF WordOf, mapStripeStatus
  <2>2. PICK f \in StatusEvents(s) : TRUE
    BY <1>2, <2>1 DEF RowFollows
  <2>3. f \in inflight /\ f # e
    BY <1>4, <2>2 DEF StatusEvents
  <2>4. f.n > e.n
    BY <1>1, <2>3, NothingEarlier
  <2> QED BY <2>2, <2>4 DEF Followed
<1>5. CASE AfterRead(e, findByStripeSubscriptionId(s)) = "done"
  <2>1. Acknowledge(d)
    BY <1>5 DEF ReadSubscription
  <2>2. e.kind \notin {"upsert", "deleted"}
    BY <1>3, <1>5 DEF AfterRead, findByStripeSubscriptionId
  <2> QED BY <1>1, <2>1, <2>2, AcknowledgedInTurn
<1>6. CASE AfterRead(e, findByStripeSubscriptionId(s)) # "done"
  <2>1. PICK h \in Handling :
          /\ h.pc = AfterRead(e, subRow[s])
          /\ h.pc \in {"save", "account"} /\ h.ev = e /\ h.row = subRow[s]
          /\ delivery' = [delivery EXCEPT ![d] = h] /\ UNCHANGED inflight
    BY <1>6, ReadsRow DEF findByStripeSubscriptionId
  <2>2. e.kind \in {"succeeded", "failed"} /\ h.pc = "save" => Followed(e)
    BY <1>4, <2>1 DEF AfterRead, isPastDue
  <2>3. e.kind \in {"upsert", "deleted"} => h.pc = "save"
    BY <1>3, <2>1 DEF AfterRead
  <2>4. e.kind = "succeeded" => h.pc = "save"
    BY <1>6, <2>1 DEF AfterRead, findByStripeSubscriptionId
  <2>5. Followed(e)' <=> Followed(e)
    BY <1>1, <2>1, EventsStay
  <2>6. delivery'[d] = h
    BY <2>1, HandlerMoves
  <2>7. HasDone(delivery[d])'
    BY <1>1, <2>1, <2>2, <2>3, <2>4, <2>5, <2>6 DEF HasDone
  <2> QED BY <1>1, <2>1, <2>7, RowsStay, MovesInTurn
<1> QED BY <1>5, <1>6

LEMMA EntityIs ==
  ASSUME StandingInv, NEW d \in Deliveries, delivery[d].pc # "idle",
         delivery[d].ev.kind \in {"deleted", "succeeded", "failed"}
  PROVE  /\ Entity(d).status = NewStatus(delivery[d].ev) /\ Entity(d).plan = delivery[d].row.plan
         /\ NewStatus(delivery[d].ev) # "none"
<1>1. delivery[d].row \in SubRows
  BY AtWork
<1>2. Entity(d) = [delivery[d].row EXCEPT !.status = NewStatus(delivery[d].ev)]
  BY DEF Entity, applyStripeUpdate
<1>3. NewStatus(delivery[d].ev) # "none"
  BY DEF NewStatus
<1>4. PICK st, pl : delivery[d].row = [status |-> st, plan |-> pl]
  BY <1>1 DEF SubRows
<1>5. Entity(d) = [status |-> NewStatus(delivery[d].ev), plan |-> pl]
  BY <1>2, <1>4
<1> QED BY <1>3, <1>4, <1>5

LEMMA SaveInTurn ==
  ASSUME StandingInv, InTurn, NEW d \in Deliveries, SaveSubscription(d)
  PROVE  InTurn'
<1> DEFINE e == delivery[d].ev
           s == delivery[d].ev.sub
<1>1. /\ delivery[d].pc = "save" /\ delivery[d] \in Handling /\ e \in Events /\ s \in Subs
      /\ UNCHANGED <<stripe, inflight, posted, billing>> /\ e.kind # "invoice"
  BY AtWork DEF SaveSubscription, UNCHANGED_OTHERS, UNCHANGED_STRIPE, Handling, Events
<1>2. /\ e \in inflight /\ WordOf(e) /\ HasDone(delivery[d])
  BY <1>1, AtWorkInTurn
<1>3. /\ delivery[d].row = subRow[s]
      /\ e.kind \in {"succeeded", "failed"} => Followed(e)
  BY <1>1, <1>2 DEF HasDone
<1>4. CASE delivery' = [delivery EXCEPT ![d] = IdleDelivery] /\ UNCHANGED subRow
  <2>1. \A k \in Deliveries : delivery'[k] \in {delivery[k], IdleDelivery}
    BY <1>4 DEF StandingInv, HandlersShape
  <2> QED BY <1>1, <1>4, <2>1, InTurnStays
<1>5. CASE saveSubscription(s, Entity(d)) /\ Goto(d, "account")
  <2>1. PICK h \in Handling : /\ h.pc = "account" /\ h.ev = e
                              /\ delivery' = [delivery EXCEPT ![d] = h]
    BY <1>1, <1>5, GoesOn
  <2>2. /\ subRow'[s] = Entity(d) /\ \A t \in Subs : t # s => subRow'[t] = subRow[t]
    BY <1>1, <1>5 DEF saveSubscription, StandingInv, StandingRows
  <2>3. /\ \A t : StatusEvents(t)' = StatusEvents(t) /\ Upserts(t)' = Upserts(t)
        /\ Followed(e)' <=> Followed(e)
    BY <1>1, <2>1, HandlerMoves, EventsStay
  <2>4. CASE e.kind = "upsert"
    <3>1. Entity(d) = Subscription_create(e)
      BY <2>4 DEF Entity
    <3>2. e \in StatusEvents(s) /\ e \in Upserts(s)
      BY <1>2, <2>4 DEF StatusEvents, Upserts
    <3>3. HasDone(delivery[d])'
      BY <2>1, <2>2, <2>4, <3>1, HandlerMoves DEF HasDone
    <3>4. ASSUME NEW t \in Subs PROVE RowFollows(t)' /\ AccountFollows(t)'
      <4>1. RowFollows(t) /\ AccountFollows(t)
        BY DEF InTurn
      <4>2. RowFollows(t)'
        BY <1>1, <2>2, <2>3, <3>2, <4>1 DEF RowFollows
      <4>3. AccountFollows(t)'
        BY <1>1, <2>3, <4>1 DEF AccountFollows
      <4> QED BY <4>2, <4>3
    <3> QED BY <1>1, <2>1, <3>3, <3>4, MovesInTurn
  <2>5. CASE e.kind \in {"deleted", "succeeded", "failed"}
    <3>1. /\ Entity(d).status = NewStatus(e) /\ Entity(d).plan = subRow[s].plan
          /\ Entity(d) # NoRow
      BY <1>1, <1>3, <2>5, EntityIs DEF NoRow
    <3>2. StatusEvents(s) # {}
      BY <1>2, <1>3, <2>5 DEF StatusEvents, Followed
    <3>3. HasDone(delivery[d])'
      BY <1>3, <2>1, <2>2, <2>3, <2>5, <3>1, HandlerMoves DEF HasDone, NewStatus
    <3>4. ASSUME NEW t \in Subs PROVE RowFollows(t)' /\ AccountFollows(t)'
      <4>1. RowFollows(t) /\ AccountFollows(t)
        BY DEF InTurn
      <4>2. RowFollows(t)'
        BY <1>1, <2>2, <2>3, <3>1, <3>2, <4>1 DEF RowFollows
      <4>3. AccountFollows(t)'
        BY <1>1, <2>3, <4>1 DEF AccountFollows
      <4> QED BY <4>2, <4>3
    <3> QED BY <1>1, <2>1, <3>3, <3>4, MovesInTurn
  <2> QED BY <1>1, <2>4, <2>5 DEF Events
<1> QED BY <1>4, <1>5 DEF SaveSubscription

\* The account status an event stands for.
LEMMA ImpliedOf ==
  ASSUME NEW e \in Events, WordOf(e), e.kind # "invoice"
  PROVE  /\ Implied(e) = "PAST_DUE" => \/ e.kind = "failed"
                                       \/ e.kind = "upsert" /\ e.status \in {"past_due", "unpaid"}
         /\ Implied(e) = "ACTIVE" => \/ e.kind = "succeeded"
                                     \/ e.kind = "upsert" /\ e.status = "active"
         /\ Implied(e) = "CANCELED" => e.kind = "deleted"
         /\ Implied(e) \notin {"PAST_DUE", "ACTIVE", "CANCELED"} =>
              e.kind = "upsert" /\ e.status = "incomplete"
<1>1. CASE e.kind = "upsert"
  <2>1. e.status \in {"incomplete", "active", "past_due", "unpaid"}
    BY <1>1 DEF WordOf
  <2>2. e.status = "active" => Implied(e) = "ACTIVE"
    BY <1>1 DEF Implied, NewStatus, mapStripeStatus, subscriptionStatusToAccountStatus
  <2>3. e.status \in {"past_due", "unpaid"} => Implied(e) = "PAST_DUE"
    BY <1>1 DEF Implied, NewStatus, mapStripeStatus, subscriptionStatusToAccountStatus
  <2>4. e.status = "incomplete" => Implied(e) = "none"
    BY <1>1 DEF Implied, NewStatus, mapStripeStatus, subscriptionStatusToAccountStatus
  <2> QED BY <1>1, <2>1, <2>2, <2>3, <2>4
<1>2. e.kind = "deleted" => Implied(e) = "CANCELED"
  BY DEF Implied, NewStatus, subscriptionStatusToAccountStatus
<1>3. e.kind = "succeeded" => Implied(e) = "ACTIVE"
  BY DEF Implied, NewStatus, subscriptionStatusToAccountStatus
<1>4. e.kind = "failed" => Implied(e) = "PAST_DUE"
  BY FailedImplies
<1> QED BY <1>1, <1>2, <1>3, <1>4 DEF Events

\* While the event at work implies a failed payment, no new subscription waits.
LEMMA PastDueFollows ==
  ASSUME StandingInv, InTurn, NEW d \in Deliveries, delivery[d].pc # "idle",
         delivery[d].ev.kind # "invoice", Implied(delivery[d].ev) = "PAST_DUE"
  PROVE  /\ \/ StatusEvents(delivery[d].ev.sub) # {}
            \/ stripe[delivery[d].ev.sub].status \in {"past_due", "unpaid"}
         /\ \A f \in Upserts(delivery[d].ev.sub) : f.status # "incomplete"
<1> DEFINE e == delivery[d].ev
<1>1. e \in inflight /\ e \in Events /\ WordOf(e)
  BY AtWorkInTurn
<1>2. e.kind = "failed" \/ (e.kind = "upsert" /\ e.status \in {"past_due", "unpaid"})
  BY <1>1, ImpliedOf
<1>3. StatusEvents(e.sub) # {} \/ stripe[e.sub].status \in {"past_due", "unpaid"}
  BY <1>1, <1>2 DEF WordOf, Followed, StatusEvents
<1>4. ASSUME NEW f \in Upserts(e.sub), f.status = "incomplete" PROVE FALSE
  <2>1. f \in inflight /\ f \in Events /\ WordOf(f) /\ f.kind = "upsert" /\ f.sub = e.sub /\ f # e
    BY <1>2, <1>4 DEF Upserts, InTurn, StandingInv, StripeRows
  <2>2. f.n > e.n /\ f.n =< e.n
    BY <1>1, <1>4, <2>1, NothingEarlier DEF WordOf
  <2> QED BY <1>1, <2>1, <2>2 DEF Events
<1> QED BY <1>3, <1>4

\* The account's row changes while its event is at work.
LEMMA AccountMoves ==
  ASSUME StandingInv, InTurn, NEW d \in Deliveries, delivery[d].pc # "idle",
         UNCHANGED <<stripe, posted, inflight, subRow>>,
         NEW a \in Accounts, a = AccountOf[delivery[d].ev.sub],
         NEW st, billing'[a].status = st,
         \A b \in Accounts : b # a => billing'[b] = billing[b],
         billing[a].status \in {"SUSPENDED", "CANCELED"} => st \in {"SUSPENDED", "CANCELED"},
         st = "PAST_DUE" => /\ delivery[d].ev.kind # "invoice"
                            /\ Implied(delivery[d].ev) = "PAST_DUE"
  PROVE  \A s \in Subs : RowFollows(s)' /\ AccountFollows(s)'
<1> SUFFICES ASSUME NEW s \in Subs PROVE RowFollows(s)' /\ AccountFollows(s)'
  OBVIOUS
<1>1. RowFollows(s) /\ AccountFollows(s) /\ AccountOf[s] \in Accounts
  BY BillingAssumption DEF InTurn
<1>2. \A t : StatusEvents(t)' = StatusEvents(t) /\ Upserts(t)' = Upserts(t)
  BY EventsStay
<1>3. RowFollows(s)'
  BY <1>1, <1>2 DEF RowFollows
<1>4. CASE AccountOf[s] # a
  <2>1. billing'[AccountOf[s]] = billing[AccountOf[s]] /\ stripe' = stripe
    BY <1>1, <1>4
  <2> QED BY <1>1, <1>2, <1>3, <2>1 DEF AccountFollows
<1>5. CASE AccountOf[s] = a
  <2>1. delivery[d].ev.sub \in Subs
    BY AtWorkInTurn
  <2>2. Subs = {s} => s = delivery[d].ev.sub
    BY <2>1
  <2>3. st = "PAST_DUE" /\ Subs = {s} =>
          /\ StatusEvents(s) # {} \/ stripe[s].status \in {"past_due", "unpaid"}
          /\ \A f \in Upserts(s) : f.status # "incomplete"
    BY <2>2, PastDueFollows
  <2>4. billing'[AccountOf[s]].status = st /\ stripe' = stripe
    BY <1>5
  <2>5. stripe[s].status = "canceled" /\ StatusEvents(s) = {} => st \in {"CANCELED", "SUSPENDED"}
    BY <1>1, <1>5 DEF AccountFollows
  <2> QED BY <1>2, <1>3, <2>3, <2>4, <2>5 DEF AccountFollows
<1> QED BY <1>3, <1>4, <1>5

LEMMA AccountInTurn ==
  ASSUME StandingInv, InTurn, NEW d \in Deliveries, AccountStep(d)
  PROVE  InTurn'
<1> DEFINE e == delivery[d].ev
<1>1. /\ delivery[d].pc = "account" /\ delivery[d] \in Handling /\ e \in Events
      /\ UNCHANGED <<stripe, posted, subRow>> /\ e.kind # "invoice"
  BY AtWork DEF AccountStep, UNCHANGED_OTHERS, UNCHANGED_STRIPE, Handling, Events
<1>2. /\ e \in inflight /\ WordOf(e) /\ HasDone(delivery[d]) /\ AccountFollows(e.sub)
      /\ e.sub \in Subs /\ AccountOf[e.sub] \in Accounts
  BY <1>1, AtWorkInTurn DEF InTurn
<1>3. PICK a \in Accounts : a = AccountOf[e.sub]
  BY <1>2
<1>4. /\ e.kind = "upsert" => subRow[e.sub] = Subscription_create(e)
      /\ e.kind = "deleted" => subRow[e.sub].status = "CANCELED"
      /\ e.kind = "succeeded" => Followed(e)
  BY <1>1, <1>2 DEF HasDone
<1>5. billing = [b \in Accounts |-> billing[b]]
      /\ billing[a] \in [status : BillingStatus, graceEndsAt : {NoDeadline} \cup Nat, customer : Nat]
  BY DEF StandingInv, StandingRows
\* Going on, what the handler has done so far is recorded in the rows.
<1>6. ASSUME NEW h \in Handling, h.ev = e, delivery' = [delivery EXCEPT ![d] = h],
             UNCHANGED inflight, h.pc \in {"deadline", "notify"},
             h.pc = "deadline" => Implied(e) = "PAST_DUE",
             h.pc = "notify" /\ e.kind = "deleted" => billing'[a].status \in {"CANCELED", "SUSPENDED"},
             h.pc = "notify" /\ Implied(e) = "ACTIVE" => billing'[a].status # "PAST_DUE"
      PROVE  HasDone(delivery[d])'
  <2>1. delivery'[d] = h
    BY <1>6, HandlerMoves
  <2>2. Followed(e)' <=> Followed(e)
    BY <1>1, <1>6, <2>1, EventsStay
  <2> QED BY <1>1, <1>3, <1>4, <1>6, <2>1, <2>2 DEF HasDone
<1>7. CASE Implied(e) = "PAST_DUE"
  <2>1. CASE pastDueFromActive(a)
    <3>1. startGrace(a) /\ Goto(d, "notify") /\ UNCHANGED inflight
      BY <1>3, <1>7, <2>1 DEF AccountStep
    <3>2. PICK h \in Handling : /\ h.pc = "notify" /\ h.ev = e
                                /\ delivery' = [delivery EXCEPT ![d] = h]
      BY <1>1, <3>1, GoesOn
    <3>3. /\ billing'[a].status = "PAST_DUE"
          /\ \A b \in Accounts : b # a => billing'[b] = billing[b]
      BY <1>5, <3>1 DEF startGrace, SetStatus
    <3>4. e.kind # "deleted"
      BY <1>1, <1>2, <1>7, ImpliedOf
    <3>5. HasDone(delivery[d])'
      BY <1>6, <1>7, <3>1, <3>2, <3>4
    <3>6. \A s \in Subs : RowFollows(s)' /\ AccountFollows(s)'
      BY <1>1, <1>3, <1>7, <2>1, <3>1, <3>3, AccountMoves DEF pastDueFromActive
    <3> QED BY <1>1, <3>1, <3>2, <3>5, <3>6, MovesInTurn
  <2>2. CASE ~pastDueFromActive(a)
    <3>1. Goto(d, "deadline") /\ UNCHANGED <<billing, inflight>>
      BY <1>3, <1>7, <2>2 DEF AccountStep
    <3>2. PICK h \in Handling : /\ h.pc = "deadline" /\ h.ev = e
                                /\ delivery' = [delivery EXCEPT ![d] = h]
      BY <1>1, <3>1, GoesOn
    <3>3. HasDone(delivery[d])'
      BY <1>6, <1>7, <3>1, <3>2
    <3> QED BY <1>1, <3>1, <3>2, <3>3, RowsStay, MovesInTurn
  <2> QED BY <2>1, <2>2
<1>8. CASE Implied(e) = "ACTIVE"
  <2>1. markActiveFromPastDue(a)
    BY <1>3, <1>8 DEF AccountStep
  <2>2. e.kind # "deleted"
    BY <1>1, <1>2, <1>8, ImpliedOf
  <2>3. CASE e.kind = "upsert" /\ billing[a].status # "PAST_DUE"
    <3>1. Acknowledge(d) /\ UNCHANGED billing
      BY <1>3, <1>8, <2>1, <2>3 DEF AccountStep, markActiveFromPastDue
    <3> QED BY <1>1, <1>3, <1>4, <2>2, <2>3, <3>1, AcknowledgedInTurn
  <2>4. CASE ~(e.kind = "upsert" /\ billing[a].status # "PAST_DUE")
    <3>1. Goto(d, "notify") /\ UNCHANGED inflight
      BY <1>3, <1>8, <2>4 DEF AccountStep
    <3>2. PICK h \in Handling : /\ h.pc = "notify" /\ h.ev = e
                                /\ delivery' = [delivery EXCEPT ![d] = h]
      BY <1>1, <3>1, GoesOn
    <3>3. /\ billing'[a].status = IF billing[a].status = "PAST_DUE" THEN "ACTIVE"
                                  ELSE billing[a].status
          /\ \A b \in Accounts : b # a => billing'[b] = billing[b]
      BY <1>5, <2>1 DEF markActiveFromPastDue
    <3>4. HasDone(delivery[d])'
      BY <1>6, <1>8, <2>2, <3>1, <3>2, <3>3
    <3>5. \A s \in Subs : RowFollows(s)' /\ AccountFollows(s)'
      BY <1>1, <1>3, <3>1, <3>3, AccountMoves
    <3> QED BY <1>1, <3>1, <3>2, <3>4, <3>5, MovesInTurn
  <2> QED BY <2>3, <2>4
<1>9. CASE Implied(e) = "CANCELED"
  <2>1. updateBillingStatus(a, "CANCELED") /\ Goto(d, "notify") /\ UNCHANGED inflight
    BY <1>3, <1>9 DEF AccountStep
  <2>2. PICK h \in Handling : /\ h.pc = "notify" /\ h.ev = e
                              /\ delivery' = [delivery EXCEPT ![d] = h]
    BY <1>1, <2>1, GoesOn
  <2>3. /\ billing'[a].status = "CANCELED"
        /\ \A b \in Accounts : b # a => billing'[b] = billing[b]
    BY <1>5, <2>1 DEF updateBillingStatus, SetStatus
  <2>4. HasDone(delivery[d])'
    BY <1>6, <2>1, <2>2, <2>3
  <2>5. \A s \in Subs : RowFollows(s)' /\ AccountFollows(s)'
    BY <1>1, <1>3, <2>1, <2>3, AccountMoves
  <2> QED BY <1>1, <2>1, <2>2, <2>4, <2>5, MovesInTurn
<1>10. CASE Implied(e) \notin {"PAST_DUE", "ACTIVE", "CANCELED"}
  <2>1. Acknowledge(d) /\ UNCHANGED billing
    BY <1>10 DEF AccountStep
  <2>2. e.kind = "upsert" /\ e.status = "incomplete"
    BY <1>1, <1>2, <1>10, ImpliedOf
  <2>3. e \in Upserts(e.sub)
    BY <1>2, <2>2 DEF Upserts
  <2>4. ~(Subs = {e.sub} /\ billing[AccountOf[e.sub]].status = "PAST_DUE")
    BY <1>2, <2>2, <2>3 DEF AccountFollows
  <2> QED BY <1>1, <1>4, <2>1, <2>2, <2>4, AcknowledgedInTurn
<1> QED BY <1>7, <1>8, <1>9, <1>10

LEMMA DeadlineInTurn ==
  ASSUME StandingInv, InTurn, NEW d \in Deliveries, MissingDeadlineStep(d)
  PROVE  InTurn'
<1> DEFINE e == delivery[d].ev
<1>1. /\ delivery[d].pc = "deadline" /\ delivery[d] \in Handling /\ e \in Events
      /\ UNCHANGED <<stripe, posted, subRow>> /\ e.kind # "invoice"
  BY AtWork DEF MissingDeadlineStep, UNCHANGED_OTHERS, UNCHANGED_STRIPE, Handling, Events
<1>2. /\ WordOf(e) /\ HasDone(delivery[d]) /\ AccountOf[e.sub] \in Accounts
  BY <1>1, AtWorkInTurn
<1>3. /\ e.kind = "upsert" => subRow[e.sub] = Subscription_create(e)
      /\ Implied(e) = "PAST_DUE"
  BY <1>1, <1>2 DEF HasDone
<1>4. e.kind = "failed" \/ (e.kind = "upsert" /\ e.status \in {"past_due", "unpaid"})
  BY <1>1, <1>2, <1>3, ImpliedOf
<1>5. ~pastDueMissingDeadline(AccountOf[e.sub])
  BY <1>2 DEF pastDueMissingDeadline, StandingInv, DeadlineIffPastDue
<1>6. Acknowledge(d) /\ UNCHANGED billing
  BY <1>5 DEF MissingDeadlineStep
<1> QED BY <1>1, <1>3, <1>4, <1>6, AcknowledgedInTurn

LEMMA NotifyInTurn ==
  ASSUME StandingInv, InTurn, NEW d \in Deliveries, NotifyStep(d)
  PROVE  InTurn'
<1> DEFINE e == delivery[d].ev
<1>1. /\ delivery[d].pc = "notify" /\ delivery[d] \in Handling /\ e \in Events
      /\ UNCHANGED <<stripe, posted, subRow, billing>> /\ Acknowledge(d) /\ e.kind # "invoice"
  BY AtWork DEF NotifyStep, UNCHANGED_OTHERS, UNCHANGED_STRIPE, Handling, Events
<1>2. /\ e \in inflight /\ WordOf(e) /\ HasDone(delivery[d]) /\ AccountFollows(e.sub)
  BY <1>1, AtWorkInTurn DEF InTurn
<1>3. /\ e.kind = "upsert" => subRow[e.sub] = Subscription_create(e)
      /\ e.kind = "deleted" => /\ subRow[e.sub].status = "CANCELED"
                               /\ billing[AccountOf[e.sub]].status \in {"CANCELED", "SUSPENDED"}
      /\ e.kind = "upsert" /\ Implied(e) = "ACTIVE" /\ Subs = {e.sub} =>
           billing[AccountOf[e.sub]].status # "PAST_DUE"
  BY <1>1, <1>2 DEF HasDone
<1>4. ASSUME e.kind = "upsert", Subs = {e.sub}, billing[AccountOf[e.sub]].status = "PAST_DUE"
      PROVE  e.status \in {"past_due", "unpaid"}
  <2>1. e \in Upserts(e.sub)
    BY <1>2, <1>4 DEF Upserts
  <2>2. e.status # "incomplete"
    BY <1>2, <1>4, <2>1 DEF AccountFollows
  <2>3. Implied(e) # "ACTIVE" /\ Implied(e) # "CANCELED"
    BY <1>1, <1>2, <1>3, <1>4, ImpliedOf
  <2> QED BY <1>1, <1>2, <1>4, <2>2, <2>3, ImpliedOf
<1> QED BY <1>1, <1>3, <1>4, AcknowledgedInTurn

\* What the events of a move of Stripe's say of the subscription as it is now.
SaysNow(e, s, is, was) ==
  /\ e.sub = s
  /\ e.kind = "upsert" => /\ e.status = is.status /\ e.plan = is.plan
                          /\ e.status \in {"incomplete", "active", "past_due", "unpaid"}
                          /\ e.status = "incomplete" => was.status = "none"
  /\ e.kind = "deleted" => is.status = "canceled"
  /\ e.kind = "succeeded" => is.status = "active"
  /\ e.kind = "failed" => is.status = "past_due"

LEMMA MoveInTurn ==
  ASSUME StandingInv, InTurn, NEW s \in Subs, NEW evs \in SUBSET Events,
         inflight' = inflight \cup evs, UNCHANGED <<delivery, subRow, billing>>,
         \A t \in Subs : t # s => stripe'[t] = stripe[t],
         stripe'[s].status # "none", stripe[s].status # "canceled",
         posted' \in Nat, posted =< posted',
         \A e \in evs : posted < e.n /\ e.n =< posted' /\ SaysNow(e, s, stripe'[s], stripe[s]),
         \A e, f \in evs : e.n = f.n => e = f,
         \A e \in evs : e.kind = "deleted" \/ e.status = "incomplete" => evs = {e},
         stripe'[s] = stripe[s] \/ \E u \in evs : u.kind \in {"upsert", "deleted"},
         \/ stripe'[s].plan = stripe[s].plan /\ stripe[s].status # "none"
         \/ \E u \in evs : u.kind = "upsert"
  PROVE  InTurn'
<1>1. /\ \A f \in inflight : f \in Events /\ f.n \in Nat /\ f.n =< posted
      /\ \A e \in evs : e.n \in Nat
      /\ posted \in Nat
  BY DEF StandingInv, StandingRows, StripeRows, InTurn, Numbered, Events
<1>2. \A f \in inflight, e \in evs : f.n < e.n
  BY <1>1
<1>3. Numbered'
  <2>1. Numbered
    BY DEF InTurn
  <2>2. ASSUME NEW e \in inflight', NEW f \in inflight' PROVE e.n =< posted' /\ (e.n = f.n => e = f)
    BY <1>1, <1>2, <2>1 DEF Numbered
  <2> QED BY <2>2 DEF Numbered
<1>4. /\ \A t : StatusEvents(t) \subseteq StatusEvents(t)' /\ Upserts(t) \subseteq Upserts(t)'
      /\ \A t : t # s => StatusEvents(t)' = StatusEvents(t) /\ Upserts(t)' = Upserts(t)
      /\ \A e \in evs : e.kind \in {"upsert", "deleted"} => e \in StatusEvents(s)'
      /\ \A e \in evs : e.kind = "upsert" => e \in Upserts(s)'
      /\ \A e \in Upserts(s)' : e \in Upserts(s) \/ (e \in evs /\ e.kind = "upsert")
  BY DEF StatusEvents, Upserts, SaysNow
<1>5. \A f \in inflight : f.sub = s => stripe[s].status # "none" /\ f.kind # "deleted"
  BY DEF InTurn, WordOf
<1>6. \A f \in inflight : Followed(f) => Followed(f)'
  BY <1>4 DEF Followed
<1>7. ASSUME NEW f \in inflight PROVE WordOf(f)'
  <2>1. WordOf(f) /\ f.n \in Nat /\ f.sub \in Subs
    BY <1>1 DEF InTurn, Events
  <2>2. CASE f.sub # s
    <3>1. stripe'[f.sub] = stripe[f.sub]
      BY <2>1, <2>2
    <3>2. \A g \in inflight' : g.sub = f.sub => g \in inflight
      BY <2>2 DEF SaysNow
    <3> QED BY <1>4, <1>6, <2>1, <2>2, <3>1, <3>2 DEF WordOf
  <2>3. CASE f.sub = s
    <3>1. f.kind # "deleted"
      BY <1>5, <2>3
    <3>2. Followed(f)' \/ stripe'[s] = stripe[s]
      <4>1. CASE \E u \in evs : u.kind \in {"upsert", "deleted"}
        <5>1. PICK u \in evs : u.kind \in {"upsert", "deleted"}
          BY <4>1
        <5>2. u \in StatusEvents(s)' /\ u.n > f.n
          BY <1>1, <1>2, <1>4, <5>1
        <5> QED BY <2>3, <5>2 DEF Followed
      <4> QED BY <4>1
    <3>3. (\E g \in Upserts(s)' : g.n > f.n) \/ stripe'[s].plan = stripe[s].plan
      <4>1. CASE \E u \in evs : u.kind = "upsert"
        <5>1. PICK u \in evs : u.kind = "upsert"
          BY <4>1
        <5>2. u \in Upserts(s)' /\ u.n > f.n
          BY <1>1, <1>2, <1>4, <5>1
        <5> QED BY <5>2
      <4> QED BY <4>1
    <3>4. (\E g \in Upserts(s) : g.n > f.n) => (\E g \in Upserts(s)' : g.n > f.n)
      BY <1>4
    <3>5. \A g \in evs : f.n =< g.n
      BY <1>1, <1>2
    <3>6. stripe'[f.sub] = stripe'[s] /\ stripe[f.sub] = stripe[s] /\ Upserts(f.sub)' = Upserts(s)'
          /\ Upserts(f.sub) = Upserts(s)
      BY <2>3
    <3> QED BY <1>6, <2>1, <2>3, <3>1, <3>2, <3>3, <3>4, <3>5, <3>6 DEF WordOf
  <2> QED BY <2>2, <2>3
<1>8. ASSUME NEW e \in evs PROVE WordOf(e)'
  <2>1. SaysNow(e, s, stripe'[s], stripe[s]) /\ e.n \in Nat
    BY <1>1
  <2>2. e.kind = "deleted" => \A f \in inflight' : f.sub = e.sub => f.n =< e.n
    BY <1>1, <1>2
  <2>3. e.kind = "upsert" /\ e.status = "incomplete" =>
          \A f \in inflight' : f.sub = e.sub => e.n =< f.n
    BY <1>5, <2>1 DEF SaysNow
  <2> QED BY <2>1, <2>2, <2>3 DEF WordOf, SaysNow
<1>9. ASSUME NEW t \in Subs PROVE RowFollows(t)' /\ AccountFollows(t)'
  <2>1. RowFollows(t) /\ AccountFollows(t)
    BY DEF InTurn
  <2>2. CASE t # s
    <3>1. stripe'[t] = stripe[t] /\ StatusEvents(t)' = StatusEvents(t) /\ Upserts(t)' = Upserts(t)
      BY <1>4, <2>2
    <3> QED BY <2>1, <3>1 DEF RowFollows, AccountFollows
  <2>3. CASE t = s
    <3>1. StatusEvents(s)' = {} => stripe'[s] = stripe[s] /\ StatusEvents(s) = {}
      BY <1>4
    <3>2. Upserts(s)' = {} => stripe'[s].plan = stripe[s].plan /\ stripe[s].status # "none"
                              /\ Upserts(s) = {}
      BY <1>4
    <3>3. RowFollows(s)'
      BY <2>1, <2>3, <3>1, <3>2 DEF RowFollows
    <3>4. Subs = {s} /\ billing[AccountOf[s]].status = "PAST_DUE" =>
            /\ StatusEvents(s)' # {} \/ stripe'[s].status \in {"past_due", "unpaid"}
            /\ stripe[s].status # "none"
            /\ \A e \in Upserts(s) : e.status # "incomplete"
      <4>1. StatusEvents(s) # {} => stripe[s].status # "none"
        BY <1>5 DEF StatusEvents
      <4> QED BY <2>1, <2>3, <3>1, <4>1 DEF AccountFollows
    <3>5. Subs = {s} /\ billing[AccountOf[s]].status = "PAST_DUE" =>
            \A e \in Upserts(s)' : e.status # "incomplete"
      BY <1>4, <3>4 DEF SaysNow
    <3>6. AccountFollows(s)'
      BY <3>1, <3>4, <3>5 DEF AccountFollows
    <3> QED BY <2>3, <3>3, <3>6
  <2> QED BY <2>2, <2>3
<1>10. HandlerInTurn'
  <2>1. ASSUME NEW d \in Deliveries, delivery[d] # IdleDelivery
        PROVE  Oldest(delivery[d].ev)' /\ HasDone(delivery[d])'
               /\ \A k \in Deliveries : delivery[k] # IdleDelivery => k = d
    <3>1. delivery[d].pc # "idle"
      BY <2>1, NotIdle
    <3>2. /\ HasDone(delivery[d]) /\ Oldest(delivery[d].ev) /\ delivery[d].ev \in inflight
          /\ \A k \in Deliveries : delivery[k] # IdleDelivery => k = d
      BY <3>1, AtWorkInTurn
    <3>3. Oldest(delivery[d].ev)'
      BY <1>1, <1>2, <3>2 DEF Oldest
    <3>4. PICK e \in inflight : e = delivery[d].ev
      BY <3>2
    <3>5. Followed(delivery[d].ev) => Followed(delivery[d].ev)'
      BY <1>6, <3>4
    <3>6. HasDone(delivery[d])'
      BY <3>2, <3>5 DEF HasDone
    <3> QED BY <3>2, <3>3, <3>6
  <2> QED BY <2>1 DEF HandlerInTurn
<1>11. \A e \in inflight' : WordOf(e)'
  BY <1>7, <1>8
<1> QED BY <1>3, <1>9, <1>10, <1>11 DEF InTurn

\* One event posted, or two with numbers in a row.
LEMMA OnePosted ==
  ASSUME StandingInv, NEW e \in Events, e.n = posted + 1, Post({e})
  PROVE  /\ inflight' = inflight \cup {e} /\ posted' = posted + 1 /\ posted \in Nat
         /\ posted' \in Nat
<1>1. Cardinality({e}) = 1
  BY FS_Singleton
<1>2. posted \in Nat
  BY DEF StandingInv, StandingRows
<1> QED BY <1>1, <1>2 DEF Post

LEMMA TwoPosted ==
  ASSUME StandingInv, NEW e \in Events, NEW f \in Events, e.n = posted + 1, f.n = posted + 1,
         Post({e, Second(f)})
  PROVE  /\ inflight' = inflight \cup {e, Second(f)} /\ posted' = posted + 2 /\ posted \in Nat
         /\ posted' \in Nat
         /\ Second(f) \in Events /\ Second(f).n = posted + 2 /\ Second(f).kind = f.kind
         /\ Second(f).sub = f.sub /\ Second(f).status = f.status /\ Second(f).plan = f.plan
<1>1. posted \in Nat
  BY DEF StandingInv, StandingRows
<1>2. PICK g : g = [n |-> posted + 2, kind |-> f.kind, sub |-> f.sub, status |-> f.status,
                    plan |-> f.plan]
  OBVIOUS
<1>3. f = [n |-> posted + 1, kind |-> f.kind, sub |-> f.sub, status |-> f.status, plan |-> f.plan]
  BY DEF Events
<1>4. Second(f) = [f EXCEPT !.n = posted + 2]
  BY <1>1 DEF Second
<1>5. Second(f) = g
  BY <1>2, <1>3, <1>4
<1>6. /\ Second(f) \in Events /\ Second(f).n = posted + 2 /\ Second(f).kind = f.kind
      /\ Second(f).sub = f.sub /\ Second(f).status = f.status /\ Second(f).plan = f.plan
  <2>1. /\ g.n = posted + 2 /\ g.kind = f.kind /\ g.sub = f.sub /\ g.status = f.status
        /\ g.plan = f.plan /\ g \in Events
    BY <1>1, <1>2 DEF Events
  <2> QED BY <1>5, <2>1
<1>7. Second(f) # e
  BY <1>1, <1>6
<1>8. IsFiniteSet({e}) /\ Cardinality({e}) = 1
  BY FS_Singleton
<1>9. Cardinality({e} \cup {Second(f)}) = 2
  <2>1. \A x : IsFiniteSet({e}) =>
          Cardinality({e} \cup {x}) = IF x \in {e} THEN Cardinality({e}) ELSE Cardinality({e}) + 1
    BY FS_AddElement, Zenon
  <2>2. Second(f) \notin {e}
    BY <1>7
  <2>3. Cardinality({e} \cup {Second(f)}) = Cardinality({e}) + 1
    BY <1>8, <2>1, <2>2, Zenon
  <2> QED BY <1>8, <2>3
<1>10. {e, Second(f)} = {e} \cup {Second(f)}
  OBVIOUS
<1> QED BY <1>1, <1>6, <1>9, <1>10 DEF Post

\* A status event and the event of its payment, posted in either order.
LEMMA PaymentInTurn ==
  ASSUME StandingInv, InTurn, NEW s \in Subs, NEW e \in Events, NEW f \in Events,
         e.n = posted + 1, f.n = posted + 1, Post({e, Second(f)}),
         UNCHANGED <<delivery, subRow, billing>>,
         \A t \in Subs : t # s => stripe'[t] = stripe[t],
         stripe'[s].status \in {"active", "past_due"}, stripe[s].status # "canceled",
         SaysNow(e, s, stripe'[s], stripe[s]), SaysNow(f, s, stripe'[s], stripe[s]),
         e.kind \in {"upsert", "succeeded", "failed"}, f.kind \in {"upsert", "succeeded", "failed"},
         e.status # "incomplete", f.status # "incomplete",
         e.kind = "upsert" \/ f.kind = "upsert"
  PROVE  InTurn'
<1>1. PICK g \in Events : g = Second(f)
  BY TwoPosted
<1>2. /\ inflight' = inflight \cup {e, g} /\ posted' = posted + 2 /\ posted \in Nat
      /\ posted' \in Nat /\ g.n = posted + 2 /\ g.kind = f.kind
      /\ g.sub = f.sub /\ g.status = f.status /\ g.plan = f.plan
  BY <1>1, TwoPosted
<1>3. PICK evs \in SUBSET Events : evs = {e, g}
  OBVIOUS
<1>4. SaysNow(g, s, stripe'[s], stripe[s])
  BY <1>2 DEF SaysNow
<1>5. \A x \in evs : /\ posted < x.n /\ x.n =< posted' /\ SaysNow(x, s, stripe'[s], stripe[s])
                     /\ x.kind # "deleted" /\ x.status # "incomplete"
  BY <1>2, <1>3, <1>4
<1>6. \A x, y \in evs : x.n = y.n => x = y
  BY <1>2, <1>3
<1>7. \E u \in evs : u.kind = "upsert"
  BY <1>2, <1>3
<1>8. inflight' = inflight \cup evs /\ posted =< posted' /\ stripe'[s].status # "none"
  BY <1>2, <1>3
<1> QED BY <1>2, <1>5, <1>6, <1>7, <1>8, MoveInTurn

\* A move with a single event.
LEMMA SingleInTurn ==
  ASSUME StandingInv, InTurn, NEW s \in Subs, NEW e \in Events, e.n = posted + 1, Post({e}),
         UNCHANGED <<delivery, subRow, billing>>,
         \A t \in Subs : t # s => stripe'[t] = stripe[t],
         stripe'[s].status # "none", stripe[s].status # "canceled",
         SaysNow(e, s, stripe'[s], stripe[s]),
         stripe'[s] = stripe[s] \/ e.kind \in {"upsert", "deleted"},
         \/ stripe'[s].plan = stripe[s].plan /\ stripe[s].status # "none"
         \/ e.kind = "upsert"
  PROVE  InTurn'
<1>1. /\ inflight' = inflight \cup {e} /\ posted' = posted + 1 /\ posted \in Nat
      /\ posted' \in Nat
  BY OnePosted
<1>2. PICK evs \in SUBSET Events : evs = {e}
  OBVIOUS
<1>3. \A x \in evs : posted < x.n /\ x.n =< posted' /\ SaysNow(x, s, stripe'[s], stripe[s])
  BY <1>1, <1>2
<1>4. /\ inflight' = inflight \cup evs /\ posted =< posted'
      /\ \A x, y \in evs : x.n = y.n => x = y
      /\ \A x \in evs : evs = {x}
  BY <1>1, <1>2
<1>5. /\ stripe'[s] = stripe[s] \/ \E u \in evs : u.kind \in {"upsert", "deleted"}
      /\ \/ stripe'[s].plan = stripe[s].plan /\ stripe[s].status # "none"
         \/ \E u \in evs : u.kind = "upsert"
  BY <1>2
<1> QED BY <1>1, <1>3, <1>4, <1>5, MoveInTurn

LEMMA StripeTo ==
  ASSUME StandingInv, NEW s \in Subs, NEW st, NEW plan, NEW inv, StripeMoves(s, st, plan, inv)
  PROVE  /\ stripe'[s] = [status |-> st, plan |-> plan]
         /\ stripe'[s].status = st /\ stripe'[s].plan = plan
         /\ \A t \in Subs : t # s => stripe'[t] = stripe[t]
BY DEF StandingInv, StripeRows, StripeMoves

LEMMA EventIs ==
  ASSUME NEW s, NEW st, NEW plan, NEW kind
  PROVE  /\ Event(kind, s, st, plan).n = posted + 1 /\ Event(kind, s, st, plan).kind = kind
         /\ Event(kind, s, st, plan).sub = s /\ Event(kind, s, st, plan).status = st
         /\ Event(kind, s, st, plan).plan = plan
BY DEF Event

LEMMA StripeInTurn ==
  ASSUME StandingInv, InTurn, NEW s \in Subs,
         StripeSubscribes(s) \/ StripePays(s) \/ StripeDeclines(s) \/ StripeTouches(s)
  PROVE  InTurn'
<1>1. /\ stripe[s].plan \in Plans /\ stripeInvoice[s] \in {"draft", "paid", "open", "uncollectible"}
      /\ {"PRO", "ENTERPRISE"} \subseteq Plans
      /\ stripe[s] = [status |-> stripe[s].status, plan |-> stripe[s].plan]
  BY DEF StandingInv, StripeRows, Plans
<1>2. {"incomplete", "active", "past_due", "unpaid", "canceled",
       "draft", "open", "paid", "uncollectible"} \subseteq EventStatus
  BY DEF EventStatus
<1>3. UNCHANGED <<delivery, subRow, billing>>
  BY DEF StripeSubscribes, StripePays, StripeDeclines, StripeTouches, UNCHANGED_API
<1>4. CASE StripeSubscribes(s)
  <2>1. /\ StripeMoves(s, "incomplete", "PRO", "draft") /\ stripe[s].status = "none"
        /\ Post({Event("upsert", s, "incomplete", "PRO")})
    BY <1>4 DEF StripeSubscribes
  <2>2. PICK e \in Events : e = Event("upsert", s, "incomplete", "PRO")
    BY <1>1, <1>2, EventOK
  <2>3. /\ e.n = posted + 1 /\ e.kind = "upsert" /\ e.sub = s /\ e.status = "incomplete"
        /\ e.plan = "PRO"
    BY <2>2, EventIs
  <2>4. /\ stripe'[s].status = "incomplete" /\ stripe'[s].plan = "PRO"
        /\ \A t \in Subs : t # s => stripe'[t] = stripe[t]
    BY <2>1 DEF StripeMoves, StandingInv, StripeRows
  <2>5. SaysNow(e, s, stripe'[s], stripe[s])
    BY <2>1, <2>3, <2>4 DEF SaysNow
  <2> QED BY <1>3, <2>1, <2>2, <2>3, <2>4, <2>5, SingleInTurn
<1>5. CASE StripePays(s)
  <2>1. PICK e \in Events, f \in Events :
          /\ e = Event("upsert", s, "active", stripe[s].plan)
          /\ f = Event("succeeded", s, "paid", stripe[s].plan)
    BY <1>1, <1>2, EventOK
  <2>2. /\ StripeMoves(s, "active", stripe[s].plan, "paid")
        /\ stripe[s].status \in {"incomplete", "past_due", "unpaid"}
        /\ Post({e, Second(f)}) \/ Post({f, Second(e)})
    BY <1>5, <2>1 DEF StripePays
  <2>3. /\ e.n = posted + 1 /\ e.kind = "upsert" /\ e.sub = s /\ e.status = "active"
        /\ e.plan = stripe[s].plan
        /\ f.n = posted + 1 /\ f.kind = "succeeded" /\ f.sub = s /\ f.status = "paid"
    BY <2>1, EventIs
  <2>4. /\ stripe'[s].status = "active" /\ stripe'[s].plan = stripe[s].plan
        /\ \A t \in Subs : t # s => stripe'[t] = stripe[t]
    BY <2>2, StripeTo
  <2>5. SaysNow(e, s, stripe'[s], stripe[s]) /\ SaysNow(f, s, stripe'[s], stripe[s])
    BY <2>2, <2>3, <2>4 DEF SaysNow
  <2> QED BY <1>3, <2>2, <2>3, <2>4, <2>5, PaymentInTurn
<1>6. CASE StripeDeclines(s)
  <2>1. PICK e \in Events, f \in Events :
          /\ e = Event("upsert", s, "past_due", stripe[s].plan)
          /\ f = Event("failed", s, "open", stripe[s].plan)
    BY <1>1, <1>2, EventOK
  <2>2. /\ StripeMoves(s, "past_due", stripe[s].plan, "open")
        /\ stripe[s].status \in {"active", "past_due"}
        /\ IF stripe[s].status = "active"
           THEN Post({e, Second(f)}) \/ Post({f, Second(e)})
           ELSE Post({f})
    BY <1>6, <2>1 DEF StripeDeclines
  <2>3. /\ e.n = posted + 1 /\ e.kind = "upsert" /\ e.sub = s /\ e.status = "past_due"
        /\ e.plan = stripe[s].plan
        /\ f.n = posted + 1 /\ f.kind = "failed" /\ f.sub = s /\ f.status = "open"
    BY <2>1, EventIs
  <2>4. /\ stripe'[s] = [status |-> "past_due", plan |-> stripe[s].plan]
        /\ stripe'[s].status = "past_due" /\ stripe'[s].plan = stripe[s].plan
        /\ \A t \in Subs : t # s => stripe'[t] = stripe[t]
    BY <2>2, StripeTo
  <2>5. SaysNow(e, s, stripe'[s], stripe[s]) /\ SaysNow(f, s, stripe'[s], stripe[s])
    BY <2>2, <2>3, <2>4 DEF SaysNow
  <2>6. CASE stripe[s].status = "active"
    BY <1>3, <2>2, <2>3, <2>4, <2>5, <2>6, PaymentInTurn
  <2>7. CASE stripe[s].status = "past_due"
    <3>1. stripe'[s] = stripe[s]
      BY <1>1, <2>4, <2>7
    <3> QED BY <1>3, <2>2, <2>3, <2>4, <2>5, <2>7, <3>1, SingleInTurn
  <2> QED BY <2>2, <2>6, <2>7
<1>7. CASE StripeTouches(s)
  <2>1. CASE /\ stripe[s].status = "past_due"
             /\ StripeMoves(s, "unpaid", stripe[s].plan, "uncollectible")
             /\ Post({Event("upsert", s, "unpaid", stripe[s].plan)})
    <3>1. PICK e \in Events : e = Event("upsert", s, "unpaid", stripe[s].plan)
      BY <1>1, <1>2, EventOK
    <3>2. /\ e.n = posted + 1 /\ e.kind = "upsert" /\ e.sub = s /\ e.status = "unpaid"
          /\ e.plan = stripe[s].plan
      BY <3>1, EventIs
    <3>3. /\ stripe'[s].status = "unpaid" /\ stripe'[s].plan = stripe[s].plan
          /\ \A t \in Subs : t # s => stripe'[t] = stripe[t]
      BY <2>1, StripeTo
    <3>4. SaysNow(e, s, stripe'[s], stripe[s])
      BY <3>2, <3>3 DEF SaysNow
    <3> QED BY <1>3, <2>1, <3>1, <3>2, <3>3, <3>4, SingleInTurn
  <2>2. CASE /\ stripe[s].status = "active" /\ stripe[s].plan = "PRO"
             /\ StripeMoves(s, "active", "ENTERPRISE", stripeInvoice[s])
             /\ Post({Event("upsert", s, "active", "ENTERPRISE")})
    <3>1. PICK e \in Events : e = Event("upsert", s, "active", "ENTERPRISE")
      BY <1>1, <1>2, EventOK
    <3>2. /\ e.n = posted + 1 /\ e.kind = "upsert" /\ e.sub = s /\ e.status = "active"
          /\ e.plan = "ENTERPRISE"
      BY <3>1, EventIs
    <3>3. /\ stripe'[s].status = "active" /\ stripe'[s].plan = "ENTERPRISE"
          /\ \A t \in Subs : t # s => stripe'[t] = stripe[t]
      BY <2>2 DEF StripeMoves, StandingInv, StripeRows
    <3>4. SaysNow(e, s, stripe'[s], stripe[s])
      BY <3>2, <3>3 DEF SaysNow
    <3> QED BY <1>3, <2>2, <3>1, <3>2, <3>3, <3>4, SingleInTurn
  <2>3. CASE /\ stripe[s].status \in {"incomplete", "active", "past_due", "unpaid"}
             /\ StripeMoves(s, "canceled", stripe[s].plan, stripeInvoice[s])
             /\ Post({Event("deleted", s, "canceled", stripe[s].plan)})
    <3>1. PICK e \in Events : e = Event("deleted", s, "canceled", stripe[s].plan)
      BY <1>1, <1>2, EventOK
    <3>2. e.n = posted + 1 /\ e.kind = "deleted" /\ e.sub = s
      BY <3>1, EventIs
    <3>3. /\ stripe'[s].status = "canceled" /\ stripe'[s].plan = stripe[s].plan
          /\ \A t \in Subs : t # s => stripe'[t] = stripe[t]
      BY <2>3, StripeTo
    <3>4. SaysNow(e, s, stripe'[s], stripe[s])
      BY <3>2, <3>3 DEF SaysNow
    <3> QED BY <1>3, <2>3, <3>1, <3>2, <3>3, <3>4, SingleInTurn
  <2>4. CASE /\ stripe[s].status \notin {"none", "canceled"}
             /\ UNCHANGED <<stripe, stripeInvoice>>
             /\ Post({Event("invoice", s, stripeInvoice[s], stripe[s].plan)})
    <3>1. PICK e \in Events : e = Event("invoice", s, stripeInvoice[s], stripe[s].plan)
      BY <1>1, <1>2, EventOK
    <3>2. e.n = posted + 1 /\ e.kind = "invoice" /\ e.sub = s
      BY <3>1, EventIs
    <3>3. SaysNow(e, s, stripe'[s], stripe[s])
      BY <3>2 DEF SaysNow
    <3> QED BY <1>3, <2>4, <3>1, <3>2, <3>3, SingleInTurn
  <2> QED BY <1>7, <2>1, <2>2, <2>3, <2>4 DEF StripeTouches
<1> QED BY <1>4, <1>5, <1>6, <1>7

\* The worker, the checkouts, a restart, the clock and a handler that throws.
LEMMA OthersInTurn ==
  ASSUME StandingInv, InTurn,
         WorkerNext \/ CheckoutNext \/ ApiRestarts \/ ClockTicks \/ UNCHANGED billingVars
         \/ \E d \in Deliveries : HandlerThrows(d)
  PROVE  InTurn'
<1>1. UNCHANGED <<stripe, inflight, posted, subRow>>
  BY DEF WorkerNext, WorkerTick, WorkerSuspends, WorkerFails, CheckoutNext, CreateCheckoutSession,
     GetStripeCustomerId, setStripeCustomerId, CreateSession, ApiRestarts, ClockTicks, HandlerThrows,
     UNCHANGED_STRIPE, UNCHANGED_WEBHOOKS, UNCHANGED_OTHERS, billingVars
<1>2. ASSUME NEW d \in Deliveries PROVE delivery'[d] \in {delivery[d], IdleDelivery}
  <2>1. delivery = [k \in Deliveries |-> delivery[k]]
    BY DEF StandingInv, HandlersShape
  <2>2. CASE UNCHANGED delivery
    BY <2>2
  <2>3. CASE ApiRestarts
    BY <2>3 DEF ApiRestarts
  <2>4. CASE \E k \in Deliveries : HandlerThrows(k)
    BY <2>1, <2>4 DEF HandlerThrows
  <2> QED BY <2>2, <2>3, <2>4 DEF WorkerNext, WorkerTick, WorkerSuspends, WorkerFails,
     CheckoutNext, CreateCheckoutSession, GetStripeCustomerId, setStripeCustomerId, CreateSession,
     ClockTicks, UNCHANGED_WEBHOOKS, billingVars
<1>3. ASSUME NEW a \in Accounts PROVE billing'[a].status \in {billing[a].status, "SUSPENDED"}
  <2>1. billing \in [Accounts -> [status : BillingStatus, graceEndsAt : {NoDeadline} \cup Nat,
                                  customer : Nat]]
    BY DEF StandingInv, StandingRows
  <2>2. CASE UNCHANGED billing
    BY <2>2
  <2>3. CASE \E b \in Accounts : WorkerSuspends(b)
    <3>1. PICK b \in Accounts : SetStatus(b, "SUSPENDED", NoDeadline)
      BY <2>3 DEF WorkerSuspends
    <3> QED BY <2>1, <3>1 DEF SetStatus
  <2>4. CASE \E c \in Checkouts : setStripeCustomerId(c)
    <3>1. PICK c \in Checkouts :
            billing' = [billing EXCEPT ![checkout[c].account].customer = checkout[c].id]
      BY <2>4 DEF setStripeCustomerId
    <3> QED BY <2>1, <3>1
  <2> QED BY <2>2, <2>3, <2>4 DEF WorkerNext, WorkerTick, WorkerFails,
     CheckoutNext, CreateCheckoutSession, GetStripeCustomerId, CreateSession,
     ApiRestarts, ClockTicks, HandlerThrows, billingVars
<1> QED BY <1>1, <1>2, <1>3, InTurnStays

LEMMA OrderStarts ==
  ASSUME BillingInit
  PROVE  OrderInv
<1>1. inflight = {} /\ \A d \in Deliveries : delivery[d] = IdleDelivery
  BY DEF BillingInit
<1>2. Numbered /\ HandlerInTurn /\ \A e \in inflight : WordOf(e)
  BY <1>1 DEF Numbered, HandlerInTurn
<1>3. ASSUME NEW s \in Subs PROVE RowFollows(s) /\ AccountFollows(s)
  <2>1. AccountOf[s] \in Accounts
    BY BillingAssumption
  <2>2. billing[AccountOf[s]].status = "ACTIVE"
    BY <2>1 DEF BillingInit
  <2>3. /\ stripe[s].status \in {"none", "active"}
        /\ stripe[s].status = "active" => /\ subRow[s].status = "ACTIVE" /\ subRow[s].plan = "PRO"
                                          /\ stripe[s].plan = "PRO"
    BY DEF BillingInit
  <2>4. RowFollows(s)
    BY <2>3 DEF RowFollows, mapStripeStatus, NoRow
  <2>5. AccountFollows(s)
    BY <2>2, <2>3 DEF AccountFollows
  <2> QED BY <2>4, <2>5
<1> QED BY <1>2, <1>3 DEF OrderInv, InTurn

LEMMA OrderSteps ==
  ASSUME StandingInv, OrderInv, [BillingNext]_billingVars
  PROVE  OrderInv'
<1> SUFFICES ASSUME ~disorder' PROVE InTurn'
  BY DEF OrderInv
<1>1. CASE StripeNext
  <2>1. PICK s \in Subs : StripeSubscribes(s) \/ StripePays(s) \/ StripeDeclines(s) \/ StripeTouches(s)
    BY <1>1 DEF StripeNext
  <2>2. ~disorder
    BY <2>1 DEF StripeSubscribes, StripePays, StripeDeclines, StripeTouches, UNCHANGED_API
  <2> QED BY <2>1, <2>2, StripeInTurn DEF OrderInv
<1>2. CASE \E d \in Deliveries : \E e \in inflight : DeliverEvent(d, e)
  <2>1. PICK d \in Deliveries, e \in inflight : DeliverEvent(d, e)
    BY <1>2
  <2>2. ~disorder /\ InOrder(e)
    BY <2>1 DEF DeliverEvent
  <2> QED BY <2>1, <2>2, DeliverInTurn DEF OrderInv
<1>3. CASE \E d \in Deliveries : HandlerStep(d)
  <2>1. PICK d \in Deliveries : HandlerStep(d)
    BY <1>3
  <2>2. ~disorder
    BY <2>1 DEF HandlerStep, HandleInvoice, ReadSubscription, SaveSubscription, AccountStep,
       MissingDeadlineStep, NotifyStep
  <2>3. InTurn
    BY <2>2 DEF OrderInv
  <2> QED BY <2>1, <2>3, InvoiceInTurn, ReadInTurn, SaveInTurn, AccountInTurn, DeadlineInTurn,
             NotifyInTurn DEF HandlerStep
<1>4. CASE WorkerNext \/ CheckoutNext \/ ApiRestarts \/ ClockTicks \/ UNCHANGED billingVars
           \/ \E d \in Deliveries : HandlerThrows(d)
  <2>1. ~disorder
    BY <1>4 DEF WorkerNext, WorkerTick, WorkerSuspends, WorkerFails, CheckoutNext,
       CreateCheckoutSession, GetStripeCustomerId, setStripeCustomerId, CreateSession, ApiRestarts,
       ClockTicks, HandlerThrows, UNCHANGED_WEBHOOKS, billingVars
  <2> QED BY <1>4, <2>1, OthersInTurn DEF OrderInv
<1> QED BY <1>1, <1>2, <1>3, <1>4 DEF BillingNext, WebhookNext

LEMMA OrderMeans ==
  ASSUME StandingInv, OrderInv
  PROVE  InOrderMirrorsStripe
<1> SUFFICES ASSUME NothingInFlight, NEW s \in Subs, stripe[s].status # "none"
             PROVE  /\ subRow[s].status = mapStripeStatus(stripe[s].status)
                    /\ subRow[s].plan = stripe[s].plan
                    /\ (Subs = {s} /\ billing[AccountOf[s]].status = "PAST_DUE")
                         => stripe[s].status \in {"past_due", "unpaid"}
                    /\ stripe[s].status = "canceled"
                         => /\ billing[AccountOf[s]].status \in {"CANCELED", "SUSPENDED"}
                            /\ resolvePlanForAccount(AccountOf[s]) = {"FREE"}
  BY DEF InOrderMirrorsStripe
<1>1. RowFollows(s) /\ AccountFollows(s) /\ StatusEvents(s) = {} /\ Upserts(s) = {}
  BY DEF NothingInFlight, OrderInv, InTurn, StatusEvents, Upserts
<1>2. /\ subRow[s].status = mapStripeStatus(stripe[s].status)
      /\ subRow[s].plan = stripe[s].plan
  BY <1>1 DEF RowFollows
<1>3. /\ (Subs = {s} /\ billing[AccountOf[s]].status = "PAST_DUE")
           => stripe[s].status \in {"past_due", "unpaid"}
      /\ stripe[s].status = "canceled" => billing[AccountOf[s]].status \in {"CANCELED", "SUSPENDED"}
  BY <1>1 DEF AccountFollows
<1>4. billing[AccountOf[s]].status \in {"CANCELED", "SUSPENDED"} =>
        resolvePlanForAccount(AccountOf[s]) = {"FREE"}
  BY DEF resolvePlanForAccount, NOT_ENTITLED_ACCOUNT_STATUSES
<1> QED BY <1>2, <1>3, <1>4

(* Whatever order, repetition and overlap the webhooks, the checkouts, the   *)
(* worker and restarts come in (HandleStripeWebhook, GracePeriod.worker, the *)
(* account repository's guarded updates), an account has a grace deadline    *)
(* exactly while it is PAST_DUE, no running deadline moves, no suspended or  *)
(* canceled account comes back and a grace period sends at most one mail;    *)
(* and when the events were handled one at a time in the order they were     *)
(* posted, with failures, lost answers and restarts in between, the rows end *)
(* as Stripe has them.                                                       *)
THEOREM BillingCorrect == BillingSpec => BillingConsistent
<1>1. BillingInit => StandingInv /\ OrderInv
  BY StandingStarts, OrderStarts
<1>2. StandingInv /\ [BillingNext]_billingVars => StandingInv'
  BY StandingSteps, StandingStutters DEF StandingStep
<1>3. StandingInv /\ OrderInv /\ [BillingNext]_billingVars => OrderInv'
  BY OrderSteps
<1>4. /\ StandingInv /\ StandingInv' /\ OrderInv' /\ [BillingNext]_billingVars
      => [/\ (BillingTypeOK /\ DeadlineIffPastDue /\ OneMailPerGrace /\ InOrderMirrorsStripe)'
          /\ GraceNotExtended /\ NotRevived]_billingVars
  <2> SUFFICES ASSUME StandingInv, StandingInv', OrderInv', BillingNext
               PROVE  /\ (BillingTypeOK /\ DeadlineIffPastDue /\ OneMailPerGrace
                            /\ InOrderMirrorsStripe)'
                      /\ GraceNotExtended /\ NotRevived
    OBVIOUS
  <2>1. GraceNotExtended /\ NotRevived
    BY StandingSteps DEF StandingStep
  <2>2. (BillingTypeOK /\ DeadlineIffPastDue /\ OneMailPerGrace)'
    BY StandingMeans, PTL
  <2>3. InOrderMirrorsStripe'
    BY OrderMeans, PTL
  <2> QED BY <2>1, <2>2, <2>3
<1> QED BY <1>1, <1>2, <1>3, <1>4, PTL DEF BillingSpec, BillingConsistent
=============================================================================

------------------------ MODULE SessionManagerProofs ------------------------
(***************************************************************************)
(* RBAC sessions keep duties apart, what was ended stays ended, and a      *)
(* revoked role goes stale with the next version: proofs for every number  *)
(* of subjects, roles, sessions and calls and every set of DSD policies.   *)
(***************************************************************************)
EXTENDS SessionManager, FiniteSetTheorems, TLAPS

(* An idle call is a call. *)
LEMMA NoCallTyped == NoCall \in Call /\ NoCall.at = "idle"
<1>1. (CHOOSE s \in Subjects : TRUE) \in Subjects
  <2>1. PICK s \in Subjects : TRUE
    BY SessionAssumption
  <2> QED
    BY <2>1
<1>2. (CHOOSE i \in Ids : TRUE) \in Ids
  <2>1. PICK i \in Ids : TRUE
    BY SessionAssumption
  <2> QED
    BY <2>1
<1>3. (CHOOSE r \in RoleNames : TRUE) \in RoleNames
  <2>1. PICK r \in RoleNames : TRUE
    BY SessionAssumption
  <2> QED
    BY <2>1
<1>4. 0 \in Versions /\ 0 \in Times /\ 0 \in 0 .. (MaxTime + Ttl)
  BY SessionAssumption DEF Versions, Times
<1> QED
  BY <1>1, <1>2, <1>3, <1>4 DEF NoCall, Call

(* A stamp taken now. *)
LEMMA StampTyped == ASSUME TypeOK PROVE now + Ttl \in 0 .. (MaxTime + Ttl)
  BY SessionAssumption DEF TypeOK, Times

(* DsdPolicy::validate: fewer roles violate no more policies. *)
LEMMA FewerRoles ==
  ASSUME NEW S, NEW T, S \subseteq T, DsdOk(T)
  PROVE  DsdOk(S)
<1> SUFFICES ASSUME NEW p \in Policies PROVE Cardinality(S \cap p.roles) < p.cardinality
  BY DEF DsdOk
<1>1. Cardinality(T \cap p.roles) < p.cardinality /\ p.cardinality \in Nat
  BY SessionAssumption DEF DsdOk
<1>2. IsFiniteSet(T \cap p.roles)
  BY SessionAssumption, FS_Intersection
<1>3. S \cap p.roles \in SUBSET (T \cap p.roles)
  OBVIOUS
<1>4. /\ IsFiniteSet(S \cap p.roles)
      /\ Cardinality(S \cap p.roles) <= Cardinality(T \cap p.roles)
  BY <1>2, <1>3, FS_Subset
<1>5. Cardinality(S \cap p.roles) \in Nat /\ Cardinality(T \cap p.roles) \in Nat
  BY <1>2, <1>4, FS_CardinalityType
<1> QED
  BY <1>1, <1>4, <1>5

-----------------------------------------------------------------------------
(* What the invariant asks of the record a call moves on to, when nothing  *)
(* but the call (and off, which may shrink) changes.                       *)
Fits(c, rec) ==
  /\ rec.at \in {"deactivate", "strip", "bump"} => ~Memory
  /\ (Memory /\ rec.at \in {"assigned", "activate"}) =>
       /\ \A d \in Calls \ {c} : ~Locked(d)
       /\ rec.id \in DOMAIN sessions
       /\ rec.subject = sessions[rec.id].subject /\ rec.roles = sessions[rec.id].roles
       /\ <<rec.id, rec.role>> \notin off'
  /\ (manager.constrained /\ rec.at \in {"version", "insert", "deactivate"}) => DsdOk(rec.roles)
  /\ (rec.at \in {"version", "insert"} /\ ~rec.torn) => rec.roles \subseteq assigned[rec.subject]
  /\ (Memory /\ rec.at = "insert") => rec.version <= versions[rec.subject]
  /\ (Memory /\ rec.at = "activate" /\ Current(rec.id)) => <<rec.subject, rec.role>> \notin settled

(* A call that fits keeps the invariant. *)
LEMMA CallMoves ==
  ASSUME IndInv, NEW c \in Calls, NEW rec \in Call, Become(c, rec), Fits(c, rec),
         UNCHANGED <<manager, assigned, sessions, versions, destroyed, settled, now>>,
         off' \subseteq off
  PROVE  IndInv'
<1>1. /\ call'[c] = rec /\ \A d \in Calls \ {c} : call'[d] = call[d]
      /\ call' \in [Calls -> Call]
  BY DEF IndInv, TypeOK, Become
<1>2. TypeOK'
  BY <1>1 DEF IndInv, TypeOK
<1>3. DestroyedStaysGone' /\ DeactivationLasts' /\ DutiesSeparated' /\ OffKnown' /\ SettledIsUnassigned'
  BY DEF IndInv, DestroyedStaysGone, DeactivationLasts, DutiesSeparated, OffKnown,
         SettledIsUnassigned, Memory, DsdOk
<1>4. DbStepsOnly' /\ ListsChecked' /\ CreationsHold'
  BY <1>1 DEF Fits, IndInv, DbStepsOnly, ListsChecked, CreationsHold, Memory, Creating, DsdOk
<1>5. LockExclusive'
  BY <1>1 DEF Fits, IndInv, LockExclusive, Locked, Memory
<1>6. LockedView'
  BY <1>1 DEF Fits, IndInv, LockedView, Locked, Memory
<1>7. VersionsBehind'
  BY <1>1 DEF Fits, IndInv, VersionsBehind, Memory
<1>8. CurrentIsClean'
  BY <1>1 DEF Fits, IndInv, CurrentIsClean, Current, Memory
<1> QED
  BY <1>2, <1>3, <1>4, <1>5, <1>6, <1>7, <1>8 DEF IndInv

(* The invariant holds of the initial states. *)
LEMMA IndInit == Init => IndInv
<1> SUFFICES ASSUME Init PROVE IndInv
  OBVIOUS
<1>1. \A c \in Calls : call[c] = NoCall
  BY DEF Init
<1>2. \A c \in Calls : call[c].at = "idle"
  BY <1>1, NoCallTyped
<1>3. DOMAIN sessions = {} /\ destroyed = {} /\ off = {} /\ settled = {}
  BY DEF Init
<1>4. TypeOK
  BY <1>1, <1>2, <1>3, NoCallTyped, SessionAssumption DEF Init, TypeOK, Times, Versions
<1> QED
  BY <1>2, <1>3, <1>4
     DEF IndInv, DestroyedStaysGone, DeactivationLasts, DutiesSeparated, OffKnown,
         SettledIsUnassigned, DbStepsOnly, LockExclusive, LockedView, ListsChecked,
         CreationsHold, VersionsBehind, CurrentIsClean, Locked, Creating

-----------------------------------------------------------------------------
(* create_session: the roles kept are assigned and passed the DSD gate.    *)
LEMMA FilterStep ==
  ASSUME IndInv, NEW c \in Calls, NEW s \in Subjects, NEW requested \in SUBSET RoleNames,
         FilterRoles(c, s, requested)
  PROVE  IndInv'
<1> DEFINE roles == requested \cap assigned[s]
           next == IF Memory THEN "version" ELSE "insert"
           rec == [NoCall EXCEPT !.at = next, !.subject = s, !.roles = roles,
                                 !.expires = now + Ttl, !.created = now]
<1>1. /\ Become(c, rec) /\ (manager.constrained => DsdOk(roles))
      /\ UNCHANGED <<manager, assigned, sessions, versions, destroyed, off, settled, now>>
  BY DEF FilterRoles, Gate, Memory, ghosts
<1>2. roles \subseteq RoleNames /\ roles \subseteq assigned[s] /\ now \in Times
  BY DEF IndInv, TypeOK
<1>3. next \in {"version", "insert"} /\ (Memory => next = "version")
  OBVIOUS
<1> HIDE DEF roles, next
<1>4. rec \in Call /\ rec.at = next /\ rec.subject = s /\ rec.roles = roles
  BY <1>2, <1>3, NoCallTyped, StampTyped DEF Call, IndInv
<1> HIDE DEF rec
<1>5. Fits(c, rec)
  BY <1>1, <1>2, <1>3, <1>4 DEF Fits
<1> QED
  BY <1>1, <1>4, <1>5, CallMoves

(* The memory manager stamps the session with the subject's version. *)
LEMMA ReadVersionStep ==
  ASSUME IndInv, NEW c \in Calls, ReadVersion(c)
  PROVE  IndInv'
<1> DEFINE v == versions[call[c].subject]
           rec == [call[c] EXCEPT !.at = "insert", !.created = now, !.version = v,
                                  !.expires = now + Ttl]
<1>1. /\ call[c].at = "version" /\ Become(c, rec)
      /\ UNCHANGED <<manager, assigned, sessions, versions, destroyed, off, settled, now>>
  BY DEF ReadVersion, ghosts
<1>2. call[c] \in Call /\ v \in Versions /\ now \in Times
  BY DEF IndInv, TypeOK, Call
<1>3. v <= v
  BY <1>2 DEF Versions
<1> HIDE DEF v
<1>4. /\ rec \in Call /\ rec.at = "insert" /\ rec.version = v
      /\ rec.subject = call[c].subject /\ rec.roles = call[c].roles /\ rec.torn = call[c].torn
  BY <1>2, StampTyped DEF Call, IndInv
<1> HIDE DEF rec
<1>5. Fits(c, rec)
  BY <1>1, <1>3, <1>4 DEF Fits, v, IndInv, ListsChecked, CreationsHold, Creating
<1> QED
  BY <1>1, <1>4, <1>5, CallMoves

(* activate_role takes the lock, and its view is the session's. *)
LEMMA ActivateStep ==
  ASSUME IndInv, NEW c \in Calls, NEW i \in Ids, NEW r \in RoleNames, ActivateRole(c, i, r)
  PROVE  IndInv'
<1> DEFINE rec == [NoCall EXCEPT !.at = "assigned", !.id = i, !.role = r,
                     !.subject = sessions[i].subject, !.roles = sessions[i].roles]
<1>1. /\ Become(c, rec) /\ off' = off \ {<<i, r>>} /\ LockFree /\ i \in DOMAIN sessions
      /\ UNCHANGED <<manager, assigned, sessions, versions, destroyed, settled, now>>
  BY DEF ActivateRole
<1>2. sessions[i].subject \in Subjects /\ sessions[i].roles \in SUBSET RoleNames
  BY <1>1 DEF IndInv, TypeOK, Session
<1>3. /\ rec \in Call /\ rec.at = "assigned" /\ rec.id = i /\ rec.role = r
      /\ rec.subject = sessions[i].subject /\ rec.roles = sessions[i].roles
  BY <1>2, NoCallTyped DEF Call
<1> HIDE DEF rec
<1>4. Fits(c, rec)
  BY <1>1, <1>3 DEF Fits, LockFree, Locked, Memory
<1> QED
  BY <1>1, <1>3, <1>4, CallMoves

(* roles_of names the role, so no revocation of it is settled. *)
LEMMA CheckAssignedStep ==
  ASSUME IndInv, NEW c \in Calls, CheckAssigned(c)
  PROVE  IndInv'
<1> DEFINE rec == [call[c] EXCEPT !.at = "activate"]
<1>1. /\ call[c].at = "assigned" /\ call[c].role \in assigned[call[c].subject] /\ Become(c, rec)
      /\ UNCHANGED <<manager, assigned, sessions, versions, destroyed, off, settled, now>>
  BY DEF CheckAssigned, ghosts
<1>2. call[c] \in Call
  BY DEF IndInv, TypeOK
<1>3. /\ rec \in Call /\ rec.at = "activate" /\ rec.id = call[c].id /\ rec.role = call[c].role
      /\ rec.subject = call[c].subject /\ rec.roles = call[c].roles
  BY <1>2 DEF Call
<1> HIDE DEF rec
<1>4. <<rec.subject, rec.role>> \notin settled
  BY <1>1, <1>3 DEF IndInv, SettledIsUnassigned
<1>5. Fits(c, rec)
  BY <1>1, <1>3, <1>4 DEF Fits, IndInv, LockedView, LockExclusive, Locked
<1> QED
  BY <1>1, <1>3, <1>5, CallMoves

(* A call returns, with or without success, and leaves the rest alone. *)
LEMMA FailStep ==
  ASSUME IndInv, NEW c \in Calls, CallFails(c)
  PROVE  IndInv'
<1>1. Fits(c, NoCall)
  BY NoCallTyped DEF Fits
<1> QED
  BY <1>1, NoCallTyped, CallMoves DEF CallFails, Return, ghosts

(* deactivate_role of the database manager loads a checked list. *)
LEMMA LoadStep ==
  ASSUME IndInv, NEW c \in Calls, NEW i \in Ids, NEW r \in RoleNames, LoadForDeactivation(c, i, r)
  PROVE  IndInv'
<1> DEFINE rec == [NoCall EXCEPT !.at = "deactivate", !.id = i, !.role = r,
                     !.subject = sessions[i].subject, !.roles = sessions[i].roles]
<1>1. /\ Become(c, rec) /\ i \in DOMAIN sessions /\ ~Memory
      /\ UNCHANGED <<manager, assigned, sessions, versions, destroyed, off, settled, now>>
  BY DEF LoadForDeactivation, ghosts, Memory
<1>2. sessions[i].subject \in Subjects /\ sessions[i].roles \in SUBSET RoleNames
  BY <1>1 DEF IndInv, TypeOK, Session
<1>3. rec \in Call /\ rec.at = "deactivate" /\ rec.roles = sessions[i].roles
  BY <1>2, NoCallTyped DEF Call
<1> HIDE DEF rec
<1>4. Fits(c, rec)
  BY <1>1, <1>3 DEF Fits, IndInv, DutiesSeparated
<1> QED
  BY <1>1, <1>3, <1>4, CallMoves

(* The first halves of the database manager's revoke_all_for_subject and   *)
(* bump_version_for_subject.                                               *)
LEMMA ReadSteps ==
  ASSUME IndInv, NEW c \in Calls, NEW s \in Subjects,
         ListAssignments(c, s) \/ ReadCurrentVersion(c, s)
  PROVE  IndInv'
<1>1. /\ ~Memory
      /\ UNCHANGED <<manager, assigned, sessions, versions, destroyed, off, settled, now>>
  BY DEF ListAssignments, ReadCurrentVersion, ghosts, Memory
<1>2. CASE ListAssignments(c, s)
  <2> DEFINE rec == [NoCall EXCEPT !.at = "strip", !.subject = s, !.roles = assigned[s]]
  <2>1. assigned[s] \in SUBSET RoleNames
    BY DEF IndInv, TypeOK
  <2>2. rec \in Call /\ rec.at = "strip" /\ Become(c, rec)
    BY <1>2, <2>1, NoCallTyped DEF Call, ListAssignments
  <2> HIDE DEF rec
  <2>3. Fits(c, rec)
    BY <1>1, <2>2 DEF Fits
  <2> QED
    BY <1>1, <2>2, <2>3, CallMoves
<1>3. CASE ReadCurrentVersion(c, s)
  <2>1. PICK v \in CurrentVersion(s) :
          v < MaxVersion /\ Become(c, [NoCall EXCEPT !.at = "bump", !.subject = s, !.version = v + 1])
    BY <1>3 DEF ReadCurrentVersion
  <2> DEFINE rec == [NoCall EXCEPT !.at = "bump", !.subject = s, !.version = v + 1]
  <2>2. CurrentVersion(s) \subseteq Versions
    BY SessionAssumption DEF CurrentVersion, Newest, IndInv, TypeOK, Session, Versions
  <2>3. v + 1 \in Versions
    BY <2>1, <2>2, SessionAssumption DEF Versions
  <2>4. rec \in Call /\ rec.at = "bump"
    BY <2>3, NoCallTyped DEF Call
  <2>5. Become(c, rec)
    BY <2>1
  <2> HIDE DEF rec
  <2>6. Fits(c, rec)
    BY <1>1, <2>4 DEF Fits
  <2> QED
    BY <1>1, <2>4, <2>5, <2>6, CallMoves
<1> QED
  BY <1>2, <1>3

-----------------------------------------------------------------------------
(* destroy_session, cleanup_expired and the memory manager's               *)
(* revoke_all_for_subject take sessions out while no activation runs.      *)
LEMMA RemovalStep ==
  ASSUME IndInv, LockFree, NEW gone \in SUBSET DOMAIN sessions,
         sessions' = Without(sessions, gone), destroyed' = destroyed \cup gone,
         UNCHANGED <<manager, assigned, versions, call, off, settled, now>>
  PROVE  IndInv'
<1>1. DOMAIN sessions' = DOMAIN sessions \ gone /\ \A i \in DOMAIN sessions' : sessions'[i] = sessions[i]
  BY DEF Without
<1>2. TypeOK'
  BY <1>1 DEF IndInv, TypeOK
<1>3. DestroyedStaysGone' /\ DeactivationLasts' /\ DutiesSeparated' /\ OffKnown' /\ SettledIsUnassigned'
  BY <1>1 DEF IndInv, DestroyedStaysGone, DeactivationLasts, DutiesSeparated, OffKnown,
              SettledIsUnassigned, Memory, DsdOk
<1>4. DbStepsOnly' /\ ListsChecked' /\ CreationsHold'
  BY DEF IndInv, DbStepsOnly, ListsChecked, CreationsHold, Memory, Creating, DsdOk
<1>5. LockExclusive' /\ LockedView'
  BY DEF LockExclusive, LockedView, LockFree, Locked, Memory
<1>6. VersionsBehind'
  BY <1>1 DEF IndInv, VersionsBehind, Memory
<1>7. CurrentIsClean'
  BY <1>1 DEF IndInv, CurrentIsClean, Current, Memory, LockFree
<1> QED
  BY <1>2, <1>3, <1>4, <1>5, <1>6, <1>7 DEF IndInv

(* Replacing a session's role list touches nothing else of it. *)
LEMMA RolesReplaced ==
  ASSUME TypeOK, NEW i \in DOMAIN sessions, NEW roles \in SUBSET RoleNames,
         sessions' = WithRoles(i, roles)
  PROVE  /\ DOMAIN sessions' = DOMAIN sessions
         /\ sessions'[i].roles = roles
         /\ \A j \in DOMAIN sessions : j # i => sessions'[j] = sessions[j]
         /\ \A j \in DOMAIN sessions :
              /\ sessions'[j] \in Session
              /\ sessions'[j].subject = sessions[j].subject
              /\ sessions'[j].version = sessions[j].version
              /\ sessions'[j].torn = sessions[j].torn
<1> DEFINE rec == [sessions[i] EXCEPT !.roles = roles]
<1>1. sessions[i] \in Session
  BY DEF TypeOK
<1>2. /\ rec \in Session /\ rec.roles = roles /\ rec.subject = sessions[i].subject
      /\ rec.version = sessions[i].version /\ rec.torn = sessions[i].torn
  BY <1>1 DEF Session
<1>3. sessions' = [sessions EXCEPT ![i] = rec]
  BY DEF WithRoles
<1> HIDE DEF rec
<1> QED
  BY <1>2, <1>3 DEF TypeOK

(* A write of a checked role list, with no activation left under the lock, *)
(* keeps the invariant.                                                    *)
LEMMA RolesStep ==
  ASSUME IndInv, NEW i \in DOMAIN sessions, NEW roles \in SUBSET RoleNames,
         sessions' = WithRoles(i, roles), Gate(roles),
         call' \in [Calls -> Call],
         \A d \in Calls : call'[d] = call[d] \/ call'[d].at = "idle",
         Memory => \A d \in Calls : call'[d].at \notin {"assigned", "activate"},
         off' \subseteq Ids \X RoleNames,
         Memory => \A x \in off' : IF x[1] = i THEN x[2] \notin roles ELSE x \in off,
         (Memory /\ Current(i) /\ ~sessions[i].torn) =>
           \A r \in roles : <<sessions[i].subject, r>> \notin settled,
         UNCHANGED <<manager, assigned, versions, destroyed, settled, now>>
  PROVE  IndInv'
<1>1. /\ DOMAIN sessions' = DOMAIN sessions
      /\ sessions'[i].roles = roles
      /\ \A j \in DOMAIN sessions : j # i => sessions'[j] = sessions[j]
      /\ \A j \in DOMAIN sessions :
           /\ sessions'[j] \in Session
           /\ sessions'[j].subject = sessions[j].subject
           /\ sessions'[j].version = sessions[j].version
           /\ sessions'[j].torn = sessions[j].torn
  BY RolesReplaced DEF IndInv
<1>2. TypeOK'
  BY <1>1 DEF IndInv, TypeOK
<1>3. DestroyedStaysGone' /\ SettledIsUnassigned' /\ OffKnown'
  BY <1>1 DEF IndInv, DestroyedStaysGone, SettledIsUnassigned, OffKnown, Memory
<1>4. DeactivationLasts'
  BY <1>1 DEF IndInv, DeactivationLasts, Memory
<1>5. DutiesSeparated'
  BY <1>1 DEF IndInv, DutiesSeparated, Gate, DsdOk
<1>6. DbStepsOnly' /\ ListsChecked' /\ CreationsHold'
  BY DEF IndInv, DbStepsOnly, ListsChecked, CreationsHold, Memory, Creating, DsdOk
<1>7. LockExclusive' /\ LockedView'
  BY DEF LockExclusive, LockedView, Locked, Memory
<1>8. VersionsBehind'
  BY <1>1 DEF IndInv, VersionsBehind, Memory
<1>9. CurrentIsClean'
  <2> SUFFICES ASSUME Memory, NEW j \in DOMAIN sessions, Current(j), ~sessions[j].torn,
                      NEW r \in sessions'[j].roles
               PROVE  <<sessions[j].subject, r>> \notin settled
    BY <1>1 DEF CurrentIsClean, Current, Memory
  <2>1. CASE j = i
    BY <1>1, <2>1
  <2>2. CASE j # i
    BY <1>1, <2>2 DEF IndInv, CurrentIsClean
  <2> QED
    BY <2>1, <2>2
<1> QED
  BY <1>2, <1>3, <1>4, <1>5, <1>6, <1>7, <1>8, <1>9 DEF IndInv

(* The write that ends activate_role. *)
LEMMA ApplyActivationStep ==
  ASSUME IndInv, NEW c \in Calls, ApplyActivation(c)
  PROVE  IndInv'
<1> DEFINE i == call[c].id
           roles == call[c].roles \cup {call[c].role}
<1>1. /\ call[c].at = "activate" /\ Gate(roles) /\ UpdateRoles(i, roles) /\ Become(c, NoCall)
      /\ UNCHANGED <<manager, assigned, versions, destroyed, off, settled, now>>
  BY DEF ApplyActivation, ghosts, Return
<1>2. CASE i \notin DOMAIN sessions
  <2>1. Fits(c, NoCall) /\ UNCHANGED sessions
    BY <1>1, <1>2, NoCallTyped DEF Fits, UpdateRoles
  <2> QED
    BY <1>1, <2>1, NoCallTyped, CallMoves
<1>3. CASE i \in DOMAIN sessions
  <2>1. roles \in SUBSET RoleNames /\ sessions' = WithRoles(i, roles)
    BY <1>1, <1>3 DEF UpdateRoles, IndInv, TypeOK, Call
  <2>2. /\ call' \in [Calls -> Call] /\ call'[c].at = "idle"
        /\ \A d \in Calls \ {c} : call'[d] = call[d]
    BY <1>1, NoCallTyped DEF Become, IndInv, TypeOK
  <2>3. Memory => \A d \in Calls : call'[d].at \notin {"assigned", "activate"}
    BY <1>1, <2>2 DEF IndInv, LockExclusive, Locked
  <2>4. Memory => /\ call[c].roles = sessions[i].roles /\ call[c].subject = sessions[i].subject
                  /\ <<i, call[c].role>> \notin off
    BY <1>1 DEF IndInv, LockedView, Locked
  <2>5. ASSUME Memory, NEW x \in off, x[1] = i PROVE x[2] \notin roles
    <3>1. x = <<x[1], x[2]>>
      BY DEF IndInv, TypeOK
    <3>2. x[2] \notin sessions[i].roles
      BY <1>3, <2>5 DEF IndInv, DeactivationLasts, Memory
    <3> QED
      BY <2>4, <2>5, <3>1, <3>2
  <2>6. ASSUME Memory, Current(i), ~sessions[i].torn
        PROVE  \A r \in roles : <<sessions[i].subject, r>> \notin settled
    BY <1>1, <1>3, <2>4, <2>6 DEF IndInv, CurrentIsClean
  <2>7. off' \subseteq Ids \X RoleNames
    BY <1>1 DEF IndInv, TypeOK
  <2> HIDE DEF i, roles
  <2> QED
    BY <1>1, <1>3, <2>1, <2>2, <2>3, <2>5, <2>6, <2>7, RolesStep
<1> QED
  BY <1>2, <1>3

(* deactivate_role of the memory manager. *)
LEMMA DeactivateStep ==
  ASSUME IndInv, NEW i \in Ids, NEW r \in RoleNames, DeactivateRole(i, r)
  PROVE  IndInv'
<1> DEFINE roles == sessions[i].roles \ {r}
<1>1. /\ LockFree /\ Memory /\ i \in DOMAIN sessions /\ sessions' = WithRoles(i, roles)
      /\ off' = off \cup {<<i, r>>}
      /\ UNCHANGED <<manager, assigned, versions, call, destroyed, settled, now>>
  BY DEF DeactivateRole, Memory
<1>2. roles \in SUBSET RoleNames /\ roles \subseteq sessions[i].roles
  BY <1>1 DEF IndInv, TypeOK, Session
<1>3. Gate(roles)
  BY <1>1, <1>2, FewerRoles DEF Gate, IndInv, DutiesSeparated
<1>4. \A x \in off' : IF x[1] = i THEN x[2] \notin roles ELSE x \in off
  BY <1>1 DEF IndInv, DeactivationLasts, Memory
<1>5. (Current(i) /\ ~sessions[i].torn) => \A q \in roles : <<sessions[i].subject, q>> \notin settled
  BY <1>1, <1>2 DEF IndInv, CurrentIsClean
<1>6. off' \subseteq Ids \X RoleNames /\ call' \in [Calls -> Call]
  BY <1>1 DEF IndInv, TypeOK
<1>7. \A d \in Calls : call'[d] = call[d] /\ call'[d].at \notin {"assigned", "activate"}
  BY <1>1 DEF LockFree, Memory
<1> HIDE DEF roles
<1> QED
  BY <1>1, <1>2, <1>3, <1>4, <1>5, <1>6, <1>7, RolesStep

(* The write that ends the database manager's deactivate_role. *)
LEMMA ApplyDeactivationStep ==
  ASSUME IndInv, NEW c \in Calls, ApplyDeactivation(c)
  PROVE  IndInv'
<1> DEFINE i == call[c].id
           roles == call[c].roles \ {call[c].role}
<1>1. /\ call[c].at = "deactivate" /\ UpdateRoles(i, roles) /\ Become(c, NoCall)
      /\ off' = off \cup {<<i, call[c].role>>}
      /\ UNCHANGED <<manager, assigned, versions, destroyed, settled, now>>
  BY DEF ApplyDeactivation, Return
<1>2. ~Memory
  BY <1>1 DEF IndInv, DbStepsOnly
<1>3. Gate(roles) /\ roles \in SUBSET RoleNames
  BY <1>1, FewerRoles DEF Gate, IndInv, ListsChecked, TypeOK, Call
<1>4. /\ call' \in [Calls -> Call] /\ call'[c].at = "idle"
      /\ \A d \in Calls \ {c} : call'[d] = call[d]
  BY <1>1, NoCallTyped DEF Become, IndInv, TypeOK
<1>5. off' \subseteq Ids \X RoleNames
  BY <1>1 DEF IndInv, TypeOK, Call
<1>6. CASE i \in DOMAIN sessions
  <2>1. sessions' = WithRoles(i, roles)
    BY <1>1, <1>6 DEF UpdateRoles
  <2> HIDE DEF i, roles
  <2> QED
    BY <1>1, <1>2, <1>3, <1>4, <1>5, <1>6, <2>1, RolesStep
<1>7. CASE i \notin DOMAIN sessions
  <2>1. UNCHANGED sessions
    BY <1>1, <1>7 DEF UpdateRoles
  <2>2. ~Memory'
    BY <1>1, <1>2 DEF Memory
  <2>3. TypeOK'
    BY <1>1, <1>4, <1>5, <2>1 DEF IndInv, TypeOK
  <2> QED
    BY <1>1, <1>4, <2>1, <2>2, <2>3
       DEF IndInv, DestroyedStaysGone, DeactivationLasts, DutiesSeparated, OffKnown,
           SettledIsUnassigned, DbStepsOnly, LockExclusive, LockedView, ListsChecked,
           CreationsHold, VersionsBehind, CurrentIsClean, Memory, Creating, DsdOk
<1> QED
  BY <1>6, <1>7

(* create_session stores what it checked under a fresh id. *)
LEMMA InsertStep ==
  ASSUME IndInv, NEW c \in Calls, NEW i \in Ids, InsertSession(c, i)
  PROVE  IndInv'
<1> DEFINE rec == [subject |-> call[c].subject, roles |-> call[c].roles,
                   version |-> call[c].version, expires |-> call[c].expires,
                   created |-> call[c].created, torn |-> call[c].torn]
<1>1. /\ call[c].at = "insert" /\ LockFree /\ i \notin DOMAIN sessions \cup destroyed
      /\ sessions' = With(sessions, i, rec) /\ Become(c, NoCall)
      /\ UNCHANGED <<manager, assigned, versions, destroyed, off, settled, now>>
  BY DEF InsertSession, ghosts, Return
<1>2. /\ rec \in Session /\ rec.subject = call[c].subject /\ rec.roles = call[c].roles
      /\ rec.version = call[c].version /\ rec.torn = call[c].torn
  BY DEF IndInv, TypeOK, Call, Session
<1>3. /\ DOMAIN sessions' = DOMAIN sessions \cup {i} /\ sessions'[i] = rec
      /\ \A j \in DOMAIN sessions : j # i /\ sessions'[j] = sessions[j]
  BY <1>1 DEF With
<1>4. /\ call' \in [Calls -> Call] /\ call'[c].at = "idle"
      /\ \A d \in Calls \ {c} : call'[d] = call[d]
  BY <1>1, NoCallTyped DEF Become, IndInv, TypeOK
<1> HIDE DEF rec
<1>5. TypeOK'
  BY <1>1, <1>2, <1>3, <1>4 DEF IndInv, TypeOK
<1>6. DestroyedStaysGone' /\ SettledIsUnassigned' /\ OffKnown'
  BY <1>1, <1>3 DEF IndInv, DestroyedStaysGone, SettledIsUnassigned, OffKnown, Memory
<1>7. DeactivationLasts'
  BY <1>1, <1>3 DEF IndInv, DeactivationLasts, OffKnown, Memory
<1>8. DutiesSeparated'
  BY <1>1, <1>2, <1>3 DEF IndInv, DutiesSeparated, ListsChecked, Creating, DsdOk
<1>9. DbStepsOnly' /\ ListsChecked' /\ CreationsHold'
  BY <1>1, <1>4 DEF IndInv, DbStepsOnly, ListsChecked, CreationsHold, Memory, Creating, DsdOk
<1>10. LockExclusive' /\ LockedView'
  BY <1>1, <1>4 DEF LockFree, LockExclusive, LockedView, Locked, Memory
<1>11. VersionsBehind'
  BY <1>1, <1>2, <1>3, <1>4 DEF IndInv, VersionsBehind, Memory
<1>12. ~call[c].torn => \A r \in call[c].roles : <<call[c].subject, r>> \notin settled
  BY <1>1 DEF IndInv, CreationsHold, SettledIsUnassigned, Creating
<1>13. CurrentIsClean'
  BY <1>1, <1>2, <1>3, <1>4, <1>12 DEF IndInv, CurrentIsClean, Current, Memory, LockFree
<1> QED
  BY <1>5, <1>6, <1>7, <1>8, <1>9, <1>10, <1>11, <1>13 DEF IndInv

-----------------------------------------------------------------------------
(* assign_role by an administrator. *)
LEMMA AssignStep ==
  ASSUME IndInv, NEW s \in Subjects, NEW r \in RoleNames, AssignRole(s, r)
  PROVE  IndInv'
<1>1. /\ assigned' = [assigned EXCEPT ![s] = assigned[s] \cup {r}]
      /\ settled' = settled \ {<<s, r>>}
      /\ UNCHANGED <<manager, sessions, versions, call, destroyed, off, now>>
  BY DEF AssignRole
<1>2. /\ assigned' \in [Subjects -> SUBSET RoleNames]
      /\ \A t \in Subjects : assigned[t] \subseteq assigned'[t]
      /\ \A t \in Subjects, q \in RoleNames :
           (q \in assigned'[t] /\ q \notin assigned[t]) => t = s /\ q = r
  BY <1>1 DEF IndInv, TypeOK
<1>3. TypeOK'
  BY <1>1, <1>2 DEF IndInv, TypeOK
<1>4. SettledIsUnassigned'
  <2>1. \A x \in settled : x[1] \in Subjects /\ x[2] \in RoleNames /\ x = <<x[1], x[2]>>
    BY DEF IndInv, TypeOK
  <2> QED
    BY <1>1, <1>2, <2>1 DEF IndInv, SettledIsUnassigned
<1>5. CreationsHold'
  <2>1. \A c \in Calls : call[c].subject \in Subjects
    BY DEF IndInv, TypeOK, Call
  <2> QED
    BY <1>1, <1>2, <2>1 DEF IndInv, CreationsHold, Creating
<1>6. CurrentIsClean'
  BY <1>1 DEF IndInv, CurrentIsClean, Current, Memory
<1> QED
  BY <1>1, <1>3, <1>4, <1>5, <1>6
     DEF IndInv, DestroyedStaysGone, DeactivationLasts, DutiesSeparated, OffKnown,
         DbStepsOnly, LockExclusive, LockedView, ListsChecked, VersionsBehind,
         Memory, Locked, Creating, DsdOk

(* A revocation marks the creations it overlaps and changes no other call. *)
LEMMA TornCalls ==
  ASSUME TypeOK, NEW s \in Subjects, NEW d \in Calls
  PROVE  /\ MarkTorn(s)[d] \in Call
         /\ (call[d].subject = s /\ Creating(d)) =>
              /\ MarkTorn(s)[d].torn
              /\ MarkTorn(s)[d].at = call[d].at /\ MarkTorn(s)[d].roles = call[d].roles
              /\ MarkTorn(s)[d].version = call[d].version
              /\ MarkTorn(s)[d].subject = call[d].subject
         /\ ~(call[d].subject = s /\ Creating(d)) => MarkTorn(s)[d] = call[d]
<1> DEFINE rec == [call[d] EXCEPT !.torn = TRUE]
<1>1. call[d] \in Call
  BY DEF TypeOK
<1>2. /\ rec \in Call /\ rec.torn /\ rec.at = call[d].at /\ rec.roles = call[d].roles
      /\ rec.version = call[d].version /\ rec.subject = call[d].subject
  BY <1>1 DEF Call
<1>3. MarkTorn(s)[d] = IF call[d].subject = s /\ Creating(d) THEN rec ELSE call[d]
  BY DEF MarkTorn, Creating
<1> HIDE DEF rec
<1> QED
  BY <1>1, <1>2, <1>3

(* revoke_role, by an administrator or in the course of a strip: a call is *)
(* left alone, marked, returns or goes on stripping.                       *)
LEMMA RevokedStep ==
  ASSUME IndInv, NEW s \in Subjects, NEW r \in RoleNames, Revoked(s, r),
         call' \in [Calls -> Call],
         \A d \in Calls :
           \/ call'[d] = MarkTorn(s)[d]
           \/ call'[d].at = "idle"
           \/ call'[d].at = "strip" /\ call[d].at = "strip",
         UNCHANGED <<manager, sessions, versions, destroyed, off, now>>
  PROVE  IndInv'
<1>1. /\ assigned' = [assigned EXCEPT ![s] = assigned[s] \ {r}]
      /\ settled' = settled \ {<<s, r>>}
  BY DEF Revoked
<1>2. /\ assigned' \in [Subjects -> SUBSET RoleNames]
      /\ \A t \in Subjects : assigned'[t] \subseteq assigned[t]
      /\ \A t \in Subjects : t # s => assigned'[t] = assigned[t]
  BY <1>1 DEF IndInv, TypeOK
<1>3. \A d \in Calls :
        \/ call'[d].at \in {"idle", "strip"} /\ (call'[d].at = "strip" => call[d].at = "strip")
        \/ call'[d] = call[d] /\ ~(call[d].subject = s /\ Creating(d))
        \/ /\ Creating(d) /\ call'[d].torn /\ call'[d].at = call[d].at
           /\ call'[d].roles = call[d].roles /\ call'[d].version = call[d].version
           /\ call'[d].subject = call[d].subject
  BY TornCalls DEF IndInv
<1>4. TypeOK'
  BY <1>1, <1>2 DEF IndInv, TypeOK
<1>5. SettledIsUnassigned'
  <2>1. \A x \in settled : x[1] \in Subjects
    BY DEF IndInv, TypeOK
  <2> QED
    BY <1>1, <1>2, <2>1 DEF IndInv, SettledIsUnassigned
<1>6. CreationsHold'
  <2>1. \A c \in Calls : call[c].subject \in Subjects
    BY DEF IndInv, TypeOK, Call
  <2> QED
    BY <1>2, <1>3, <2>1 DEF IndInv, CreationsHold, Creating
<1>7. DbStepsOnly' /\ ListsChecked'
  BY <1>3 DEF IndInv, DbStepsOnly, ListsChecked, Creating, Memory, DsdOk
<1>8. \A d \in Calls : Locked(d)' => call'[d] = call[d]
  BY <1>3 DEF Locked, Creating
<1>9. LockExclusive'
  BY <1>8 DEF IndInv, LockExclusive, Locked, Memory
<1>10. LockedView'
  BY <1>8 DEF IndInv, LockedView, Locked, Memory
<1>11. VersionsBehind'
  BY <1>3 DEF IndInv, VersionsBehind, Creating, Memory
<1>12. CurrentIsClean'
  BY <1>1, <1>8 DEF IndInv, CurrentIsClean, Current, Memory, Locked
<1> QED
  BY <1>4, <1>5, <1>6, <1>7, <1>9, <1>10, <1>11, <1>12
     DEF IndInv, DestroyedStaysGone, DeactivationLasts, DutiesSeparated, OffKnown, Memory, DsdOk

(* revoke_role by an administrator. *)
LEMMA RevokeRoleStep ==
  ASSUME IndInv, NEW s \in Subjects, NEW r \in RoleNames, RevokeRole(s, r)
  PROVE  IndInv'
<1>1. /\ Revoked(s, r) /\ call' = MarkTorn(s)
      /\ UNCHANGED <<manager, sessions, versions, destroyed, off, now>>
  BY DEF RevokeRole
<1>2. call' \in [Calls -> Call]
  <2>1. \A d \in Calls : MarkTorn(s)[d] \in Call
    BY TornCalls DEF IndInv
  <2>2. MarkTorn(s) = [d \in Calls |-> MarkTorn(s)[d]]
    BY DEF MarkTorn
  <2> QED
    BY <1>1, <2>1, <2>2
<1> QED
  BY <1>1, <1>2, RevokedStep

(* One revoke_role of the database manager's revoke_all_for_subject. *)
LEMMA StripStep ==
  ASSUME IndInv, NEW c \in Calls, NEW r \in RoleNames, StripRole(c, r)
  PROVE  IndInv'
<1> DEFINE left == call[c].roles \ {r}
           s == call[c].subject
           strip == [call[c] EXCEPT !.roles = left]
           rec == IF left = {} THEN NoCall ELSE strip
<1>1. /\ call[c].at = "strip" /\ Revoked(s, r) /\ call' = [MarkTorn(s) EXCEPT ![c] = rec]
      /\ UNCHANGED <<manager, sessions, versions, destroyed, off, now>>
  BY DEF StripRole
<1>2. call[c] \in Call /\ s \in Subjects /\ left \subseteq RoleNames
  BY DEF IndInv, TypeOK, Call
<1>3. strip \in Call /\ strip.at = call[c].at
  BY <1>2 DEF Call
<1> HIDE DEF strip
<1>4. rec \in Call /\ rec.at \in {"idle", "strip"}
  BY <1>1, <1>3, NoCallTyped
<1> HIDE DEF rec, s
<1>5. \A d \in Calls : MarkTorn(s)[d] \in Call
  BY <1>2, TornCalls DEF IndInv
<1>6. DOMAIN MarkTorn(s) = Calls
  BY DEF MarkTorn
<1>7. /\ DOMAIN call' = Calls /\ call'[c] = rec
      /\ \A d \in Calls \ {c} : call'[d] = MarkTorn(s)[d]
  BY <1>1, <1>6
<1>8. call' \in [Calls -> Call]
  <2>1. call' = [d \in Calls |-> call'[d]]
    BY <1>1, <1>6
  <2> QED
    BY <1>4, <1>5, <1>7, <2>1
<1> QED
  BY <1>1, <1>2, <1>4, <1>7, <1>8, RevokedStep

-----------------------------------------------------------------------------
(* bump_version_for_subject of the memory manager: every session of the    *)
(* subject falls behind.                                                   *)
LEMMA BumpStep ==
  ASSUME IndInv, NEW s \in Subjects, BumpVersion(s)
  PROVE  IndInv'
<1>1. /\ Memory /\ versions' = [versions EXCEPT ![s] = versions[s] + 1]
      /\ versions[s] < MaxVersion
      /\ settled' = settled \cup {<<s, r>> : r \in RoleNames \ assigned[s]}
      /\ UNCHANGED <<manager, assigned, sessions, call, destroyed, off, now>>
  BY DEF BumpVersion, Settled, Memory
<1>2. /\ versions' \in [Subjects -> Versions] /\ versions'[s] = versions[s] + 1
      /\ \A t \in Subjects : t # s => versions'[t] = versions[t]
      /\ \A t \in Subjects : versions[t] \in Nat
  BY <1>1, SessionAssumption DEF IndInv, TypeOK, Versions
<1>3. settled' \subseteq Subjects \X RoleNames
  BY <1>1 DEF IndInv, TypeOK
<1>4. TypeOK'
  BY <1>1, <1>2, <1>3 DEF IndInv, TypeOK
<1>5. SettledIsUnassigned'
  BY <1>1 DEF IndInv, SettledIsUnassigned
<1>6. /\ \A i \in DOMAIN sessions : sessions[i].subject \in Subjects /\ sessions[i].version \in Nat
      /\ \A c \in Calls : call[c].subject \in Subjects /\ call[c].version \in Nat
  BY DEF IndInv, TypeOK, Session, Call, Versions
<1>7. VersionsBehind'
  BY <1>1, <1>2, <1>6 DEF IndInv, VersionsBehind, Memory
<1>8. \A i \in DOMAIN sessions :
        Current(i)' => Current(i) /\ sessions[i].subject # s
  BY <1>1, <1>2, <1>6 DEF IndInv, VersionsBehind, Current
<1>9. \A t \in Subjects : \A r : (t # s /\ <<t, r>> \in settled') => <<t, r>> \in settled
  BY <1>1
<1>10. CurrentIsClean'
  <2>1. \A i \in DOMAIN sessions : (Current(i)' /\ ~sessions[i].torn)
          => \A r \in sessions[i].roles : <<sessions[i].subject, r>> \notin settled'
    BY <1>1, <1>6, <1>8, <1>9 DEF IndInv, CurrentIsClean
  <2>2. \A c \in Calls : (call[c].at = "activate" /\ Current(call[c].id)')
          => <<call[c].subject, call[c].role>> \notin settled'
    <3>1. \A c \in Calls : call[c].at = "activate"
            => call[c].id \in DOMAIN sessions /\ call[c].subject = sessions[call[c].id].subject
      BY <1>1 DEF IndInv, LockedView, Locked
    <3> QED
      BY <1>1, <1>6, <1>8, <1>9, <3>1 DEF IndInv, CurrentIsClean
  <2> QED
    BY <1>1, <2>1, <2>2 DEF CurrentIsClean, Current
<1> QED
  BY <1>1, <1>4, <1>5, <1>7, <1>10
     DEF IndInv, DestroyedStaysGone, DeactivationLasts, DutiesSeparated, OffKnown,
         DbStepsOnly, LockExclusive, LockedView, ListsChecked, CreationsHold,
         Memory, Locked, Creating, DsdOk

(* The database manager's bump stamps the rows and no role list. *)
LEMMA StampStep ==
  ASSUME IndInv, NEW c \in Calls, StampRows(c)
  PROVE  IndInv'
<1> DEFINE stamped(i) == [sessions[i] EXCEPT !.version = call[c].version]
<1>1. /\ call[c].at = "bump" /\ Become(c, NoCall)
      /\ sessions' = [i \in DOMAIN sessions |->
                        IF sessions[i].subject = call[c].subject THEN stamped(i) ELSE sessions[i]]
      /\ UNCHANGED <<manager, assigned, versions, destroyed, off, settled, now>>
  BY DEF StampRows, ghosts, Return
<1>2. ~Memory /\ ~Memory'
  BY <1>1 DEF IndInv, DbStepsOnly, Memory
<1>3. \A i \in DOMAIN sessions : stamped(i) \in Session /\ stamped(i).roles = sessions[i].roles
  <2> SUFFICES ASSUME NEW i \in DOMAIN sessions
               PROVE  stamped(i) \in Session /\ stamped(i).roles = sessions[i].roles
    OBVIOUS
  <2>1. sessions[i] \in Session /\ call[c].version \in Versions
    BY DEF IndInv, TypeOK, Call
  <2> QED
    BY <2>1 DEF Session
<1> HIDE DEF stamped
<1>4. /\ DOMAIN sessions' = DOMAIN sessions
      /\ \A i \in DOMAIN sessions : sessions'[i] \in Session /\ sessions'[i].roles = sessions[i].roles
  BY <1>1, <1>3 DEF IndInv, TypeOK
<1>5. /\ call' \in [Calls -> Call] /\ call'[c].at = "idle"
      /\ \A d \in Calls \ {c} : call'[d] = call[d]
  BY <1>1, NoCallTyped DEF Become, IndInv, TypeOK
<1>6. TypeOK'
  BY <1>1, <1>4, <1>5 DEF IndInv, TypeOK
<1> QED
  BY <1>1, <1>2, <1>4, <1>5, <1>6
     DEF IndInv, DestroyedStaysGone, DeactivationLasts, DutiesSeparated, OffKnown,
         SettledIsUnassigned, DbStepsOnly, LockExclusive, LockedView, ListsChecked,
         CreationsHold, VersionsBehind, CurrentIsClean, Memory, Creating, DsdOk

(* The clock moves: the invariant does not speak of it. *)
LEMMA TickStep ==
  ASSUME IndInv, Tick
  PROVE  IndInv'
<1>1. now' \in Times /\ UNCHANGED <<manager, assigned, sessions, versions, call, destroyed, off, settled>>
  BY SessionAssumption DEF Tick, ghosts, IndInv, TypeOK, Times
<1>2. TypeOK'
  BY <1>1 DEF IndInv, TypeOK
<1> QED
  BY <1>1, <1>2
     DEF IndInv, DestroyedStaysGone, DeactivationLasts, DutiesSeparated, OffKnown,
         SettledIsUnassigned, DbStepsOnly, LockExclusive, LockedView, ListsChecked,
         CreationsHold, VersionsBehind, CurrentIsClean, Memory, Locked, Creating, Current, DsdOk

-----------------------------------------------------------------------------
(* Every step keeps the invariant. *)
LEMMA IndStep == IndInv /\ [Next]_vars => IndInv'
<1> SUFFICES ASSUME IndInv, [Next]_vars PROVE IndInv'
  OBVIOUS
<1>1. CASE UNCHANGED vars
  BY <1>1
     DEF vars, IndInv, TypeOK, DestroyedStaysGone, DeactivationLasts, DutiesSeparated, OffKnown,
         SettledIsUnassigned, DbStepsOnly, LockExclusive, LockedView, ListsChecked,
         CreationsHold, VersionsBehind, CurrentIsClean, Memory, Locked, Creating, Current, DsdOk
<1>2. ASSUME NEW c \in Calls, CallStep(c) PROVE IndInv'
  BY <1>2, FilterStep, ReadVersionStep, InsertStep, ActivateStep, LoadStep, CheckAssignedStep,
     ApplyActivationStep, ApplyDeactivationStep, ReadSteps, StripStep, StampStep, FailStep
     DEF CallStep
<1>3. ASSUME NEW i \in Ids, DestroySession(i) PROVE IndInv'
  <2>1. {i} \in SUBSET DOMAIN sessions
    BY <1>3 DEF DestroySession
  <2> QED
    BY <1>3, <2>1, RemovalStep DEF DestroySession
<1>4. CASE CleanupExpired
  <2> DEFINE gone == {i \in DOMAIN sessions : Expired(i)}
  <2>1. gone \in SUBSET DOMAIN sessions
    OBVIOUS
  <2>2. /\ LockFree /\ sessions' = Without(sessions, gone) /\ destroyed' = destroyed \cup gone
        /\ UNCHANGED <<manager, assigned, versions, call, off, settled, now>>
    BY <1>4 DEF CleanupExpired
  <2> HIDE DEF gone
  <2> QED
    BY <2>1, <2>2, RemovalStep
<1>5. ASSUME NEW s \in Subjects, RevokeAllForSubject(s) PROVE IndInv'
  <2> DEFINE gone == {i \in DOMAIN sessions : sessions[i].subject = s}
  <2>1. gone \in SUBSET DOMAIN sessions
    OBVIOUS
  <2>2. /\ LockFree /\ sessions' = Without(sessions, gone) /\ destroyed' = destroyed \cup gone
        /\ UNCHANGED <<manager, assigned, versions, call, off, settled, now>>
    BY <1>5 DEF RevokeAllForSubject
  <2> HIDE DEF gone
  <2> QED
    BY <2>1, <2>2, RemovalStep
<1> QED
  BY <1>1, <1>2, <1>3, <1>4, <1>5, DeactivateStep, BumpStep, AssignStep, RevokeRoleStep, TickStep
     DEF Next

(* The invariant holds of every reachable state. *)
LEMMA Inductive == Spec => []IndInv
<1> QED
  BY IndInit, IndStep, PTL DEF Spec

(* With a constraint store attached no session of either manager ever      *)
(* holds roles a DSD policy keeps apart, however creations, activations,   *)
(* deactivations and strips interleave (validate_dsd_with_store).          *)
THEOREM SessionsSeparateDuties == Spec => []DutiesSeparated
<1>1. IndInv => DutiesSeparated
  BY DEF IndInv
<1> QED
  BY <1>1, Inductive, PTL

(* A destroyed session stays gone in both managers, and a role deactivated *)
(* in the memory manager stays out until it is activated again             *)
(* (destroy_session, deactivate_role, update_roles).                       *)
THEOREM WhatEndsStaysEnded == Spec => []EndingsLast
<1>1. IndInv => EndingsLast
  BY DEF IndInv, EndingsLast
<1> QED
  BY <1>1, Inductive, PTL

(* After a revocation and the bump that follows it no honoured session of  *)
(* the memory manager holds the role, unless the revocation overlapped the *)
(* session's creation (bump_version_for_subject).                          *)
THEOREM RevokedRolesExpire == Spec => []RevokedRolesGoStale
<1>1. IndInv => RevokedRolesGoStale
  BY DEF IndInv, CurrentIsClean, Current, Memory, RevokedRolesGoStale, Honoured
<1> QED
  BY <1>1, Inductive, PTL
=============================================================================

------------------------------ MODULE Presence ------------------------------
(* PresenceRegistry (packages/session/src/presence.rs): connections with an RAII
   lease, touched on activity, swept when idle.  A sweep or a query reads the clock
   for its cutoff before it takes the lock, so connections, touches and drops fall in
   between.  Queries filter by the cutoff and remove nothing.  The clock starts past
   the idle timeout, where the cutoff can be computed. *)
EXTENDS Integers, FiniteSets

CONSTANTS
    Conns,        \* connection ids; a fresh UUID each
    Users,        \* authenticated users
    Anonymous,    \* no user attached (None)
    Observers,    \* concurrent sweeps and queries
    IdleTimeout,  \* idle_timeout, at least 1
    MaxPresenceTime   \* bound: clock

(* with_idle_timeout raises a shorter timeout to one unit. *)
ASSUME PresenceAssumption ==
    /\ IsFiniteSet(Conns) /\ Anonymous \notin Users
    /\ IdleTimeout \in Nat \ {0} /\ MaxPresenceTime \in Nat

VARIABLES connections, lease, lastTouch, quiet, looking, counted, presenceNow

pvars == <<connections, lease, lastTouch, quiet, looking, counted, presenceNow>>

Connection == [user : Users \cup {Anonymous}, last_activity : Nat]
NotLooking == [op |-> "idle", cutoff |-> 0]
NoCount == [conns |-> {}, held |-> {}, active |-> {}, total |-> 0, users |-> 0,
            anonymous |-> 0, per_user |-> <<>>]

PresenceInit ==
    /\ connections = [c \in {} |-> 0]
    /\ lease = [c \in Conns |-> "none"]
    /\ lastTouch = [c \in Conns |-> 0]
    /\ quiet = {}
    /\ looking = [o \in Observers |-> NotLooking]
    /\ counted = NoCount
    /\ presenceNow = IdleTimeout

(* Connections that have now been silent for the whole timeout are remembered in
   `quiet`, a history variable. *)
PresenceTick ==
    /\ presenceNow < MaxPresenceTime
    /\ presenceNow' = presenceNow + 1
    /\ quiet' = quiet \cup {c \in Conns : lease[c] = "held" /\ presenceNow' - lastTouch[c] >= IdleTimeout}
    /\ UNCHANGED <<connections, lease, lastTouch, looking, counted>>

Connect(c, u) ==
    /\ lease[c] = "none"
    /\ connections' = [d \in DOMAIN connections \cup {c} |->
           IF d = c THEN [user |-> u, last_activity |-> presenceNow] ELSE connections[d]]
    /\ lease' = [lease EXCEPT ![c] = "held"]
    /\ lastTouch' = [lastTouch EXCEPT ![c] = presenceNow]
    /\ UNCHANGED <<quiet, looking, counted, presenceNow>>

(* Mutant: a touch registers a removed connection again. *)
TouchRegisters(c) ==
    /\ lease[c] # "none"
    /\ connections' = [d \in DOMAIN connections \cup {c} |->
           IF d = c THEN [user |-> Anonymous, last_activity |-> presenceNow] ELSE connections[d]]
    /\ lastTouch' = [lastTouch EXCEPT ![c] = presenceNow]
    /\ UNCHANGED <<lease, quiet, looking, counted, presenceNow>>

(* touch: a registered connection is revived, a removed one is not registered again.
   The id may be used after the lease was dropped. *)
Touch(c) ==
    /\ lease[c] # "none"
    /\ connections' = [d \in DOMAIN connections |->
           IF d = c THEN [connections[d] EXCEPT !.last_activity = presenceNow] ELSE connections[d]]
    /\ lastTouch' = [lastTouch EXCEPT ![c] = presenceNow]
    /\ UNCHANGED <<lease, quiet, looking, counted, presenceNow>>

(* Dropping the lease removes the entry. *)
Remove(c) ==
    /\ lease[c] = "held"
    /\ lease' = [lease EXCEPT ![c] = "dropped"]
    /\ connections' = [d \in DOMAIN connections \ {c} |-> connections[d]]
    /\ UNCHANGED <<lastTouch, quiet, looking, counted, presenceNow>>

(* Mutant: one tick too strict. *)
IdleCutoffStrict == presenceNow - (IdleTimeout - 1)

(* idle_cutoff, taken before the lock. *)
IdleCutoff == presenceNow - IdleTimeout

ReadCutoff(o, op) ==
    /\ looking[o] = NotLooking
    /\ looking' = [looking EXCEPT ![o] = [op |-> op, cutoff |-> IdleCutoff]]
    /\ UNCHANGED <<connections, lease, lastTouch, quiet, counted, presenceNow>>

ActiveSince(cutoff) == {c \in DOMAIN connections : connections[c].last_activity > cutoff}

Sweep(o) ==
    /\ looking[o].op = "sweep"
    /\ connections' = [c \in ActiveSince(looking[o].cutoff) |-> connections[c]]
    /\ looking' = [looking EXCEPT ![o] = NotLooking]
    /\ UNCHANGED <<lease, lastTouch, quiet, counted, presenceNow>>

(* The queries, as functions of the connections they count. *)
ConnectionCount(S) == Cardinality(S)
UsersOf(S) == {connections[c].user : c \in S} \ {Anonymous}
UserCount(S) == Cardinality(UsersOf(S))
AnonymousCount(S) == Cardinality({c \in S : connections[c].user = Anonymous})
PerUserCounts(S) == [u \in UsersOf(S) |-> Cardinality({c \in S : connections[c].user = u})]

(* A query under the lock; `counted` keeps what the last one answered, with the leases
   held at that moment and those whose holder was never silent for the timeout. *)
Query(o) ==
    LET S == ActiveSince(looking[o].cutoff) IN
    /\ looking[o].op = "query"
    /\ counted' = [conns |-> S,
                   held |-> {c \in Conns : lease[c] = "held"},
                   active |-> {c \in Conns \ quiet : lease[c] = "held"},
                   total |-> ConnectionCount(S), users |-> UserCount(S),
                   anonymous |-> AnonymousCount(S), per_user |-> PerUserCounts(S)]
    /\ looking' = [looking EXCEPT ![o] = NotLooking]
    /\ UNCHANGED <<connections, lease, lastTouch, quiet, presenceNow>>

PresenceNext ==
    \/ PresenceTick
    \/ \E c \in Conns :
           \/ Touch(c) \/ Remove(c)
           \/ \E u \in Users \cup {Anonymous} : Connect(c, u)
    \/ \E o \in Observers :
           \/ Sweep(o) \/ Query(o)
           \/ \E op \in {"sweep", "query"} : ReadCutoff(o, op)

PresenceSpec == PresenceInit /\ [][PresenceNext]_pvars

-----------------------------------------------------------------------------
PresenceTypeOK ==
    /\ DOMAIN connections \subseteq Conns
    /\ \A c \in DOMAIN connections : connections[c] \in Connection
    /\ lease \in [Conns -> {"none", "held", "dropped"}]

(* What a query tells a dashboard: nothing closed is counted and nobody who stayed active
   is missed, although the cutoff was read before the lock; so the total lies between the
   two, and every online user is counted once, beside the anonymous connections, whatever
   the number of tabs. *)
FiguresHonest ==
    /\ counted.conns \subseteq counted.held
    /\ counted.active \subseteq counted.conns
    /\ counted.total \in Cardinality(counted.active)..Cardinality(counted.held)
    /\ counted.users = Cardinality(DOMAIN counted.per_user)
    /\ counted.users + counted.anonymous <= counted.total
    /\ \A u \in DOMAIN counted.per_user :
           counted.per_user[u] \in 1..(counted.total - counted.anonymous)

(* A connection that never stayed silent for the whole idle timeout is registered as
   long as its lease is held: no sweep, whenever its cutoff was read, drops it. *)
ActiveStay == \A c \in Conns : (lease[c] = "held" /\ c \notin quiet) => c \in DOMAIN connections

(* Presence figures count what is open and active, and no sweep drops a connection that
   was never silent for the timeout. *)
PresenceHonest == PresenceTypeOK /\ FiguresHonest /\ ActiveStay

-----------------------------------------------------------------------------
(* The inductive strengthening: what is registered is held and carries its last touch, a
   cutoff already read is no younger than the timeout, and a connection silent for the
   timeout by now is remembered as quiet. *)
PresenceInv ==
    /\ PresenceHonest
    /\ presenceNow \in Nat /\ presenceNow >= IdleTimeout
    /\ lastTouch \in [Conns -> Nat] /\ quiet \subseteq Conns
    /\ looking \in [Observers -> [op : {"idle", "sweep", "query"}, cutoff : Nat]]
    /\ \A c \in DOMAIN connections :
           lease[c] = "held" /\ connections[c].last_activity = lastTouch[c]
    /\ \A o \in Observers : looking[o].cutoff + IdleTimeout <= presenceNow
    /\ \A c \in Conns :
           (lease[c] = "held" /\ c \notin quiet) => presenceNow < lastTouch[c] + IdleTimeout
=============================================================================

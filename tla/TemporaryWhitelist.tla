------------------------- MODULE TemporaryWhitelist -------------------------
(* The temporary whitelist of client addresses with its expiring entries
   (auth/passport/temporary_whitelist.rs).

   is_whitelisted samples the clock before it waits for the read lock, so additions,
   removals, cleanups and time itself run between the two.  The vector of entries is only
   ever searched and filtered, so it is a set here. *)
EXTENDS Integers

CONSTANTS
    Sources,        \* client addresses
    Asking,         \* concurrent is_whitelisted calls
    Ttls,           \* lifetimes an entry may be added with
    Forever,        \* expires_at = None: later than any instant
    MaxMoment       \* bound: clock

(* A lifetime of zero is left out: see AnswersRight. *)
ASSUME WhitelistAssumption ==
    /\ MaxMoment \in Nat /\ Ttls \subseteq Nat \ {0}
    /\ Forever \in Nat /\ Forever > MaxMoment

VARIABLES
    whitelist,    \* WhitelistVerifier.entries
    meant,        \* ghost: source -> end of what it was last added for, 0 when removed
    asking,       \* is_whitelisted calls; `yes` and `no` are ghosts: what a call could
                  \* rightly have answered at some instant since it began
    moment        \* Instant::now()

wvars == <<whitelist, meant, asking, moment>>

WhitelistEntry == [source : Sources, expires : Nat]

NotAsking == [step |-> "idle", source |-> "none", sampled |-> 0, answer |-> FALSE,
              yes |-> FALSE, no |-> FALSE]

WhitelistInit ==
    /\ whitelist = {} /\ meant = [s \in Sources |-> 0]
    /\ asking = [c \in Asking |-> NotAsking] /\ moment = 0

Lives(e, t) == e.expires = Forever \/ t < e.expires

(* Ghost: every call in progress notes what would be right now. *)
Noted(intent, t) ==
    [c \in Asking |->
        IF asking[c].step # "asked" THEN asking[c]
        ELSE [asking[c] EXCEPT !.yes = asking[c].yes \/ t < intent[asking[c].source],
                               !.no = asking[c].no \/ t >= intent[asking[c].source]]]

Expires(ttl) == IF ttl = Forever THEN Forever ELSE moment + ttl

Others(s) == {e \in whitelist : e.source # s}

(* Mutant: an older entry of the source stays. *)
MutAdd(s, ttl) ==
    /\ whitelist' = whitelist \cup {[source |-> s, expires |-> Expires(ttl)]}
    /\ meant' = [meant EXCEPT ![s] = Expires(ttl)] /\ asking' = Noted(meant', moment)
    /\ UNCHANGED moment

(* add replaces whatever entry the source had, a longer one included. *)
Add(s, ttl) ==
    /\ whitelist' = Others(s) \cup {[source |-> s, expires |-> Expires(ttl)]}
    /\ meant' = [meant EXCEPT ![s] = Expires(ttl)] /\ asking' = Noted(meant', moment)
    /\ UNCHANGED moment

RemoveSource(s) ==
    /\ whitelist' = Others(s)
    /\ meant' = [meant EXCEPT ![s] = 0] /\ asking' = Noted(meant', moment)
    /\ UNCHANGED moment

CleanupExpired ==
    /\ whitelist' = {e \in whitelist : Lives(e, moment)}
    /\ UNCHANGED <<meant, asking, moment>>

(* is_whitelisted: the clock first, the entries when the lock is free. *)
AskBegin(c, s) ==
    /\ asking[c].step # "asked"
    /\ asking' = [asking EXCEPT ![c] = [step |-> "asked", source |-> s, sampled |-> moment,
           answer |-> FALSE, yes |-> moment < meant[s], no |-> moment >= meant[s]]]
    /\ UNCHANGED <<whitelist, meant, moment>>

IsWhitelisted(s, t) == \E e \in whitelist : e.source = s /\ Lives(e, t)

AskRead(c) ==
    /\ asking[c].step = "asked"
    /\ asking' = [asking EXCEPT ![c] = [asking[c] EXCEPT !.step = "answered",
           !.answer = IsWhitelisted(asking[c].source, asking[c].sampled)]]
    /\ UNCHANGED <<whitelist, meant, moment>>

WhitelistTick ==
    /\ moment < MaxMoment
    /\ moment' = moment + 1 /\ asking' = Noted(meant, moment + 1)
    /\ UNCHANGED <<whitelist, meant>>

WhitelistNext ==
    \/ \E s \in Sources, ttl \in Ttls \cup {Forever} : Add(s, ttl)
    \/ \E s \in Sources : RemoveSource(s)
    \/ CleanupExpired \/ WhitelistTick
    \/ \E c \in Asking : AskRead(c) \/ \E s \in Sources : AskBegin(c, s)

WhitelistSpec == WhitelistInit /\ [][WhitelistNext]_wvars

-----------------------------------------------------------------------------
WhitelistTypeOK ==
    /\ whitelist \subseteq WhitelistEntry
    /\ moment \in 0..MaxMoment
    /\ \A c \in Asking : asking[c].step \in {"idle", "asked", "answered"} /\ asking[c].answer \in BOOLEAN

(* Every answer was right at some instant of the call: an expired or removed entry
   admits nobody whose call began afterwards, re-adding with a shorter lifetime really
   shortens it, and a cleanup changes no answer.  An entry added with a lifetime of zero
   is the exception: dead from the start, it still admits a call that sampled the clock
   before. *)
AnswersRight ==
    \A c \in Asking : asking[c].step = "answered" =>
        IF asking[c].answer THEN asking[c].yes ELSE asking[c].no

(* The temporary whitelist answers for an instant of the call. *)
AnswersHonest == WhitelistTypeOK /\ AnswersRight

-----------------------------------------------------------------------------
(* The inductive strengthening.  The table holds what was meant, and all of it that has not
   run out; a call that samples an instant its source is meant to live at has noted "yes",
   and one that has never noted "no" asks about a source still meant to live. *)
WhitelistCall ==
    [step : {"asked", "answered"}, source : Sources, sampled : Nat,
     answer : BOOLEAN, yes : BOOLEAN, no : BOOLEAN]

TableAsMeant ==
    /\ \A e \in whitelist : e.expires = meant[e.source]
    /\ \A s \in Sources : moment < meant[s] => \E e \in whitelist : e.source = s

NotesKept ==
    \A c \in Asking : asking[c].step = "asked" =>
        /\ asking[c].sampled <= moment
        /\ asking[c].sampled < meant[asking[c].source] => asking[c].yes
        /\ ~ asking[c].no => moment < meant[asking[c].source]

WhitelistInv ==
    /\ AnswersHonest
    /\ meant \in [Sources -> Nat] /\ asking \in [Asking -> WhitelistCall \cup {NotAsking}]
    /\ TableAsMeant /\ NotesKept
=============================================================================

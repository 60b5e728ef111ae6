---------------------------- MODULE Invitations ----------------------------
(* InMemoryInvitationStore (invitation/store.rs): create, open, accept, revoke and
   the expiry sweep.  The two tables (by id, by token) have a lock each; create fills
   the first and then the second, and every other call resolves the token under one
   lock and works under the next.  Index entries are never removed, so a resolved
   token stays resolved and the second lock section is the whole call. *)
EXTENDS Naturals

CONSTANTS
    Invites,      \* invitations that may be created
    Templates,    \* the parameters they may be created with
    Ips,          \* client addresses
    NoIp,         \* an address the server could not see (None)
    OpenWindow,   \* the store's 300 s open window, in ticks; the same for every invitation
    MaxInviteTime \* bound: clock

VARIABLES
    inner, token_index, inviteNow,
    grants,       \* ghost: acceptances that succeeded
    asked         \* ghost: the parameters each invitation was created with

ivars == <<inner, token_index, inviteNow, grants, asked>>

InvitationMode == {"Approval", "Direct"}
InvitationStatus == {"Pending", "Opened", "Accepted", "Expired", "Revoked", "Exhausted"}
Usable == {"Pending", "Opened"}
Absent == [status |-> "Absent"]
Never == MaxInviteTime + 1

(* CreateInvitationParams, with their defaults applied, without the fields that are only
   copied. *)
CreateParams == [mode : InvitationMode, max_uses : Nat, ttl : Nat, open_window : Nat]

(* Invitation, likewise.  It has no field for the window: what open_window asked for is
   dropped by create, and open and accept use the store's own. *)
Invitation ==
    [mode : InvitationMode, max_uses : Nat, use_count : Nat, status : InvitationStatus,
     opened_at : 0..Never, opened_ip : Ips \cup {NoIp}, expires_at : Nat]

ASSUME InvitationsAssumption ==
    Templates \subseteq CreateParams /\ OpenWindow \in Nat /\ MaxInviteTime \in Nat

InvitationsInit ==
    /\ inner = [i \in Invites |-> Absent]
    /\ token_index = {}
    /\ inviteNow = 0
    /\ grants = [i \in Invites |-> 0]
    /\ asked = [i \in Invites |-> Absent]

InvitationsTick ==
    /\ inviteNow < MaxInviteTime
    /\ inviteNow' = inviteNow + 1
    /\ UNCHANGED <<inner, token_index, grants, asked>>

(* create: the record first, ... *)
Create(i, p) ==
    /\ inner[i] = Absent
    /\ inner' = [inner EXCEPT ![i] =
           [mode |-> p.mode, max_uses |-> p.max_uses, use_count |-> 0, status |-> "Pending",
            opened_at |-> Never, opened_ip |-> NoIp, expires_at |-> inviteNow + p.ttl]]
    /\ asked' = [asked EXCEPT ![i] = p]
    /\ UNCHANGED <<token_index, inviteNow, grants>>

(* ... then the token that leads to it. *)
Index(i) ==
    /\ inner[i] # Absent /\ i \notin token_index
    /\ token_index' = token_index \cup {i}
    /\ UNCHANGED <<inner, inviteNow, grants, asked>>

SetStatus(i, s) == inner' = [inner EXCEPT ![i].status = s]

(* open: expiry is looked at before the status, so it relabels a finished invitation;
   the first open starts the window and remembers the address; an open at or past the
   end of the window expires the invitation. *)
(* Mutant: every open starts the window again. *)
OpenedAgain(i, ip) ==
    [inner[i] EXCEPT !.opened_at = inviteNow, !.opened_ip = ip, !.status = "Opened"]

Opened(i, ip) ==
    IF inner[i].opened_at # Never THEN inner[i]
    ELSE [inner[i] EXCEPT !.opened_at = inviteNow, !.opened_ip = ip, !.status = "Opened"]

Open(i, ip) ==
    /\ i \in token_index /\ inner[i].mode = "Direct"
    /\ \/ inviteNow > inner[i].expires_at /\ SetStatus(i, "Expired")
       \/ /\ inviteNow <= inner[i].expires_at /\ inner[i].status \in Usable
          /\ LET inv == Opened(i, ip) IN
             inner' = [inner EXCEPT ![i] =
                 IF inviteNow - inv.opened_at >= OpenWindow THEN [inv EXCEPT !.status = "Expired"] ELSE inv]
    /\ UNCHANGED <<token_index, inviteNow, grants, asked>>

WindowOver(inv) == inv.mode = "Direct" /\ inv.opened_at # Never /\ inviteNow - inv.opened_at > OpenWindow

IpMismatch(inv, ip) ==
    inv.mode = "Direct" /\ inv.opened_ip # NoIp /\ ip # NoIp /\ inv.opened_ip # ip

(* The use is counted before it is compared with the limit. *)
(* Mutant: the limit is compared with the count before this use. *)
UsedLate(inv) ==
    [inv EXCEPT !.use_count = @ + 1,
                !.status = IF inv.use_count >= inv.max_uses THEN "Accepted" ELSE @]

Used(inv) ==
    [inv EXCEPT !.use_count = @ + 1,
                !.status = IF inv.use_count + 1 >= inv.max_uses THEN "Accepted" ELSE @]

(* accept: the status is looked at first; an address mismatch is an error that changes
   nothing. *)
Accept(i, ip) ==
    /\ i \in token_index /\ inner[i].status \in Usable
    /\ IF inviteNow > inner[i].expires_at \/ WindowOver(inner[i])
       THEN SetStatus(i, "Expired") /\ UNCHANGED grants
       ELSE /\ ~ IpMismatch(inner[i], ip)
            /\ inner' = [inner EXCEPT ![i] = Used(@)]
            /\ grants' = [grants EXCEPT ![i] = @ + 1]
    /\ UNCHANGED <<token_index, inviteNow, asked>>

RevokeInvitation(i) ==
    /\ i \in token_index
    /\ SetStatus(i, "Revoked")
    /\ UNCHANGED <<token_index, inviteNow, grants, asked>>

(* expire_stale: every usable invitation past its expiry, in one lock section. *)
ExpireStale ==
    /\ inner' = [i \in Invites |->
           IF inner[i] # Absent /\ inner[i].status \in Usable /\ inviteNow > inner[i].expires_at
           THEN [inner[i] EXCEPT !.status = "Expired"] ELSE inner[i]]
    /\ UNCHANGED <<token_index, inviteNow, grants, asked>>

InvitationsNext ==
    \/ InvitationsTick \/ ExpireStale
    \/ \E i \in Invites :
           \/ Index(i) \/ RevokeInvitation(i)
           \/ \E p \in Templates : Create(i, p)
           \/ \E ip \in Ips \cup {NoIp} : Open(i, ip) \/ Accept(i, ip)

InvitationsSpec == InvitationsInit /\ [][InvitationsNext]_ivars

-----------------------------------------------------------------------------
InvitationsTypeOK ==
    /\ \A i \in Invites : inner[i] \in Invitation \cup {Absent}
    /\ token_index \subseteq {i \in Invites : inner[i] # Absent}
    /\ inviteNow \in 0..MaxInviteTime

(* An invitation is worth max_uses acceptances while it is pending or opened and nothing
   afterwards; one created with max_uses = 0 is worth one, because accept counts the use
   before it looks at the limit (AdmitsAtMostMax). *)
Worth(inv) == IF inv.max_uses = 0 THEN 1 ELSE inv.max_uses

AdmissionsLeft == [i \in Invites |->
    IF inner[i] # Absent /\ inner[i].status \in Usable
    THEN Worth(inner[i]) - inner[i].use_count ELSE 0]

InvitationPromise == INSTANCE LimitedUse WITH Tickets <- Invites, left <- AdmissionsLeft, spent <- grants

(* Whatever the order of opens, acceptances, revocations and sweeps, no invitation
   admits more than max_uses people (one where max_uses is 0), and one that was revoked,
   expired or used up never admits anybody again. *)
AdmitsWithinLimit == InvitationPromise!Spec

(* An acceptance of an opened Direct invitation comes at most the store's OpenWindow after
   its first open, however often and from wherever it was opened again, and no acceptance
   comes past the invitation's own expiry.  A Direct invitation that nobody opened may be
   accepted until its expiry; and which window its creator asked for makes no difference
   (WindowAsAsked). *)
AcceptStep ==
    \A i \in Invites :
        /\ grants'[i] > grants[i] =>
               /\ inviteNow <= inner[i].expires_at
               /\ inner[i].mode = "Direct" /\ inner[i].status = "Opened" =>
                      inviteNow <= inner[i].opened_at + OpenWindow
        /\ (inner[i] # Absent /\ inner[i].opened_at # Never) =>
               /\ inner'[i].opened_at = inner[i].opened_at
               /\ inner'[i].opened_ip = inner[i].opened_ip

AcceptedInWindow == [][AcceptStep]_ivars

(* An invitation admits no more than max_uses people (one where that is 0), nobody after it
   was revoked, expired or used up, an opened one only within the store's window, and any
   only before its expiry. *)
AdmitsAsInvited == AdmitsWithinLimit /\ []InvitationsTypeOK /\ AcceptedInWindow

(* Refuted, as types.rs:67 has it, "Maximum number of redemptions": max_uses = 0 admits one. *)
AdmitsAtMostMax == \A i \in Invites : inner[i] # Absent => grants[i] <= inner[i].max_uses

(* Refuted, as types.rs:100 has it, "Direct-mode window in seconds from first open": the
   store does not keep the window that was asked for. *)
WindowAsAsked == [][\A i \in Invites :
    (grants'[i] > grants[i] /\ inner[i].mode = "Direct" /\ inner[i].status = "Opened") =>
        inviteNow <= inner[i].opened_at + asked[i].open_window]_ivars

-----------------------------------------------------------------------------
(* The inductive strengthening: nothing was admitted on an invitation that does not exist,
   a usable one has an admission left, and an opened one knows when. *)
InvitationsInv ==
    /\ InvitationsTypeOK
    /\ inner \in [Invites -> Invitation \cup {Absent}] /\ grants \in [Invites -> Nat]
    /\ \A i \in Invites : inner[i] = Absent => grants[i] = 0
    /\ \A i \in Invites : inner[i] # Absent =>
           /\ inner[i].status \in Usable => inner[i].use_count < Worth(inner[i])
           /\ inner[i].status = "Opened" => inner[i].opened_at # Never
=============================================================================

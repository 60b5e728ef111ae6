------------------------------ MODULE MCTickets ------------------------------
(* Small instances of the stores that hand something out: single-use stores,
   invitations, visitor tickets and presence leases.  They do not share state, so each
   behaviour is about one of them: `scenario` is chosen in the initial state and the
   others never leave theirs. *)
EXTENDS SingleUseStores, Invitations, VisitorTickets, Presence

VARIABLE scenario

vars == <<scenario, svars, ivars, vvars, pvars>>

MCStores == {"one_time", "credential", "captcha", "pow", "webauthn", "code", "one_shot", "hotp"}
MCHotpCode == <<1, 2, 2>>
(* One invitation asks for a shorter window than the store's, one for no use at all. *)
MCTemplates == {[mode |-> "Direct", max_uses |-> 2, ttl |-> 3, open_window |-> 1],
                [mode |-> "Approval", max_uses |-> 0, ttl |-> 1, open_window |-> 2]}

Init ==
    /\ scenario \in {"stores", "invitations", "visitors", "presence"}
    /\ scenario # "stores" => store = "one_time"
    /\ StoresInit /\ InvitationsInit /\ VisitorsInit /\ PresenceInit

Next ==
    /\ UNCHANGED scenario
    /\ \/ scenario = "stores" /\ StoresNext /\ UNCHANGED <<ivars, vvars, pvars>>
       \/ scenario = "invitations" /\ InvitationsNext /\ UNCHANGED <<svars, vvars, pvars>>
       \/ scenario = "visitors" /\ VisitorsNext /\ UNCHANGED <<svars, ivars, pvars>>
       \/ scenario = "presence" /\ PresenceNext /\ UNCHANGED <<svars, ivars, vvars>>

Spec == Init /\ [][Next]_vars
=============================================================================

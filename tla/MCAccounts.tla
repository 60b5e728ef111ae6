---------------------------- MODULE MCAccounts ----------------------------
(* Instances of Accounts for TLC. *)
EXTENDS Accounts, TLC

(* Two logins in a window of two instants, or one registration at a time. *)
MCLimit == [login |-> [max |-> 2, window |-> 1, lockout |-> 1],
            register |-> [max |-> 1, window |-> 0, lockout |-> 2]]

(* Two names that differ in case, and a third. *)
MCUsernames == {"ann", "Ann", "bob"}
MCNormalise == [ann |-> "ann", Ann |-> "ann", bob |-> "bob"]
MCLoginNames == {"Ann"}

CallSymmetry == Permutations(Calls)
=============================================================================

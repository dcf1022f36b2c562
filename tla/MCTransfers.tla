---------------------------- MODULE MCTransfers ----------------------------
(* Model checking TransferSystem and its accounts. *)
EXTENDS Accounting, TLC

CONSTANT Amounts

\* One that fits into a new wallet, and one the web client does not send.
SignedAmounts == {2, -4}

\* Every request between the users, also from a user to the same user.
AllTerms == [from : Users, to : Users, amount : Amounts]

\* Every request from one user to another.
ProperTerms == {x \in AllTerms : x.from # x.to}

\* The same, and from a user whose wallet may be deleted to the same user.
DeletableTerms == ProperTerms \union {x \in AllTerms : x.from = x.to /\ x.from \in Deletable}

\* Sound where no constant tells one user from another.
Symmetry ==
    Permutations(Users) \union Permutations(TxIds) \union Permutations(Workers)
=============================================================================

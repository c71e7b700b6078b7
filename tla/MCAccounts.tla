----------------------------- MODULE MCAccounts -----------------------------
EXTENDS Accounts, TLC
MCRegistered == [phone |-> "p1", password |-> "old"]
MCSymmetry == Permutations(Requests) \union Permutations(Users) \union Permutations(Keys)
=============================================================================

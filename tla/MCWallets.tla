------------------------------- MODULE MCWallets -------------------------------
(* A small instance of Wallets for TLC.                                    *)
EXTENDS HiresInTurn, TLC

CONSTANTS home, away, family, u1, r1, s1, s2

MCOwnerOf    == [r \in Rentals |-> u1]
MCUnlockCost == [l \in Licences |-> 2]
===============================================================================

----------------------------- MODULE CoinAccount -----------------------------
(***************************************************************************)
(* What the coins promise a family, without the handlers: an occurrence    *)
(* that was completed is paid at most once, and the payment puts the row   *)
(* and the money in place in one step (coins.service.ts).                  *)
(***************************************************************************)
EXTENDS Integers, FiniteSetsExt

CONSTANTS
  Occurrence, Child,  (* what is paid for, and who is paid                  *)
  ChildOf,            (* the child each occurrence belongs to               *)
  Coins               (* the reward of each occurrence                      *)

VARIABLES
  earned,   (* the occurrences that were ever completed                     *)
  ledger,   (* how many rows each occurrence has                            *)
  balance   (* the coins of each child                                      *)

accountVars == <<earned, ledger, balance>>

AccountInit ==
  /\ earned = {}
  /\ ledger = [o \in Occurrence |-> 0]
  /\ balance = [c \in Child |-> 0]

Earn(o) ==
  /\ earned' = earned \cup {o}
  /\ UNCHANGED <<ledger, balance>>

Pay(o) ==
  /\ o \in earned /\ ledger[o] = 0 /\ Coins[o] > 0
  /\ ledger' = [ledger EXCEPT ![o] = 1]
  /\ balance' = [balance EXCEPT ![ChildOf[o]] = @ + Coins[o]]
  /\ UNCHANGED earned

AccountNext == \E o \in Occurrence : Earn(o) \/ Pay(o)
AccountSpec == AccountInit /\ [][AccountNext]_accountVars

(* The books balance: what getBalance shows a child is the sum of the rewards  *)
(* of its paid occurrences, each counted once (coins.service.ts, getBalance). *)
PaidTo(c) == {o \in Occurrence : ChildOf[o] = c /\ ledger[o] > 0}
BooksBalance ==
  \A c \in Child : balance[c] = MapThenSumSet(LAMBDA o : Coins[o], PaidTo(c))
=============================================================================

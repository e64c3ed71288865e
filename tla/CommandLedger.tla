--------------------------- MODULE CommandLedger ---------------------------
(* What src/client/command.rs promises a caller: every echoing command that  *)
(* is published ends in at most one outcome, which is final.                 *)
CONSTANTS
  Commands,  \* the commands that can be published
  Outcomes   \* their possible outcomes

VARIABLE ledger

Init == ledger = [c \in Commands |-> "unsent"]

Open(c) ==
  /\ ledger[c] = "unsent"
  /\ ledger' = [ledger EXCEPT ![c] = "open"]

Settle(c) ==
  /\ ledger[c] = "open"
  /\ \E o \in Outcomes : ledger' = [ledger EXCEPT ![c] = o]

Next == \E c \in Commands : Open(c) \/ Settle(c)

Spec == Init /\ [][Next]_ledger
============================================================================

--------------------------- MODULE MasqueradeAgent --------------------------
(***************************************************************************)
(* The agent that runs on every node beside Cilium                         *)
(* (cilium_eip_no_masquerade_agent): once a second it makes sure that the  *)
(* chain of Cilium has the rules that mark connections by the interface    *)
(* they came in on, and that an ip rule sends each mark to the table of    *)
(* its interface.  Cilium takes its chain away and makes it anew when it   *)
(* restarts, between any two of the calls the agent makes.                 *)
(***************************************************************************)
EXTENDS Naturals

CONSTANT Last \* the index of the last secondary interface (15 in the code)

ASSUME LastAssumption == Last \in Nat \ {0}

Index == 1 .. Last
Restore == 0 \* the rule that restores the mark; rule i marks interface i
Rule == Index \cup {Restore}

VARIABLES
  chain,    \* whether the chain exists
  copies,   \* copies[k]: how many copies of iptables rule k the chain has
  ipRules,  \* the marks with an ip rule
  pc,       \* the call of the agent that comes next
  at,       \* the iptables rule it is at
  existing  \* the marks it found ip rules of in this round

vars == <<chain, copies, ipRules, pc, at, existing>>
tables == <<chain, copies, ipRules>>

TypeOK ==
  /\ chain \in BOOLEAN
  /\ copies \in [Rule -> Nat]
  /\ ipRules \subseteq Index
  /\ pc \in {"wait", "check", "append", "read", "insert", "ended"}
  /\ at \in Rule
  /\ existing \subseteq Index

NoCopies == [k \in Rule |-> 0]

\* What an earlier run of the agent left may be there.
Init ==
  /\ chain \in BOOLEAN
  /\ copies \in IF chain THEN [Rule -> {0, 1}] ELSE {NoCopies}
  /\ ipRules \in SUBSET Index
  /\ pc = "wait"
  /\ at = Restore
  /\ existing = {}

-----------------------------------------------------------------------------
(* The agent.                                                              *)

Goto(call, k) == pc' = call /\ at' = k

\* An error is unwrapped, and the process ends.
Panic == Goto("ended", Restore) /\ existing' = {}

\* A round of the loop begins when the chain is there.
wait_for_chain_to_exist ==
  /\ pc = "wait"
  /\ chain
  /\ Goto("check", Restore)
  /\ UNCHANGED <<tables, existing>>

\* Mutant: one interface too many.
NextInterfaceInclusive(i) ==
  IF i > Last THEN Goto("wait", Restore) ELSE Goto("check", i + 1)

\* The interface after i, or the next round a second later.
NextInterface(i) == IF i = Last THEN Goto("wait", Restore) ELSE Goto("check", i + 1)

\* Rule k of the chain is there.
Ensured(k) ==
  IF k = Restore THEN Goto("read", Restore)
  ELSE IF k \in existing THEN NextInterface(k)
  ELSE Goto("insert", k)

\* Mutant: a rule is appended in every round.
ensure_iptables_rule_always ==
  /\ pc = "check"
  /\ Goto("append", at)
  /\ UNCHANGED <<tables, existing>>

\* The check says no if there is no chain.
ensure_iptables_rule ==
  /\ pc = "check"
  /\ IF chain /\ copies[at] > 0 THEN Ensured(at) ELSE Goto("append", at)
  /\ UNCHANGED <<tables, existing>>

\* Appending fails if there is no chain.
AppendRule ==
  /\ pc = "append"
  /\ IF chain
       THEN /\ copies' = [copies EXCEPT ![at] = @ + 1]
            /\ Ensured(at)
            /\ UNCHANGED existing
       ELSE Panic /\ UNCHANGED copies
  /\ UNCHANGED <<chain, ipRules>>

\* Mutant: no rule has the mask that is looked for.
get_eni_indexes_for_no_ip_rules ==
  /\ pc = "read"
  /\ existing' = {}
  /\ Goto("check", 1)
  /\ UNCHANGED tables

\* Mutant: the rules are counted and their marks are not read.
get_eni_indexes_if_any ==
  /\ pc = "read"
  /\ existing' = IF ipRules = {} THEN {} ELSE Index
  /\ Goto("check", 1)
  /\ UNCHANGED tables

get_eni_indexes_for_existing_ip_rules ==
  /\ pc = "read"
  /\ existing' = ipRules
  /\ Goto("check", 1)
  /\ UNCHANGED tables

\* Adding a rule that is there is an error.
insert_ip_rule ==
  /\ pc = "insert"
  /\ IF at \in ipRules
       THEN Panic /\ UNCHANGED ipRules
       ELSE /\ ipRules' = ipRules \cup {at}
            /\ NextInterface(at)
            /\ UNCHANGED existing
  /\ UNCHANGED <<chain, copies>>

\* The kubelet starts the agent again.
StartAgain ==
  /\ pc = "ended"
  /\ Goto("wait", Restore)
  /\ UNCHANGED <<tables, existing>>

Agent ==
  \/ wait_for_chain_to_exist
  \/ ensure_iptables_rule
  \/ AppendRule
  \/ get_eni_indexes_for_existing_ip_rules
  \/ insert_ip_rule
  \/ StartAgain

-----------------------------------------------------------------------------
(* Cilium, whoever else writes ip rules, and failures.                     *)

ChainTaken ==
  /\ chain
  /\ chain' = FALSE
  /\ copies' = NoCopies
  /\ UNCHANGED <<ipRules, pc, at, existing>>

ChainMade ==
  /\ ~chain
  /\ chain' = TRUE
  /\ UNCHANGED <<copies, ipRules, pc, at, existing>>

IpRuleDeleted ==
  /\ \E i \in ipRules : ipRules' = ipRules \ {i}
  /\ UNCHANGED <<chain, copies, pc, at, existing>>

\* A command fails for another reason, or the process is killed.
Killed ==
  /\ pc # "ended"
  /\ Panic
  /\ UNCHANGED tables

Disturbed == ChainTaken \/ IpRuleDeleted \/ Killed

Next == Agent \/ ChainMade \/ Disturbed

Spec == Init /\ [][Next]_vars

\* The agent goes on, and Cilium makes its chain in the end.
FairSpec == Spec /\ WF_vars(Agent) /\ WF_vars(ChainMade)

-----------------------------------------------------------------------------
(* Properties.                                                             *)

\* The chain never has a rule twice, although the check and the append are two
\* commands and the process may end, or the chain be made anew, between them
\* (ensure_iptables_rule).
NoDuplicateRules == \A k \in Rule : copies[k] <= 1

\* Why that is so, and why an insert never meets a rule that is there: the chain
\* has no copy of a rule that is to be appended, and of the ip rules from the one
\* the agent is at on, none is there that it did not find when the round began.
RoundInv ==
  /\ NoDuplicateRules
  /\ ~chain => copies = NoCopies
  /\ pc = "append" => copies[at] = 0
  /\ pc = "insert" => at \in Index \ existing
  /\ pc \in {"check", "append", "insert"} /\ at # Restore =>
       \A i \in ipRules : i >= at => i \in existing

\* The agent ends of its own accord only where its chain was taken from under it:
\* what it found of the ip rules at the start of a round is old when it inserts,
\* and it still never inserts one that is there (run, the loop).
EndsOnlyWithoutChain == [][Agent /\ pc' = "ended" => ~chain]_vars

\* Once the chain is left alone all the rules are there for good, whatever was
\* missing and wherever in its round the agent was (run, "Will recheck"), though it
\* may still end by itself when it finds no chain.
EventuallyMarked ==
  <>[][Disturbed => Agent]_vars =>
    <>[](ipRules = Index /\ \A k \in Rule : copies[k] = 1)
=============================================================================

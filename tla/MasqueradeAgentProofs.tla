------------------------ MODULE MasqueradeAgentProofs -----------------------
(***************************************************************************)
(* Proofs about MasqueradeAgent, for any number of interfaces: the types,  *)
(* that no rule is ever there twice, and that what the agent found at the  *)
(* start of a round is enough for it not to insert a rule that is there.   *)
(***************************************************************************)
EXTENDS MasqueradeAgent, TLAPS

-----------------------------------------------------------------------------
(* Types.                                                                  *)

LEMMA RuleRange ==
  /\ 1 \in Index /\ Restore \in Rule /\ Index \subseteq Rule
  /\ Rule \subseteq Nat /\ Index \subseteq Nat \ {Restore}
  /\ Rule = Index \cup {Restore}
BY LastAssumption DEF Index, Rule, Restore

\* Where the agent goes after an interface.
LEMMA AfterInterface ==
  ASSUME NEW k \in Rule, NextInterface(k)
  PROVE  \/ pc' = "wait" /\ at' = Restore
         \/ pc' = "check" /\ at' = k + 1 /\ at' \in Index
BY LastAssumption DEF NextInterface, Goto, Rule, Index, Restore

\* Where it goes when a rule is there.
LEMMA AfterRule ==
  ASSUME NEW k \in Rule, Ensured(k)
  PROVE  \/ pc' = "read" /\ at' = Restore /\ k = Restore
         \/ pc' = "insert" /\ at' = k /\ k \in Index \ existing
         \/ k \in existing /\ NextInterface(k)
BY DEF Ensured, Goto, Rule

\* Every step keeps the types.
LEMMA NextTypes == ASSUME TypeOK, RoundInv, [Next]_vars PROVE TypeOK'
<1> USE RuleRange DEF TypeOK
<1>1. \A k \in Rule : NextInterface(k) \/ Ensured(k) =>
        pc' \in {"wait", "check", "append", "read", "insert", "ended"} /\ at' \in Rule
  BY AfterInterface, AfterRule
<1>2. CASE wait_for_chain_to_exist \/ StartAgain
  BY <1>2 DEF wait_for_chain_to_exist, StartAgain, Goto, tables
<1>3. CASE ensure_iptables_rule
  <2>1. UNCHANGED <<chain, copies, ipRules, existing>>
    BY <1>3 DEF ensure_iptables_rule, tables
  <2>2. Ensured(at) \/ (pc' = "append" /\ at' = at)
    BY <1>3 DEF ensure_iptables_rule, Goto
  <2> QED BY <1>1, <2>1, <2>2
<1>4. CASE AppendRule
  <2>1. /\ UNCHANGED <<chain, ipRules>>
        /\ \/ UNCHANGED copies /\ pc' = "ended" /\ at' = Restore /\ existing' = {}
           \/ /\ copies' = [copies EXCEPT ![at] = @ + 1]
              /\ Ensured(at) /\ UNCHANGED existing
    BY <1>4 DEF AppendRule, Panic, Goto
  <2>2. copies' \in [Rule -> Nat]
    BY <2>1
  <2> QED BY <1>1, <2>1, <2>2
<1>5. CASE get_eni_indexes_for_existing_ip_rules
  BY <1>5 DEF get_eni_indexes_for_existing_ip_rules, Goto, tables
<1>6. CASE insert_ip_rule
  <2>1. at \in Index
    BY <1>6 DEF insert_ip_rule, RoundInv
  <2>2. /\ UNCHANGED <<chain, copies>>
        /\ \/ UNCHANGED ipRules /\ pc' = "ended" /\ at' = Restore /\ existing' = {}
           \/ ipRules' = ipRules \cup {at} /\ NextInterface(at) /\ UNCHANGED existing
    BY <1>6 DEF insert_ip_rule, Panic, Goto
  <2> QED BY <1>1, <2>1, <2>2
<1>7. CASE ChainMade \/ Disturbed
  <2>1. CASE ChainMade \/ ChainTaken
    <3>1. NoCopies \in [Rule -> Nat]
      BY DEF NoCopies
    <3>2. /\ chain' = TRUE \/ chain' = FALSE
          /\ copies' = copies \/ copies' = NoCopies
          /\ UNCHANGED <<ipRules, pc, at, existing>>
      BY <2>1 DEF ChainMade, ChainTaken
    <3> QED BY <3>1, <3>2
  <2>2. CASE IpRuleDeleted
    BY <2>2 DEF IpRuleDeleted
  <2>3. CASE Killed
    BY <2>3 DEF Killed, Panic, Goto, tables
  <2> QED BY <1>7, <2>1, <2>2, <2>3 DEF Disturbed
<1>8. CASE UNCHANGED vars
  BY <1>8 DEF vars
<1> QED BY <1>2, <1>3, <1>4, <1>5, <1>6, <1>7, <1>8 DEF Next, Agent

-----------------------------------------------------------------------------
(* A round of the agent.                                                   *)

\* The agent goes on after an interface whose mark is dealt with.
LEMMA InterfaceKeepsRound ==
  ASSUME TypeOK, NEW k \in Index, NextInterface(k), UNCHANGED existing,
         \A i \in ipRules' : i >= k /\ i # k => i \in existing,
         ipRules' \subseteq Index,
         \A j \in Rule : copies'[j] <= 1, ~chain' => copies' = NoCopies
  PROVE  RoundInv'
<1>1. \/ pc' = "wait"
      \/ pc' = "check" /\ at' = k + 1 /\ at' \in Index
  BY RuleRange, AfterInterface
<1>2. \A i \in ipRules' : i >= k + 1 => i >= k /\ i # k
  BY RuleRange
<1> QED BY <1>1, <1>2 DEF RoundInv, NoDuplicateRules

\* The agent finds or makes rule k and goes on.
LEMMA RuleKeepsRound ==
  ASSUME TypeOK, NEW k \in Rule, Ensured(k), UNCHANGED <<ipRules, existing>>,
         k # Restore => \A i \in ipRules : i >= k => i \in existing,
         \A j \in Rule : copies'[j] <= 1, ~chain' => copies' = NoCopies
  PROVE  RoundInv'
<1>1. CASE pc' = "read"
  BY <1>1 DEF RoundInv, NoDuplicateRules
<1>2. CASE pc' = "insert" /\ at' = k /\ k \in Index \ existing
  BY <1>2, RuleRange DEF RoundInv, NoDuplicateRules
<1>3. CASE k \in existing /\ NextInterface(k)
  BY <1>3, RuleRange, InterfaceKeepsRound DEF TypeOK
<1> QED BY <1>1, <1>2, <1>3, AfterRule

LEMMA NextRound == ASSUME TypeOK, RoundInv, [Next]_vars PROVE RoundInv'
<1> USE RuleRange DEF TypeOK
<1>a. \A j \in Rule : copies[j] <= 1 /\ copies[j] \in Nat
  BY DEF RoundInv, NoDuplicateRules
<1>1. CASE wait_for_chain_to_exist \/ StartAgain
  BY <1>1 DEF wait_for_chain_to_exist, StartAgain, Goto, tables, RoundInv, NoDuplicateRules
<1>2. CASE ensure_iptables_rule
  <2>1. UNCHANGED <<chain, copies, ipRules, existing>> /\ pc = "check"
    BY <1>2 DEF ensure_iptables_rule, tables
  <2>2. CASE Ensured(at)
    BY <1>a, <2>1, <2>2, RuleKeepsRound DEF RoundInv
  <2>3. CASE pc' = "append" /\ at' = at /\ ~(chain /\ copies[at] > 0)
    <3>1. copies[at] = 0
      BY <1>a, <2>3 DEF RoundInv, NoCopies
    <3> QED BY <2>1, <2>3, <3>1 DEF RoundInv, NoDuplicateRules
  <2> QED BY <1>2, <2>2, <2>3 DEF ensure_iptables_rule, Goto
<1>3. CASE AppendRule
  <2>1. CASE ~chain
    BY <1>3, <2>1 DEF AppendRule, Panic, Goto, RoundInv, NoDuplicateRules
  <2>2. CASE chain
    <3>1. /\ copies' = [copies EXCEPT ![at] = 1]
          /\ Ensured(at) /\ UNCHANGED <<chain, ipRules, existing>>
          /\ pc = "append"
      BY <1>3, <2>2 DEF AppendRule, RoundInv
    <3>2. \A j \in Rule : copies'[j] <= 1
      BY <1>a, <3>1
    <3> QED BY <2>2, <3>1, <3>2, RuleKeepsRound DEF RoundInv
  <2> QED BY <2>1, <2>2
<1>4. CASE get_eni_indexes_for_existing_ip_rules
  BY <1>4
  DEF get_eni_indexes_for_existing_ip_rules, Goto, tables, RoundInv, NoDuplicateRules
<1>5. CASE insert_ip_rule
  <2>1. /\ at \in Index /\ at \notin ipRules
        /\ \A i \in ipRules : i >= at => i \in existing
    BY <1>5 DEF insert_ip_rule, RoundInv
  <2>2. /\ UNCHANGED <<chain, copies, existing>>
        /\ ipRules' = ipRules \cup {at} /\ NextInterface(at)
    BY <1>5, <2>1 DEF insert_ip_rule
  <2>3. ~chain => copies = NoCopies
    BY DEF RoundInv
  <2> QED BY <1>a, <2>1, <2>2, <2>3, InterfaceKeepsRound
<1>6. CASE ChainMade \/ Disturbed
  <2>1. CASE ChainMade \/ ChainTaken
    <3>1. \A k \in Rule : NoCopies[k] = 0
      BY DEF NoCopies
    <3>2. copies' = NoCopies /\ UNCHANGED <<ipRules, pc, at, existing>>
      BY <2>1 DEF ChainMade, ChainTaken, RoundInv
    <3> QED BY <3>1, <3>2 DEF RoundInv, NoDuplicateRules
  <2>2. CASE IpRuleDeleted
    BY <2>2 DEF IpRuleDeleted, RoundInv, NoDuplicateRules
  <2>3. CASE Killed
    BY <2>3 DEF Killed, Panic, Goto, tables, RoundInv, NoDuplicateRules
  <2> QED BY <1>6, <2>1, <2>2, <2>3 DEF Disturbed
<1>7. CASE UNCHANGED vars
  BY <1>7 DEF vars, RoundInv, NoDuplicateRules
<1> QED BY <1>1, <1>2, <1>3, <1>4, <1>5, <1>6, <1>7 DEF Next, Agent

\* Whatever an earlier run left.
LEMMA InitRound == Init => TypeOK /\ RoundInv
BY RuleRange
DEF Init, TypeOK, RoundInv, NoDuplicateRules, NoCopies, Restore

-----------------------------------------------------------------------------
(* Theorems.                                                               *)

\* Every variable keeps its type: the agent is never at an interface there is not.
THEOREM AgentTypeCorrect == Spec => []TypeOK
BY InitRound, NextTypes, NextRound, PTL DEF Spec

\* The inductive invariant of a round: what the agent found at its start is still
\* enough when it comes to an interface (main.rs, the loop of run).
THEOREM RoundsSafe == Spec => []RoundInv
BY InitRound, NextTypes, NextRound, PTL DEF Spec

\* For any number of interfaces the chain never has a rule twice
\* (ensure_iptables_rule).
THEOREM RulesAppendedOnce == Spec => []NoDuplicateRules
<1>1. RoundInv => NoDuplicateRules
  BY DEF RoundInv
<1> QED BY <1>1, RoundsSafe, PTL

\* For any number of interfaces the agent only ends by itself where its chain was
\* taken from under it (run, the unwraps).
THEOREM AgentEndsOnlyWithoutChain == Spec => EndsOnlyWithoutChain
<1>1. TypeOK /\ RoundInv /\ [Next]_vars => [Agent /\ pc' = "ended" => ~chain]_vars
  <2> SUFFICES ASSUME TypeOK, RoundInv, Agent, pc' = "ended", chain
               PROVE  FALSE
    OBVIOUS
  <2>1. \A k \in Rule : ~NextInterface(k) /\ ~Ensured(k)
    BY AfterInterface, AfterRule
  <2>2. at \in Rule /\ (pc = "insert" => at \notin ipRules)
    BY RuleRange DEF RoundInv, TypeOK
  <2> QED BY <2>1, <2>2
          DEF Agent, wait_for_chain_to_exist, ensure_iptables_rule, AppendRule,
              get_eni_indexes_for_existing_ip_rules, insert_ip_rule, StartAgain, Goto
<1> QED BY <1>1, AgentTypeCorrect, RoundsSafe, PTL DEF Spec, EndsOnlyWithoutChain
=============================================================================

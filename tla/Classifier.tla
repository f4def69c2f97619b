----------------------------- MODULE Classifier -----------------------------
(* What the decision tree is for: a rule list is prepared, and then a packet is given the
   priority of the first rule that matches it.                                  *)
EXTENDS Rules

CONSTANTS RuleLists,   \* the rule lists
          Packets      \* the packets that may be asked for

VARIABLES list,   \* the rule list
          st,     \* "preparing", "ready", "asked", "answered" or "aborted"
          pkt,    \* the packet asked for
          ans     \* the answer

Init ==
  /\ list \in RuleLists
  /\ st = "preparing"
  /\ pkt \in Packets
  /\ ans = HS_RULE_NOT_FOUND

(* Preparing may fail: assertions guard the tree's construction. *)
Prepare == st = "preparing" /\ st' \in {"ready", "aborted"} /\ UNCHANGED <<list, pkt, ans>>

Ask == st = "ready" /\ st' = "asked" /\ pkt' \in Packets /\ UNCHANGED <<list, ans>>

(* A packet that no rule matches may get any answer. *)
Answer ==
  /\ st = "asked" /\ st' = "answered"
  /\ lsearch(list, pkt) # HS_RULE_NOT_FOUND => ans' = lsearch(list, pkt)
  /\ UNCHANGED <<list, pkt>>

Next == Prepare \/ Ask \/ Answer

Live ==
  /\ st = "preparing" ~> st # "preparing"
  /\ st = "asked" ~> st = "answered"

Spec == Init /\ [][Next]_<<list, st, pkt, ans>> /\ Live
=============================================================================

---------------------------- MODULE MCPurchases ----------------------------
EXTENDS Purchases, FiniteSets, TLC

CONSTANTS p1, p2, r1, r2, u1, u2, s1, n1, e1, l1, l2

MCSettings == {[separate |-> TRUE, auto |-> FALSE], [separate |-> TRUE, auto |-> TRUE],
               [separate |-> FALSE, auto |-> FALSE]}
MCForms == {[supplier |-> s, number |-> n1, method |-> "CASH",
             payment |-> "PAID_AT_PURCHASE", lines |-> l1] : s \in {s1, None}}
MCScans == {[supplier |-> s1, named |-> TRUE, lines |-> l2]}
MCProposals == {[method |-> "BANK_TRANSFER", lines |-> None],
                [method |-> None, lines |-> l2]}

\* One invoice at a time is past its review.
OneReviewed == Cardinality({p \in Purchases : ~Is(p, Editable \union {"ABSENT"})}) <= 1

Symmetric == Permutations(Purchases) \union Permutations(Requests)
             \union Permutations(Users)
=============================================================================

------------------------------ MODULE MCPasskey ------------------------------
EXTENDS Passkey, TLC

\* Two requests at providers under every set-up; two ceremonies of one key,
\* whose counters advance, fall back and stay; two ceremonies of two keys
\* without counters; one request of either kind.
MCScopes ==
    LET AllOn == [hasTx |-> TRUE, linking |-> TRUE, signUp |-> TRUE] IN
    {[logins |-> Logins, ceremonies |-> {}, users |-> Users, keys |-> {}, max |-> 0,
      confs |-> Conf, rejects |-> {TRUE}]}
    \cup
    {[logins |-> {}, ceremonies |-> Ceremonies, users |-> {u}, keys |-> {k}, max |-> MaxCount,
      confs |-> {AllOn}, rejects |-> BOOLEAN] : u \in Users, k \in Keys}
    \cup
    {[logins |-> {}, ceremonies |-> Ceremonies, users |-> {u}, keys |-> Keys, max |-> 0,
      confs |-> {AllOn}, rejects |-> {TRUE}] : u \in Users}
    \cup
    {[logins |-> {r}, ceremonies |-> {c}, users |-> {u}, keys |-> Keys, max |-> 0,
      confs |-> {AllOn}, rejects |-> {TRUE}] : u \in Users, r \in Logins, c \in Ceremonies}

Symmetry ==
    UNION {Permutations(Users), Permutations(Rows), Permutations(Keys), Permutations(Logins),
           Permutations(Ceremonies)}
=============================================================================

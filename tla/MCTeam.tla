-------------------------------- MODULE MCTeam --------------------------------
(* Instances of Team for TLC. *)
EXTENDS Team, TLC

\* Requests, member rows, users and invitations are told apart by their state
\* alone.
Symmetry ==
    Permutations(Requests) \cup Permutations(Ids) \cup Permutations(Users)
        \cup Permutations(Invs)

\* The users of rows, invitations and requests.
Seen ==
    {row[i].user : i \in present} \cup {inv[i].user : i \in Invs} \cup {req[r].user : r \in Requests}

\* Bound: the whole table is explored on a serializable store, where most
\* requests are one step; elsewhere two users, two member rows and one
\* invitation, which is what two requests can collide on. A behaviour is
\* followed there up to the first write on an outdated read, after which no
\* property speaks of its member rows.
Small ==
    isolation # "serializable" =>
        /\ Cardinality(taken) <= 2
        /\ Cardinality(Seen \ {Gone}) <= 2
        /\ Cardinality({i \in Invs : inv[i].status # "none"}) <= 1
        /\ ~stale

=============================================================================

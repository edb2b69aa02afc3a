------------------------------- MODULE Stores -------------------------------
(***************************************************************************)
(* One table in four hands: what its port promises, and what SQLite,       *)
(* PostgreSQL and the in-memory store make of the same calls. Every legal  *)
(* call is made of all four at once, one call at a time, as the conformance *)
(* suite does. Concurrent callers are the subject of the service modules,  *)
(* whose store calls these are.                                            *)
(***************************************************************************)
EXTENDS StorePorts, SqliteStore, PgStore, MemStore

CONSTANT Tried  \* bound: the tables a behaviour may be about

ASSUME StoresAssumption == Tried \subseteq Tables

VARIABLES
    table,    \* the table this behaviour is about; it never changes
    now,      \* the clock of the stores and of their callers
    made,     \* ids that have named a row
    promised, \* the rows as the port promises them
    sqlite,   \* the rows in SQLite
    postgres, \* the rows in PostgreSQL
    memory    \* the maps of the in-memory store

storesVars == <<table, now, made, promised, sqlite, postgres, memory>>

StoresInit ==
    /\ table \in Tried
    /\ now = 1
    /\ made = {}
    /\ promised = {} /\ sqlite = {} /\ postgres = {}
    /\ memory = EmptyMemory

-----------------------------------------------------------------------------
Creating == {"create", "set", "ensure"}
ByOwner == {"getByPair", "getNewest", "list", "listOldestFirst", "listLive", "listLiveOldestFirst",
            "countSince", "revokeAll", "revokeAllCounting", "clear"}
ByKey == {"getByKey", "getByPair", "listByKey"}
ByNothing == {"listAll", "countAll"}

Replaceable == {t \in Tables : \E m \in DOMAIN Port[t] : Port[t][m] \in {"replace", "touch", "set"}}

\* The arguments of a call, by what the method promises. A lookup may be made
\* with a string that is no uuid, where the column is one: emails and hashes
\* are not, and creating a row with one is a caller's error.
IdArgs(p) ==
    IF p \in Creating THEN Ids
    ELSE IF p \in ByOwner \cup ByKey \cup ByNothing THEN {NoArg}
    ELSE IF table = "challenges" THEN Ids ELSE Ids \cup {NoUuid}

KeyArgs(p) ==
    IF p \in Creating THEN IF table = "members" THEN Keys \cup {NoArg} ELSE IF table \in Named THEN Keys
                           ELSE IF table \in Hashed THEN Ids ELSE {NoArg}
    ELSE IF p \notin ByKey THEN {NoArg}
    ELSE IF table = "members" THEN Keys \cup {NoUuid}
    ELSE IF table \in Named THEN Keys ELSE Ids

OwnerArgs(p) ==
    IF table \notin Owned \/ p \notin ByOwner \cup Creating THEN {NoArg}
    ELSE IF p \in Creating \/ table \in {"attempts", "emailLogin"} THEN Owners
    ELSE Owners \cup {NoUuid}

ValArgs(p) == IF p \in {"create", "set", "replace", "touch"} /\ table \in Replaceable THEN Vals ELSE {NoArg}

\* Callers take the time before they call, and an imported device brings its
\* own: rows need not be created in the order of their created_at.
BornArgs(p) == IF p = "countSince" THEN 0..now ELSE IF p \in Creating /\ table \in Dated THEN 1..now ELSE {0}

CallOf(m, id, key, owner, val, born) ==
    [method |-> m, id |-> id, key |-> key, owner |-> owner, val |-> val, born |-> born, now |-> now,
     at |-> IF table \in Stamped THEN now ELSE 1, exp |-> IF table \in Expiring THEN now + 1 ELSE 0]

\* What callers may do. An id is random and names one row ever, unless it is
\* the owner's; a hash is its row's own; no two rows of an owner are as old.
\* Two members of one user in one team are left out: the port says nothing
\* of them, the SQL stores refuse the second, the in-memory store does not.
Legal(p, c) ==
    /\ p \in Creating /\ table \notin Single => c.id \notin made
    /\ p \in Creating /\ table \in Hashed => c.key = c.id
    /\ p \in Creating /\ table = "members" =>
         ~\E r \in promised : r.owner = c.owner /\ r.key = c.key /\ c.key # NoArg
    /\ p \in Creating => ~\E r \in promised : r.owner = c.owner /\ r.born = c.born /\ table \in Dated \ Single
    /\ p = "increment" => \A r \in promised : r.id = c.id => r.hits < MaxHits

Calls ==
    UNION {LET p == Port[table][m]
           IN {c \in {CallOf(m, id, key, owner, val, born) :
                         id \in IdArgs(p), key \in KeyArgs(p), owner \in OwnerArgs(p),
                         val \in ValArgs(p), born \in BornArgs(p)} : Legal(p, c)}
           : m \in DOMAIN Port[table]}

Promised(c) == Promise(table, Port[table][c.method], promised, c)
InSqlite(c) == SqliteCall(Sqlite[table][c.method], sqlite, c)
InPostgres(c) == PgCall(Pg[table][c.method], Queries[table][c.method], postgres, c)
InMemory(c) == MemCall(Mem[table][c.method], memory, c)

\* A call that changes nothing is made of all of them by the invariants.
Make(c) ==
    /\ promised' = Promised(c).table
    /\ sqlite' = InSqlite(c).table
    /\ postgres' = InPostgres(c).table
    /\ memory' = InMemory(c).table
    /\ made' = IF table \notin Single /\ Port[table][c.method] \in Creating /\ Promised(c).answer = Done
             THEN made \cup {c.id} ELSE made
    /\ UNCHANGED <<table, now>>

Pass ==
    /\ now < MaxNow /\ table \in Dated
    /\ now' = now + 1
    /\ UNCHANGED <<table, made, promised, sqlite, postgres, memory>>

StoresNext == Pass \/ \E c \in Calls : Make(c)

StoresSpec == StoresInit /\ [][StoresNext]_storesVars

-----------------------------------------------------------------------------
\* What a caller sees of a row: its stamp, or only whether it has one.
Seen(rows) == {[r EXCEPT !.mark = IF table \in Stamped THEN @ ELSE IF @ = 0 THEN 0 ELSE 1] : r \in rows}

\* The answer is the promised one: the same error or none, rows and number,
\* and the order, where one is promised.
Agrees(answer, promise) ==
    /\ answer.code = promise.code /\ answer.n = promise.n
    /\ Seen(answer.rows) = Seen(promise.rows)
    /\ promise.sorted => answer.sorted

StoresTypeOK ==
    /\ table \in Tables /\ now \in 1..MaxNow /\ made \subseteq Ids
    /\ promised \subseteq Row /\ sqlite \subseteq Row /\ postgres \subseteq Row
    /\ {memory.rows[i] : i \in DOMAIN memory.rows} \subseteq Row

\* store/*.go and storetest: after any sequence of calls, the SQLite store
\* answers every call as the port promises. A dropped condition in a WHERE, a
\* write that overwrites a revocation or an error that is lost would show.
SqliteAnswers == \A c \in Calls : Agrees(InSqlite(c).answer, Promised(c).answer)

\* The same of the PostgreSQL store, whose errors, guards and row counts are
\* read in other ways.
PostgresAnswers == \A c \in Calls : Agrees(InPostgres(c).answer, Promised(c).answer)

\* The same of the in-memory store, which keeps its rows, its index and its
\* lists apart: a method that forgets one of them leaves an id without a row,
\* or a row nobody finds. Rows created out of the order of their created_at
\* are left out where the age of rows matters: it goes by insertion.
InOrder == \A o \in Owners : OldestFirst(memory, memory.lists[o])

MemoryAnswers ==
    \A c \in Calls :
        LET p == Port[table][c.method]
        IN \/ p \in {"getNewest", "listOldestFirst", "listLiveOldestFirst"} /\ ~InOrder
           \/ Agrees(InMemory(c).answer, Promised(c).answer)
=============================================================================

-------------------------------- MODULE Rows --------------------------------
(***************************************************************************)
(* Rows of one table, the calls a service makes on it and what a call      *)
(* answers, shared by the contract of the stores and by the three stores   *)
(* that implement it; and the relational engine the two SQL stores issue   *)
(* their statements to, in the part of SQL those statements use.           *)
(***************************************************************************)
EXTENDS Integers, FiniteSets

CONSTANTS
    Ids,    \* row ids; also the hashes that name a row, one per id
    Keys,   \* values of a unique column that a caller may repeat
    Owners, \* values of the column that rows are listed by
    Vals,   \* contents of a row that a whole-row update replaces
    MaxNow, \* bound: instants a behaviour goes through
    MaxHits, \* bound: times an attempt counter is incremented
    NoUuid, \* a string that is no uuid, passed for an id
    NoArg   \* an absent argument, a NULL column

ASSUME RowsAssumption ==
    /\ MaxNow \in Nat \ {0} /\ MaxHits \in Nat
    /\ NoArg # NoUuid /\ {NoArg, NoUuid} \cap (Ids \cup Keys \cup Owners \cup Vals) = {}

\* mark: the stamp of used_at or revoked_at, 0 when NULL. hits: attempts.
\* key: the unique column besides the id. born: created_at.
Row == [id : Ids, key : Ids \cup Keys \cup {NoArg}, owner : Owners \cup {NoArg}, val : Vals \cup {NoArg},
        mark : 0..MaxNow, exp : 0..(MaxNow + 1), hits : 0..MaxHits, born : 0..MaxNow]

\* A call carries its arguments and the clock it is made at; at and exp are
\* the stamp and the expiry it writes.
RowOf(c) == [id |-> c.id, key |-> c.key, owner |-> c.owner, val |-> c.val,
             mark |-> 0, exp |-> c.exp, hits |-> 0, born |-> c.born]

\* What a call returns: an error or none, rows, a number, and whether the
\* rows come oldest first.
Answer(code, rows, n, sorted) == [code |-> code, rows |-> rows, n |-> n, sorted |-> sorted]

Done == Answer("ok", {}, 0, FALSE)
NotFound == Answer("ErrNotFound", {}, 0, FALSE)
Conflict == Answer("ErrConflict", {}, 0, FALSE)

Found(rows) == IF rows = {} THEN NotFound ELSE Answer("ok", rows, 0, FALSE)
Listed(rows, sorted) == Answer("ok", rows, 0, sorted)
Counted(n) == Answer("ok", {}, n, FALSE)
Hit(rows) == IF rows = {} THEN NotFound ELSE Done

\* The error of a driver, which no service tells apart.
Broken == Answer("error", {}, 0, FALSE)

MalformedId(c) == NoUuid \in {c.id, c.key, c.owner}

Newest(rows) == {r \in rows : \A s \in rows : s.born <= r.born}

-----------------------------------------------------------------------------
\* A statement: what it does, the columns its WHERE compares with an argument
\* (for an INSERT, the UNIQUE constraint besides the primary key), and what
\* else the WHERE asks for.
Insert(unique) == [do |-> "insert", by |-> unique, only |-> "any"]
Select(by, only) == [do |-> "select", by |-> by, only |-> only]
Update(by, only, set) == [do |-> set, by |-> by, only |-> only]
Delete(by) == [do |-> "delete", by |-> by, only |-> "any"]

Same(r, c, by) ==
    /\ by = "id" => r.id = c.id
    /\ by \in {"key", "pair"} => r.key = c.key /\ c.key # NoArg
    /\ by \in {"owner", "pair"} => r.owner = c.owner

Where(rows, q, c) ==
    LET those == {r \in rows : /\ Same(r, c, q.by)
                               /\ q.only \in {"unmarked", "live"} => r.mark = 0
                               /\ q.only = "live" => r.exp > c.now
                               /\ q.only = "since" => r.born > c.born}
    IN IF q.only = "newest" THEN Newest(those) ELSE those

\* A plausible bug: no COALESCE, so revoking again moves the instant.
Restamps(r, set, c) == [r EXCEPT !.mark = IF set \in {"mark", "coalesce"} THEN c.at ELSE @]

\* The SET clause: the whole row but its unique columns, which no service
\* changes; used_at or revoked_at, COALESCEd or not; one more column.
Assigned(r, set, c) ==
    [r EXCEPT !.val = IF set \in {"row", "val"} THEN c.val ELSE @,
              !.mark = IF set = "mark" \/ (set = "coalesce" /\ @ = 0) THEN c.at ELSE @,
              !.exp = IF set = "exp" THEN c.exp ELSE @,
              !.hits = IF set = "hits" THEN @ + 1 ELSE @]

\* A query for one number: the counter it bumped, or how many rows there are.
Number(q, seen) ==
    IF q.do # "hits" THEN Counted(Cardinality(seen))
    ELSE IF seen = {} THEN NotFound ELSE Counted((CHOOSE r \in seen : TRUE).hits)

\* The rows an INSERT conflicts with.
Clashing(rows, q, c) == {r \in rows : r.id = c.id \/ (q.by \in {"key", "pair"} /\ Same(r, c, q.by))}

\* What a statement leaves the table, the rows it returns or affects, and
\* whether a constraint refused it.
Run(rows, q, c) ==
    LET those == Where(rows, q, c)
        clash == Clashing(rows, q, c)
        new == {Assigned(r, q.do, c) : r \in those}
    IN CASE q.do = "select" -> [table |-> rows, seen |-> those, refused |-> FALSE]
         [] q.do = "delete" -> [table |-> rows \ those, seen |-> those, refused |-> FALSE]
         [] q.do = "insert" -> [table |-> IF clash = {} THEN rows \cup {RowOf(c)} ELSE rows,
                                seen |-> {}, refused |-> clash # {}]
         [] q.do = "insert or nothing" -> [table |-> IF clash = {} THEN rows \cup {RowOf(c)} ELSE rows,
                                           seen |-> {}, refused |-> FALSE]
         [] q.do = "upsert" -> [table |-> IF clash = {} THEN rows \cup {RowOf(c)}
                                          ELSE (rows \ clash) \cup {Assigned(r, "val", c) : r \in clash},
                                seen |-> {}, refused |-> FALSE]
         [] OTHER -> [table |-> (rows \ those) \cup new, seen |-> new, refused |-> FALSE]
=============================================================================

------------------------------- MODULE Listing -------------------------------
(***************************************************************************)
(* Keyset paging: a page is cut by the value of the key the listing is     *)
(* ordered by.  A row is a record with an id and a key, and a key is a     *)
(* tuple of numbers, compared as the database compares row values.         *)
(***************************************************************************)
EXTENDS Integers, Sequences, SequencesExt

CONSTANTS DefaultLimit, MaxLimit

ASSUME ListingAssumption == DefaultLimit \in 1 .. MaxLimit /\ MaxLimit \in Nat

(* The size of a page, whatever size was asked for. *)
NormalizeLimit(limit) ==
  IF limit <= 0 THEN DefaultLimit ELSE IF limit > MaxLimit THEN MaxLimit ELSE limit

Less(k, l) ==
  \E i \in DOMAIN k : k[i] < l[i] /\ \A j \in 1 .. i - 1 : k[j] = l[j]

Precedes(order, k, l) == IF order = "desc" THEN Less(l, k) ELSE Less(k, l)

(* The cursor of a first page, and of a last one. *)
NoCursor == << >>

(* Mutant: the cursor is the row that was read to see whether there is     *)
(* another page.                                                           *)
NextCursorSkips(found, limit) ==
  IF Len(found) > limit THEN found[limit + 1].key ELSE NoCursor

(* The last row of the page, if a row beyond the page was found. *)
NextCursor(found, limit) ==
  IF Len(found) > limit THEN found[limit].key ELSE NoCursor

(* The rows in front of a row, and the row that has i - 1 of them.         *)
Ahead(order, rows, r) == {s \in rows : Precedes(order, s.key, r.key)}
Nth(order, rows, i) == CHOOSE r \in rows : Cardinality(Ahead(order, rows, r)) = i - 1

(* The rows in their order, as many as there are up to a limit. *)
Ordered(order, rows, limit) ==
  [i \in 1 .. IF Cardinality(rows) < limit THEN Cardinality(rows) ELSE limit |-> Nth(order, rows, i)]

(* A page of the rows that match, and the cursor to ask for the next.      *)
List(rows, order, cursor, limit) ==
  LET most == NormalizeLimit(limit)
      beyond == {r \in rows : cursor = NoCursor \/ Precedes(order, cursor, r.key)}
  IN [items |-> Ordered(order, beyond, most),
      next |-> NextCursor(Ordered(order, beyond, most + 1), most)]
=============================================================================

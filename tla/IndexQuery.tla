----------------------------- MODULE IndexQuery -----------------------------
(***************************************************************************)
(* Queries over a stored index: MemoryIndexStorage scans every record and  *)
(* decides in JavaScript; IDBIndexStorage serves one filter by a range of  *)
(* an IndexedDB index and decides the others, and some of the same ones,   *)
(* in JavaScript.  A query is modelled by what it says of one record.      *)
(*                                                                         *)
(* A field value carries its JavaScript type.  A string is a sequence of   *)
(* code units: 0 and 1 are digits, 2 a letter, MaxUnit is 0xFFFF.          *)
(***************************************************************************)
EXTENDS Integers, Sequences, SequencesExt, FiniteSets

CONSTANTS
  Strings,        \* strings stored and asked for
  Numbers,        \* numbers, also used as times of Date objects
  MaxUnit,        \* the largest code unit
  isoTimestamp    \* function from the strings that parse as dates to their times

VARIABLES
  record,         \* a stored record: its value at each path
  filters,        \* the query's filters
  indexed         \* _indexedFields of the store

queryVars == <<record, filters, indexed>>

Undefined == [t |-> "undefined"]
Null == [t |-> "null"]
NotANumber == [t |-> "NaN"]
Num(n) == [t |-> "number", v |-> n]
Date(n) == [t |-> "date", v |-> n]
Str(s) == [t |-> "string", v |-> s]
Bool(b) == [t |-> "boolean", v |-> b]

Values ==
  {Undefined, Null, NotANumber} \cup {Num(n) : n \in Numbers} \cup {Date(n) : n \in Numbers}
    \cup {Str(s) : s \in Strings} \cup {Bool(b) : b \in BOOLEAN}

Operators == {"eq", "neq", "gt", "gte", "lt", "lte", "prefix", "in", "contains"}

(* One filter over the values at path p, alone, before or after one on path q; *)
(* the array of an "in" filter has one element.                                *)
Other == [path |-> "q", operator |-> "eq", value |-> Num(1)]

QueryInit ==
  /\ record \in [p : Values, q : {Num(0), Num(1)}]
  /\ \E operator \in Operators, value \in Values :
       LET filter == [path |-> "p", operator |-> operator, value |-> value]
       IN  filters \in {<<filter>>, <<filter, Other>>, <<Other, filter>>}
  /\ indexed \in {{"p"}, {"q"}, {"p", "q"}}

-----------------------------------------------------------------------------
(* JavaScript's comparisons (external), and those of the two storages. *)

(* ===: two Date objects are never the same object, NaN never equals itself. *)
strictEqual(a, b) == a = b /\ a.t \notin {"date", "NaN"}

isDigits(s) == \A i \in DOMAIN s : s[i] \in {0, 1}

(* The conversion to a number: no element stands for NaN. *)
toNumber(value) ==
  CASE value.t = "number" -> {value.v}
    [] value.t = "boolean" -> {IF value.v THEN 1 ELSE 0}
    [] value.t = "string" /\ isDigits(value.v) ->
         {FoldLeft(LAMBDA n, digit : 10 * n + digit, 0, value.v)}
    [] OTHER -> {}

precedes(s, t) ==
  \/ IsStrictPrefix(s, t)
  \/ \E i \in DOMAIN s \cap DOMAIN t :
       s[i] < t[i] /\ \A j \in 1..(i - 1) : s[j] = t[j]

(* a < b on values that are not objects. *)
less(a, b) ==
  IF a.t = "string" /\ b.t = "string"
    THEN precedes(a.v, b.v)
    ELSE \E x \in toNumber(a), y \in toNumber(b) : x < y

(* a <= b; not the negation of b < a, since NaN compares with nothing. *)
lessOrEqual(a, b) ==
  IF a.t = "string" /\ b.t = "string"
    THEN ~precedes(b.v, a.v)
    ELSE \E x \in toNumber(a), y \in toNumber(b) : x <= y

normalizeForComparison(value) ==
  CASE value.t = "date" -> Num(value.v)
    [] value.t = "string" /\ value.v \in DOMAIN isoTimestamp -> Num(isoTimestamp[value.v])
    [] OTHER -> value

missing(value) == value.t \in {"undefined", "null"}

matchesFilter(fields, filter) ==
  LET value == fields[filter.path]
      nv == normalizeForComparison(value)
      nfv == normalizeForComparison(filter.value)
      comparable == ~missing(nv) /\ ~missing(nfv)
      strings == value.t = "string" /\ filter.value.t = "string"
  IN  CASE filter.operator = "eq" -> strictEqual(value, filter.value)
        [] filter.operator = "neq" -> ~strictEqual(value, filter.value)
        [] filter.operator = "gt" -> comparable /\ less(nfv, nv)
        [] filter.operator = "gte" -> comparable /\ lessOrEqual(nfv, nv)
        [] filter.operator = "lt" -> comparable /\ less(nv, nfv)
        [] filter.operator = "lte" -> comparable /\ lessOrEqual(nv, nfv)
        [] filter.operator = "prefix" -> strings /\ IsPrefix(filter.value.v, value.v)
        [] filter.operator = "in" -> value = filter.value /\ value.t # "date"
        [] filter.operator = "contains" ->
             strings /\ \E i \in 0..Len(value.v) :
                          IsPrefix(filter.value.v, SubSeq(value.v, i + 1, Len(value.v)))

(* MemoryIndexStorage.query, and IDBIndexStorage.query without an index. *)
scanned == \A i \in DOMAIN filters : matchesFilter(record, filters[i])

-----------------------------------------------------------------------------
(* IndexedDB (external): only numbers, dates and strings are keys, in this *)
(* order of types; a record whose value is no key is not in the index.     *)

keyRank == [number |-> 1, date |-> 2, string |-> 3]
isKey(value) == value.t \in DOMAIN keyRank

keyBelow(a, b) ==
  \/ keyRank[a.t] < keyRank[b.t]
  \/ a.t = b.t /\ IF a.t = "string" THEN precedes(a.v, b.v) ELSE a.v < b.v

only(value) == {key \in Values : isKey(key) /\ key = value}
lowerBound(value, open) ==
  {key \in Values : isKey(key) /\ ~keyBelow(key, value) /\ (open => key # value)}
below(keys, upper) == {key \in keys : keyBelow(key, upper)}

isIDBAcceleratable(operator, value) ==
  CASE operator = "prefix" -> value.t = "string"
    [] operator \in {"gt", "gte"} -> value.t = "number"
    [] operator = "eq" -> value.t \in {"number", "string"}
    [] OTHER -> FALSE

(* The last code unit that can be incremented is, and what follows it is cut; *)
(* <<>> stands for null.                                                      *)
lexicographicSuccessorPadded(prefix) == Append(prefix, MaxUnit)
lexicographicSuccessor(prefix) ==
  LET last == SelectLastInSeq(prefix, LAMBDA unit : unit < MaxUnit)
  IN  IF last = 0 THEN <<>> ELSE Append(SubSeq(prefix, 1, last - 1), prefix[last] + 1)

keyRange(filter) ==
  LET successor == lexicographicSuccessor(filter.value.v)
  IN  CASE filter.operator = "eq" -> only(filter.value)
        [] filter.operator = "gt" -> lowerBound(filter.value, TRUE)
        [] filter.operator = "gte" -> lowerBound(filter.value, FALSE)
        [] filter.operator = "prefix" ->
             IF successor = <<>> THEN lowerBound(filter.value, FALSE)
                                 ELSE below(lowerBound(filter.value, FALSE), Str(successor))

(* The position of the filter that an index serves, or 0; the first wins. *)
pickIDBStrategy ==
  SelectInSeq(filters, LAMBDA filter : filter.path \in indexed
                                       /\ isIDBAcceleratable(filter.operator, filter.value))

remainingFilters(picked) ==
  IF filters[picked].operator = "eq" THEN RemoveAt(filters, picked) ELSE filters

accelerated ==
  LET picked == pickIDBStrategy
      remaining == remainingFilters(picked)
  IN  IF picked = 0 THEN scanned
        ELSE /\ record[filters[picked].path] \in keyRange(filters[picked])
             /\ \A i \in DOMAIN remaining : matchesFilter(record, remaining[i])

-----------------------------------------------------------------------------
(* Sorting of the results. *)

stringOf(value) ==
  CASE value.t = "string" -> value.v
    [] value.t = "number" -> IF value.v < 10 THEN <<value.v>> ELSE <<value.v \div 10, value.v % 10>>
    [] value.t = "boolean" -> IF value.v THEN <<2, 1>> ELSE <<2, 0>>
    [] OTHER -> <<2, 2>>

(* localeCompare (external) is some total order of the strings. *)
localeCompare(s, t) == CASE s = t -> 0 [] precedes(s, t) -> -1 [] OTHER -> 1

compareValues(a, b) ==
  LET na == normalizeForComparison(a)
      nb == normalizeForComparison(b)
  IN  CASE strictEqual(na, nb) -> 0
        [] ~strictEqual(na, nb) /\ missing(na) -> -1
        [] ~missing(na) /\ missing(nb) -> 1
        [] na.t = "number" /\ nb.t = "number" /\ na # nb -> IF na.v < nb.v THEN -1 ELSE 1
        [] na.t = "boolean" /\ nb.t = "boolean" /\ na # nb -> IF nb.v THEN -1 ELSE 1
        [] OTHER -> localeCompare(stringOf(na), stringOf(nb))

(* Clauses p ascending, then q descending. *)
compareEntries(a, b) ==
  LET first == compareValues(a.p, b.p)
  IN  IF first # 0 THEN first ELSE -compareValues(a.q, b.q)

-----------------------------------------------------------------------------
(* The claim without the exception: a stored boolean is no IndexedDB key, so *)
(* an index never visits it, while a scan converts it to 0 or 1.             *)
AcceleratedAgreesAlways == accelerated <=> scanned

kind(value) == normalizeForComparison(value).t

(* "query results identical to the JS-only path": a query that an index      *)
(* serves returns nothing that a scan does not return and, as long as the    *)
(* stored value of the served field is a key or one that no comparison       *)
(* converts to a number, everything that it does.  And in columns of one     *)
(* kind, with values missing, the comparator given to Array.sort is          *)
(* consistent (swapping two entries turns the sign, "not after" is           *)
(* transitive), so that every backend returns the pages in one order.        *)
BackendsAgree ==
  LET a == record
      b == [p |-> filters[1].value, q |-> Num(0)]
      alike == {value \in Values : kind(value) = kind(a.p)} \cup {Undefined}
  IN  /\ accelerated => scanned
      /\ record.p.t # "boolean" /\ scanned => accelerated
      /\ b.p \in alike \ {Null, NotANumber} /\ a.p \notin {Null, NotANumber} =>
           /\ compareEntries(a, b) = -compareEntries(b, a)
           /\ \A v \in alike : LET c == [p |-> v, q |-> Num(1)]
                IN  compareEntries(a, b) <= 0 /\ compareEntries(b, c) <= 0 => compareEntries(a, c) <= 0
=============================================================================

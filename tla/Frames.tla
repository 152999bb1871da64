------------------------------- MODULE Frames -------------------------------
(***************************************************************************)
(* The data frame on which the churn worker builds its features            *)
(* (workers/churn-prediction/src/frame.rs): named columns, rows of cells,  *)
(* and the subset of pandas the worker needs.  A frame is                  *)
(* [ok, cols, rows]; an operation that the code answers with an error      *)
(* gives Broken, on which every other operation fails too.                 *)
(*                                                                         *)
(* A cell is <<"null">>, <<"bool", b>>, <<"num", n>>, <<"str", s>>,        *)
(* <<"dict", f>> or <<"list", S>>: integers and floats are one kind, NaN   *)
(* is the null that the code takes it for, and the strings are numbered in *)
(* their order.  A column's name is a tuple: <<base>>, or the base and     *)
(* what an encoding appends to it.                                         *)
(***************************************************************************)
EXTENDS Integers, Sequences, FiniteSets

LOCAL INSTANCE SequencesExt

CONSTANT Alphabet      \* the base names of the columns in alphabetical order

Null == <<"null">>
Bool(b) == <<"bool", b>>
Num(n) == <<"num", n>>
Str(s) == <<"str", s>>
Kind(c) == c[1]
IsNull(c) == Kind(c) = "null"
TruthNum(b) == IF b THEN 1 ELSE 0

\* The key of a cell when rows are grouped, joined or counted, ordered as the
\* code orders them: booleans, numbers, texts, nulls.
Key(c) == CASE Kind(c) = "bool" -> <<0, TruthNum(c[2])>>
            [] Kind(c) = "num"  -> <<1, c[2]>>
            [] Kind(c) = "str"  -> <<2, c[2]>>
            [] OTHER            -> <<3, 0>>

KeyBefore(k, l) == k[1] < l[1] \/ (k[1] = l[1] /\ k[2] < l[2])
SortedBy(S, Before(_, _)) ==
    [i \in 1..Cardinality(S) |-> CHOOSE x \in S : Cardinality({ y \in S : Before(y, x) }) = i - 1]
SortedKeys(S) == SortedBy(S, KeyBefore)

\* The place of a name among all names, which is where a JSON object that
\* keeps its keys in a tree lists it.
Place(n) == 100 * (CHOOSE i \in DOMAIN Alphabet : Alphabet[i] = n[1])
              + (IF Len(n) > 2 THEN n[Len(n)] ELSE 0)
InOrder(S) == SortedBy(S, LAMBDA m, n : Place(m) < Place(n))

Broken == [ok |-> FALSE, cols |-> <<>>, rows |-> <<>>]
Tuple(s) == <<>> \o s
NewFrame(cols, rows) ==
    [ok |-> TRUE, cols |-> Tuple(cols), rows |-> Tuple([i \in DOMAIN rows |-> Tuple(rows[i])])]

\* The frame of a sequence of records: the columns in the order in which the
\* records show them, nulls where a record lacks a key.
FromRecords(records) ==
    LET Add(cols, r) == cols \o InOrder(DOMAIN r \ ToSet(cols))
        cols == FoldLeft(Add, <<>>, records)
        Row(r) == [c \in DOMAIN cols |-> IF cols[c] \in DOMAIN r THEN r[cols[c]] ELSE Null]
    IN  NewFrame(cols, [i \in DOMAIN records |-> Row(records[i])])

Width(f) == Len(f.cols)
Height(f) == Len(f.rows)
Has(f, names) == f.ok /\ names \subseteq ToSet(f.cols)

\* The first column of a name: an index, of a column the frame has.
ColIndex(f, n) == CHOOSE i \in DOMAIN f.cols :
                     f.cols[i] = n /\ \A j \in 1..(i - 1) : f.cols[j] # n
ColCells(f, n) == [i \in DOMAIN f.rows |-> f.rows[i][ColIndex(f, n)]]
At(f, i, n) == f.rows[i][ColIndex(f, n)]

\* A frame reduced to the columns of the given indexes, in that order.
Pick(f, idxs) == NewFrame([c \in DOMAIN idxs |-> f.cols[idxs[c]]],
                          [i \in DOMAIN f.rows |-> [c \in DOMAIN idxs |-> f.rows[i][idxs[c]]]])
Indexes(f, Keep(_)) == SelectSeq([i \in DOMAIN f.cols |-> i], Keep)

DropCols(f, names) ==
    IF ~Has(f, names) THEN Broken
    ELSE Pick(f, Indexes(f, LAMBDA i : \A n \in names : i # ColIndex(f, n)))

SetCells(f, n, cells) ==
    NewFrame(f.cols, [i \in DOMAIN f.rows |-> [f.rows[i] EXCEPT ![ColIndex(f, n)] = cells[i]]])

AddCol(f, n, cells) ==
    CASE ~f.ok \/ Len(cells) # Height(f) -> Broken
      [] Has(f, {n}) -> SetCells(f, n, cells)
      [] OTHER -> NewFrame(Append(f.cols, n), [i \in DOMAIN f.rows |-> Append(f.rows[i], cells[i])])

RenameCol(f, old, new) == IF Has(f, {old}) THEN [f EXCEPT !.cols[ColIndex(f, old)] = new] ELSE f
RenameAll(f, names) == IF f.ok /\ Len(names) = Width(f) THEN NewFrame(names, f.rows) ELSE Broken

\* The keys of a column of JSON objects, and the cells of one of them.
DictKeys(f, n) ==
    InOrder(UNION { DOMAIN At(f, i, n)[2] : i \in { j \in DOMAIN f.rows : Kind(At(f, j, n)) = "dict" } })
DictValues(f, n, k) ==
    [i \in DOMAIN f.rows |->
        LET c == At(f, i, n)
        IN  IF Kind(c) = "dict" /\ k \in DOMAIN c[2] THEN c[2][k] ELSE Null]

\* The frame as one JSON object per row: the order of the columns is lost, and
\* of two columns of a name the last one stays.
ToJsonIndex(f) ==
    LET LastIndex(n) == CHOOSE i \in DOMAIN f.cols :
                      f.cols[i] = n /\ \A j \in DOMAIN f.cols : j > i => f.cols[j] # n
    IN  [r \in DOMAIN f.rows |-> [n \in ToSet(f.cols) |-> f.rows[r][LastIndex(n)]]]

NullCount(f, n) == Cardinality({ i \in DOMAIN f.rows : IsNull(At(f, i, n)) })
DropNaAny(f) ==
    IF f.ok THEN NewFrame(f.cols, SelectSeq(f.rows, LAMBDA r : \A i \in DOMAIN r : ~IsNull(r[i]))) ELSE f
FillNa(f, n, v) ==
    IF ~Has(f, {n}) THEN Broken
    ELSE SetCells(f, n, [i \in DOMAIN f.rows |-> IF IsNull(At(f, i, n)) THEN v ELSE At(f, i, n)])

CastColInt(f, n) ==
    IF ~Has(f, {n}) \/ \E i \in DOMAIN f.rows : Kind(At(f, i, n)) \notin {"num", "bool"} THEN Broken
    ELSE SetCells(f, n, [i \in DOMAIN f.rows |->
             LET c == At(f, i, n) IN IF Kind(c) = "bool" THEN Num(TruthNum(c[2])) ELSE c])

UniqueLenWithNull(f, n) == Cardinality({ Key(At(f, i, n)) : i \in DOMAIN f.rows })

\* What pandas infers of a column: "bool", "number" or "object".
Dtype(f, n) ==
    LET seen == { Kind(At(f, i, n)) : i \in DOMAIN f.rows }
    IN  CASE seen \cap {"str", "dict", "list"} # {} -> "object"
          [] "bool" \in seen -> IF seen = {"bool"} THEN "bool" ELSE "object"
          [] seen # {} -> "number"
          [] OTHER -> "object"
NumericCols(f) == SelectSeq(f.cols, LAMBDA n : Dtype(f, n) = "number")

\* Two frames joined on a column.  An inner join keeps the order of the left
\* frame; an outer join goes through the keys of both in order.
Merge(l, r, on, how) ==
    IF ~Has(l, {on}) \/ ~Has(r, {on}) THEN Broken
    ELSE
    LET lk(i) == Key(At(l, i, on))
        rk(j) == Key(At(r, j, on))
        keep == Indexes(r, LAMBDA i : i # ColIndex(r, on))
        Right(j) == [c \in DOMAIN keep |-> r.rows[j][keep[c]]]
        NoRight == [c \in DOMAIN keep |-> Null]
        NoLeft(j) == [c \in DOMAIN l.cols |-> IF c = ColIndex(l, on) THEN At(r, j, on) ELSE Null]
        OfL(k) == SelectSeq([i \in DOMAIN l.rows |-> i], LAMBDA i : lk(i) = k)
        OfR(k) == SelectSeq([j \in DOMAIN r.rows |-> j], LAMBDA j : rk(j) = k)
        Both(i) == LET js == OfR(lk(i)) IN [x \in DOMAIN js |-> l.rows[i] \o Right(js[x])]
        OuterOf(k) ==
            LET ls == OfL(k)
                rs == OfR(k)
            IN  CASE ls = <<>> -> [x \in DOMAIN rs |-> NoLeft(rs[x]) \o Right(rs[x])]
                  [] rs = <<>> -> [x \in DOMAIN ls |-> l.rows[ls[x]] \o NoRight]
                  [] OTHER -> FlattenSeq([x \in DOMAIN ls |-> Both(ls[x])])
        keys == SortedKeys({ lk(i) : i \in DOMAIN l.rows } \cup { rk(j) : j \in DOMAIN r.rows })
    IN  NewFrame(l.cols \o [c \in DOMAIN keep |-> r.cols[keep[c]]],
                 IF how = "inner" THEN FlattenSeq([i \in DOMAIN l.rows |-> Both(i)])
                 ELSE FlattenSeq([x \in DOMAIN keys |-> OuterOf(keys[x])]))

\* The rows of each key that is not null, the keys in order.
Groups(f, n) ==
    LET keys == SortedKeys({ Key(At(f, i, n)) : i \in { j \in DOMAIN f.rows : ~IsNull(At(f, j, n)) } })
    IN  [g \in DOMAIN keys |->
            SelectSeq([i \in DOMAIN f.rows |-> i], LAMBDA i : Key(At(f, i, n)) = keys[g])]

\* One row per group: its key, then Agg of each of the other columns.
GroupBy(f, n, vals, Agg(_, _)) ==
    LET gs == Groups(f, n)
    IN  NewFrame(<<n>> \o [c \in DOMAIN vals |-> f.cols[vals[c]]],
                 [g \in DOMAIN gs |-> <<At(f, Head(gs[g]), n)>>
                                        \o [c \in DOMAIN vals |-> Agg(gs[g], vals[c])]])
Others(f, n) == Indexes(f, LAMBDA i : i # ColIndex(f, n))

GroupBySum(f, n, val) ==
    LET Add(idxs, c) ==
            Num(FoldLeft(LAMBDA s, i : s + (IF Kind(f.rows[i][c]) = "num" THEN f.rows[i][c][2] ELSE 0), 0, idxs))
    IN  IF ~Has(f, {n, val}) THEN Broken ELSE GroupBy(f, n, <<ColIndex(f, val)>>, Add)

GroupByCount(f, n) ==
    LET Count(idxs, c) == Num(Len(SelectSeq(idxs, LAMBDA i : ~IsNull(f.rows[i][c]))))
    IN  IF ~Has(f, {n}) THEN Broken ELSE GroupBy(f, n, Others(f, n), Count)

\* The value seen most often; of several, the one seen first.
GroupByMostFrequent(f, n) ==
    LET Times(idxs, c, v) == Len(SelectSeq(idxs, LAMBDA i : Key(f.rows[i][c]) = Key(v)))
        Best(idxs, c) ==
            LET best == CHOOSE x \in DOMAIN idxs :
                    LET v == f.rows[idxs[x]][c] IN
                    \A y \in DOMAIN idxs :
                        LET w == f.rows[idxs[y]][c] IN
                        \/ Times(idxs, c, w) < Times(idxs, c, v)
                        \/ Times(idxs, c, w) = Times(idxs, c, v) /\ x <= y
            IN  f.rows[idxs[best]][c]
    IN  IF ~Has(f, {n}) THEN Broken ELSE GroupBy(f, n, Others(f, n), Best)

Select(f, names) ==
    IF ~Has(f, ToSet(names)) THEN Broken ELSE Pick(f, [c \in DOMAIN names |-> ColIndex(f, names[c])])

\* A row as the vector that a model scores: what is no number is missing.
NotANumber == -1000000
AsNumber(c) == CASE Kind(c) = "num"  -> c[2]
                 [] Kind(c) = "bool" -> TruthNum(c[2])
                 [] OTHER            -> NotANumber
RowAsNumbers(f, i, names) == [c \in DOMAIN names |-> AsNumber(At(f, i, names[c]))]
=============================================================================

------------------------- MODULE MCConversionSession -------------------------
(***************************************************************************)
(* Instances of ConversionSession.  Values are "d" (the default value of   *)
(* the dictionary's type), "x" and "y".  The header reads two leaves of    *)
(* the nested table n (n.a, n.b), a top-level column a, a column u of a    *)
(* type with no reader, and a column m no table has: every branch of the   *)
(* resolution.  A table holds a non-empty subset of a (dictionary), n      *)
(* (struct with one dictionary field, named a or b) and u, all of          *)
(* 1..MaxRows rows, a dictionary column in one chunk or in chunks of one   *)
(* row each.                                                               *)
(***************************************************************************)
EXTENDS ConversionSession

MCHeader ==
  << [name |-> "n.a", table |-> "n", leaf |-> "a"],
     [name |-> "a", table |-> "a", leaf |-> ""],
     [name |-> "n.b", table |-> "n", leaf |-> "b"],
     [name |-> "u", table |-> "u", leaf |-> ""],
     [name |-> "m", table |-> "m", leaf |-> ""] >>

MCDictNames == {"a", "b"}
MCDefault == "d"
MCGarbage == "garbage"
MCNull == "null"
MCMaxRows == 2

\* The dictionaries of a run: every one starts with the default value, as
\* ClickHouse writes them, and all columns share it.
SharedDictionary == {<<"d", "x">>}
\* Dictionaries of one and of three values: a later row group's
\* dictionary may be longer than the first one's.
GrowingDictionaries == {<<"d">>, <<"d", "x", "y">>}
\* Dictionaries that differ between chunks, tables and columns.
VariedDictionaries == {<<"d", "x">>, <<"d", "y">>}
\* Chunk lengths of a column of r rows: one chunk, one row per chunk, or
\* either.
OneChunk(r) == {<<r>>}
RowPerChunk(r) == {[i \in 1..r |-> 1]}
AnyChunks(r) == OneChunk(r) \cup RowPerChunk(r)

DictChunks(D, len) ==
  UNION {{[dictionary |-> d, indices |-> ix] : ix \in [1..len -> 0..Len(d) - 1]} : d \in D}

\* Chunk sequences of a split: chunk i holds sp[i] rows.
ChunkSeqs(D, sp) ==
  {c \in [1..Len(sp) -> UNION {DictChunks(D, l) : l \in 1..MCMaxRows}] :
     \A i \in 1..Len(sp) : Len(c[i].indices) = sp[i]}

DictColumns(D, r, Splits(_)) ==
  {[type |-> "dictionary", value_supported |-> vs, length |-> r, chunks |-> cs] :
     vs \in BOOLEAN, cs \in UNION {ChunkSeqs(D, sp) : sp \in Splits(r)}}

StructColumns(D, r, Splits(_)) ==
  {[type |-> "struct", length |-> r, fields |-> <<[name |-> f, column |-> c]>>] :
     f \in {"a", "b"}, c \in DictColumns(D, r, Splits)}

UnsupportedColumn(r) == [type |-> "unsupported", length |-> r]

\* Tables of r rows over a non-empty subset of the columns Names.
TablesOf(D, Names, Splits(_)) ==
  UNION {{Restrict(pick, S) :
            pick \in [a : DictColumns(D, r, Splits), n : StructColumns(D, r, Splits),
                      u : {UnsupportedColumn(r)}],
            S \in SUBSET Names \ {{}}}
         : r \in 1..MCMaxRows}

\* Every input, with one shared dictionary.
MCSharedTables == TablesOf(SharedDictionary, {"a", "n", "u"}, AnyChunks)
\* One dictionary column in one chunk; its dictionary may grow between
\* tables.
MCGrowingTables == TablesOf(GrowingDictionaries, {"a"}, OneChunk)
=============================================================================

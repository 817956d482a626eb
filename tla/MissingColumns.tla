---------------------------- MODULE MissingColumns ----------------------------
(***************************************************************************)
(* OptimizedArrowColumnToCHColumn::getMissingColumns and                   *)
(* arrowSchemaToCHHeader: the dry run of the column resolution against a   *)
(* header derived from the table's schema, beside the conversions of       *)
(* ConversionSession on the same converter.  getMissingColumns is const:   *)
(* it changes no state, so it is an operator of the table whose schema it  *)
(* is given.                                                               *)
(***************************************************************************)
EXTENDS ConversionSession

\* The empty array arrowSchemaToCHHeader builds for a field: one chunk with
\* no rows (for a dictionary, an empty dictionary and no indices).
RECURSIVE EmptyColumn(_)
EmptyColumn(col) ==
  CASE col.type = "dictionary" ->
         [col EXCEPT !.length = 0, !.chunks = <<[dictionary |-> <<>>, indices |-> <<>>]>>]
    [] col.type = "struct" ->
         [col EXCEPT !.length = 0,
                     !.fields = [i \in DOMAIN col.fields |->
                                   [col.fields[i] EXCEPT !.column = EmptyColumn(@)]]]
    [] OTHER -> [col EXCEPT !.length = 0]

\* arrowSchemaToCHHeader: every field of the schema is converted, each with
\* a dictionary map of its own; the first failure is raised.
SchemaHeaderError(t) ==
  IF \E n \in DOMAIN t :
       ReadColumn(n, EmptyColumn(t[n]), [d \in DictNames |-> NoEntry]).error # "none"
  THEN "UNKNOWN_TYPE" ELSE "none"

\* Variant testing only that the nested table is in the schema, not the
\* import_nested flag.
GetMissingColumnsAnyNested(t) ==
  LET nested(h) == h.table \in DOMAIN t /\ HasLeaf(t[h.table], h.leaf)
      missing == {i \in 1..Len(Header) :
                    Header[i].name \notin DOMAIN t /\ ~nested(Header[i])}
  IN CASE SchemaHeaderError(t) # "none" -> [error |-> SchemaHeaderError(t), missing |-> {}]
       [] missing # {} /\ ~allow_missing_columns -> [error |-> "THERE_IS_NO_COLUMN", missing |-> {}]
       [] OTHER -> [error |-> "none", missing |-> missing]

\* getMissingColumns: the header derived from the schema, then per header
\* column: present; else a leaf the nested-table extractor finds (when
\* import_nested); else THERE_IS_NO_COLUMN under the strict policy or the
\* position reported missing.
GetMissingColumns(t) ==
  LET nested(h) == import_nested /\ h.table \in DOMAIN t /\ HasLeaf(t[h.table], h.leaf)
      missing == {i \in 1..Len(Header) :
                    Header[i].name \notin DOMAIN t /\ ~nested(Header[i])}
  IN CASE SchemaHeaderError(t) # "none" -> [error |-> SchemaHeaderError(t), missing |-> {}]
       [] missing # {} /\ ~allow_missing_columns -> [error |-> "THERE_IS_NO_COLUMN", missing |-> {}]
       [] OTHER -> [error |-> "none", missing |-> missing]

-----------------------------------------------------------------------------
\* The dry run agrees with the conversion (spec: it "runs the same
\* resolution logic in dry-run form"): whenever arrowColumnsToCHChunk has
\* returned a chunk for a table, getMissingColumns on that table's schema
\* succeeds and reports exactly the header positions the conversion filled
\* with default values.
MissingColumnsAgree ==
  result = "ok" => GetMissingColumns(table) = [error |-> "none", missing |-> filled]

=============================================================================

--------------------------- MODULE MCMissingColumns ---------------------------
(***************************************************************************)
(* The converter of MCConversionSession, with getMissingColumns asked on   *)
(* the schema of each table it converts.                                   *)
(***************************************************************************)
EXTENDS MissingColumns, MCConversionSession

\* Every dictionary in the column has a value type with a reader.
ValuesSupported(col) ==
  CASE col.type = "dictionary" -> col.value_supported
    [] col.type = "struct" -> \A i \in DOMAIN col.fields : col.fields[i].column.value_supported
    [] OTHER -> FALSE

\* Tables whose every column has a reader, over dictionaries that differ
\* between chunks, tables and columns.
MCSupportedTables ==
  {t \in TablesOf(VariedDictionaries, {"a", "n"}, AnyChunks) :
     \A n \in DOMAIN t : ValuesSupported(t[n])}
=============================================================================

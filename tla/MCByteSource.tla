----------------------------- MODULE MCByteSource -----------------------------
EXTENDS ByteSource

\* Two byte values tell a reordering apart; four bytes over a two-byte
\* buffer need two full buffers, three a full and a partial one.
MCBytes == {"x", "y"}
MCMaxLen == 4
MCCapacity == 2

\* Java's InputStream returns -1 at the end; 0 is the other count nextImpl
\* treats as the end.
MCJavaEndCounts == {-1, 0}

=============================================================================

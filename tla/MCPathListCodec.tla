--------------------------- MODULE MCPathListCodec ---------------------------
EXTENDS PathListCodec

\* Backup-set, piece and log directories as a restore job gives them: each
\* at least as long as a descriptor's text, one a prefix of the other.
MCDir == <<"/", "a", "/", "b", "/", "c", "/", "d">>
MCPaths == {MCDir, MCDir \o <<"/", "e">>}

\* Adds a one-letter path, shorter than its descriptor's text.
MCShortPaths == MCPaths \cup {<<"a">>}

MCSetIds == {1, 12}
MCDescTypes == {"FULL", "INC"}
MCMaxItems == 2

\* As text a pair fits unless both are the longer directory; serialized,
\* one shorter directory fills exactly half of it, a longer one overflows.
MCMaxText == 20
=============================================================================

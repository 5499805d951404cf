--------------------------- MODULE MC_PrintFormat ---------------------------
EXTENDS PrintFormat

MCWidths == {-1, 3}
MCPrecisions == {-1, 0, 2}
MCTexts == {<< >>, <<"s">>, <<"s", "x", "s", "q">>}
=============================================================================

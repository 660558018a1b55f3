--------------------------- MODULE MCHistoryPlayback ---------------------------
EXTENDS HistoryPlayback
================================================================================

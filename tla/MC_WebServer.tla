----------------------------- MODULE MC_WebServer -----------------------------
\* The instance of the web server: a content that looks like a delimiter,
\* again and again.
EXTENDS WebServerProps

Boundary == <<"x", "y">>
SampleContents == {<<"r", "n", "-", "-", "x", "r", "r", "n", "-", "r", "n">>}
================================================================================

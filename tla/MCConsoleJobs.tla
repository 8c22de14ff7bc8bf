--------------------------- MODULE MCConsoleJobs ---------------------------
(* Two clicks on either console, and a browser that may leave and come back *)
(* at any time.  Streams share nothing they write, so one stands for all.   *)
EXTENDS ConsoleJobs

CONSTANTS j1, j2, s1

MCJobs == {j1, j2}
MCStreams == {s1}
MCMaxLines == 2
=============================================================================

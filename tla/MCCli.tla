------------------------------- MODULE MCCli -------------------------------
(***************************************************************************)
(* Two domains, the second of which continues the name of the first, a     *)
(* file name for --filename, and command lines that between them use every *)
(* flag the control flow depends on.                                       *)
(***************************************************************************)
EXTENDS Cli

MCDomain == {"example", "example.com"}
MCBase == MCDomain \cup {"name"}
MCSanitizedDomain == [d \in MCDomain |-> d]
MCContinues == [d \in MCDomain |-> IF d = "example" THEN {"example.com"} ELSE {}]

MCHoursLeft == {-3, -1, 1, 2, 4}

Line(op, domains) ==
  [op |-> op, domains |-> domains, csr |-> FALSE, commonName |-> TRUE, pem |-> FALSE,
   filename |-> {}, hook |-> FALSE, reuseKey |-> FALSE, days |-> 0, keep |-> FALSE,
   acceptTos |-> TRUE, challenge |-> TRUE, eab |-> "given"]
a == "example"
b == "example.com"
MCCommands ==
  {[Line("run", <<a>>) EXCEPT !.hook = TRUE],
   [Line("run", <<a, b>>) EXCEPT !.pem = TRUE, !.acceptTos = FALSE],
   Line("run", <<b>>),
   [Line("run", <<b>>) EXCEPT !.filename = {"name"}],
   [Line("run", <<a>>) EXCEPT !.csr = TRUE],
   [Line("run", <<b>>) EXCEPT !.csr = TRUE, !.commonName = FALSE, !.pem = TRUE],
   [Line("run", <<a>>) EXCEPT !.challenge = FALSE],
   [Line("run", <<a>>) EXCEPT !.eab = "none"],
   [Line("run", <<a>>) EXCEPT !.eab = "incomplete"],
   [Line("renew", <<a, b, b>>) EXCEPT !.days = 1, !.pem = TRUE],
   [Line("renew", <<a>>) EXCEPT !.reuseKey = TRUE, !.hook = TRUE],
   [Line("renew", <<b>>) EXCEPT !.days = -1, !.filename = {"name"}],
   [Line("renew", <<a>>) EXCEPT !.csr = TRUE, !.days = -1],
   [Line("renew", <<b>>) EXCEPT !.csr = TRUE, !.commonName = FALSE],
   Line("revoke", <<a>>),
   Line("revoke", <<b, a>>),
   [Line("revoke", <<b, a>>) EXCEPT !.keep = TRUE]}
=============================================================================

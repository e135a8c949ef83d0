------------------------------ MODULE DnsTable ------------------------------
(***************************************************************************)
(* The table of names of the DNS server: load_dns_server_data reads it     *)
(* from a file, line by line, before the server starts.                    *)
(*                                                                         *)
(* A line is an address, a name, and what comes behind the name: the end   *)
(* of the line, the end of the file, or a space and more.  A name is the   *)
(* row of its parts between dots.                                          *)
(***************************************************************************)
EXTENDS Naturals, Sequences

CONSTANTS
  Files,       \* the files the server may be started with
  Addresses,   \* what may be in them
  FirstSize    \* how many records runner.c makes room for

VARIABLES
  main,        \* the process: "load", "serve", or "dead" when it was killed
  file,        \* the file at PATH
  lineNo,      \* how many lines getline has returned
  table,       \* dns_resource_records: the records set so far, n_lines of them
  size         \* dns_resource_records_size

tableVars == <<main, file, lineNo, table, size>>

NoName == <<>>
Line(ip, name, after) == [ip |-> ip, name |-> name, after |-> after]
Blank == Line(0, NoName, "newline")
Lines == [ip : Addresses \cup {0}, name : Seq(STRING), after : {"newline", "eof", "more"}]

ASSUME DnsTableAssumption ==
  /\ Files \subseteq Seq(Lines)
  /\ FirstSize \in Nat \ {0}

TableInit ==
  /\ main = "load"
  /\ file \in Files
  /\ lineNo = 0
  /\ table = <<>>
  /\ size = FirstSize

\* The name without its last character: no name anybody asks for.
Cut(name) == Append(name, "cut")

\* strtok ends the name at a space or the end of the line, and its last
\* character is overwritten: the newline, unless none is there.
Domain(line) == IF line.after = "newline" THEN line.name ELSE Cut(line.name)

\* Mutant: room is made one record too late.
SizeLate(n) == IF n = size + 1 THEN 2 * n ELSE size

\* The room there is for record n + 1: doubled when n fill it.
SizeFor(n) == IF n = size THEN 2 * n ELSE size

NextLine == file[lineNo + 1]

SkipBlank ==
  /\ main = "load" /\ lineNo < Len(file)
  /\ NextLine = Blank
  /\ lineNo' = lineNo + 1
  /\ UNCHANGED <<main, file, table, size>>

LoadLine ==
  /\ main = "load" /\ lineNo < Len(file)
  /\ NextLine # Blank /\ NextLine.name # NoName
  /\ lineNo' = lineNo + 1
  /\ size' = SizeFor(Len(table))
  /\ table' = Append(table, [name |-> Domain(NextLine), ip |-> NextLine.ip])
  /\ UNCHANGED <<main, file>>

\* A line of one word: strlen(NULL), before domain_name is compared with NULL.
LoadNoName ==
  /\ main = "load" /\ lineNo < Len(file)
  /\ NextLine # Blank /\ NextLine.name = NoName
  /\ main' = "dead"
  /\ UNCHANGED <<file, lineNo, table, size>>

\* The end of the file; the socket is bound and the threads are started.
Loaded ==
  /\ main = "load" /\ lineNo = Len(file)
  /\ size' = Len(table)
  /\ main' = "serve"
  /\ UNCHANGED <<file, lineNo, table>>

Load == SkipBlank \/ LoadLine \/ LoadNoName \/ Loaded

-----------------------------------------------------------------------------
\* The records of a file by the number of their line: of the lines that end
\* the way the loader expects.
Entries(lines) ==
  [n \in {i \in DOMAIN lines : lines[i] # Blank /\ lines[i].after = "newline"}
     |-> [name |-> lines[n].name, ip |-> lines[n].ip]]

\* Every record is written into memory that was allocated for it, however
\* often the table had to grow (load_dns_server_data).
TableFits == Len(table) <= size
=============================================================================

----------------------------- MODULE RequestLine -----------------------------
(***************************************************************************)
(* The request line parser of the proxy, as the handler threads run it     *)
(* side by side: get_line copies the first line of what was received, if   *)
(* all of it was, and seven calls of strtok cut it up.  strtok remembers   *)
(* where it stopped in one static variable, which all threads share.       *)
(*                                                                         *)
(* A line is a row of symbols: words, the characters " ", "/" and ":", and *)
(* the NUL that ends it or that strtok wrote.  A pointer is the thread     *)
(* whose line it points into, and a position.                              *)
(***************************************************************************)
EXTENDS Integers, Sequences, FiniteSetsExt

CONSTANTS
  Threads,     \* the handler threads, each with one request
  Requests,    \* the requests they may get, in parts: see Parts
  Hosts,       \* words that are host names
  Overlap      \* whether two threads may be in the parser at a time

ASSUME RequestLineAssumption == Overlap \in BOOLEAN

Known == {"GET", "CONNECT"}     \* two of the names of http_request_method
Null == <<>>

\* The characters.
NUL == "NUL"
SP == "SP"
COLON == "COLON"
SLASH == "SLASH"
CRLF == "CRLF"                  \* "\r\n", the end of a line on the wire

\* A word is cut up nowhere: a host name holds none of the characters.
ASSUME HostsAssumption == Hosts \cap {SP, SLASH, COLON, NUL, CRLF} = {}

None == "none"                  \* a part that a request does not have

\* A request before it is written down.  The scheme, the port and the path may
\* be missing.  If it is not whole, what init_bridge received is a beginning of
\* it, in which the line does not end.
Parts == [method : Known \cup {"PATCH"}, scheme : {None, "http", "https"},
          host : Hosts, port : {None, "8080"}, path : {None, "word"},
          whole : BOOLEAN]

ASSUME RequestsAssumption == Requests \subseteq Parts

Url(scheme) == IF scheme = None THEN <<>> ELSE <<scheme, COLON, SLASH, SLASH>>

FirstLine(r) ==
  <<r.method, SP>> \o Url(r.scheme) \o <<r.host>>
    \o (IF r.port = None THEN <<>> ELSE <<COLON, r.port>>)
    \o (IF r.path = None THEN <<>> ELSE <<SLASH, r.path>>)
    \o <<SP, "HTTP">>

\* What is in the buffer; behind it the buffer is as calloc made it.
Received(r) == FirstLine(r) \o (IF r.whole THEN <<CRLF>> ELSE <<>>)

\* The symbols of a line.
Symbols == Hosts \cup Known
  \cup {"PATCH", "http", "https", "8080", "word", "HTTP", SP, SLASH, COLON, NUL}

VARIABLES
  request,     \* the request of each thread
  line,        \* request_line: the copy that the thread cuts up, at first none
  hr,          \* httpRequest: what init_bridge reads of it
  olds,        \* the static variable of strtok
  pc,          \* 0: not yet in the parser; 1..7: at the call of that number;
               \* 8: behind the calls; 9: returned
  arg,         \* the pointer a call works on, Null before it has one
  token,       \* what each of the calls returned
  ret,         \* the value parse_request_line returned
  crashed      \* a null pointer was read

vars == <<request, line, hr, olds, pc, arg, token, ret, crashed>>

Calls == 1..7

\* What each of the seven calls is for.
Method == 1
Uri == 2
Version == 3
Host == 4
Path == 5
HostPart == 6
Port == 7

\* A pointer that is not null points into a line.
Pointers == {Null} \cup UNION {{t} \X DOMAIN line[t] : t \in Threads}

UnknownMethod == "UNKNOWN_METHOD"
HttpRequestInit == [method |-> UnknownMethod, host |-> Null, port |-> 0]

TypeOK ==
  /\ request \in [Threads -> Requests]
  /\ line \in [Threads -> Seq(Symbols)]
  /\ hr \in [Threads -> [method : Known \cup {UnknownMethod},
                          host : Pointers, port : {0, 80, 8080}]]
  /\ olds \in Pointers
  /\ pc \in [Threads -> 0..9]
  /\ arg \in [Threads -> Pointers]
  /\ token \in [Threads -> [Calls -> Pointers]]
  /\ ret \in [Threads -> {-1, 0, 1}]
  /\ crashed \in BOOLEAN

Init ==
  /\ request \in [Threads -> Requests]
  /\ line = [t \in Threads |-> <<>>]
  /\ hr = [t \in Threads |-> HttpRequestInit]
  /\ olds = Null
  /\ pc = [t \in Threads |-> 0]
  /\ arg = [t \in Threads |-> Null]
  /\ token = [t \in Threads |-> [i \in Calls |-> Null]]
  /\ ret = [t \in Threads |-> 0]
  /\ crashed = FALSE

-----------------------------------------------------------------------------
(* C strings, from a pointer to the next NUL.                              *)

At(p) == line[p[1]][p[2]]

\* The first position from p on whose symbol is in S (or is not).
FirstIn(p, S) ==
  Min({i \in DOMAIN line[p[1]] : i >= p[2] /\ line[p[1]][i] \in S})
FirstNotIn(p, S) ==
  Min({i \in DOMAIN line[p[1]] : i >= p[2] /\ line[p[1]][i] \notin S})

StringAt(p) == SubSeq(line[p[1]], p[2], FirstIn(p, {NUL}) - 1)

\* strstr(p, scheme "://") != NULL
Holds(p, scheme) ==
  \E i \in 0..Len(StringAt(p)) - 4 : SubSeq(StringAt(p), i + 1, i + 4) = Url(scheme)

\* p + 7 or p + 8, the length of the scheme and "://".
Skip(p, scheme) == <<p[1], p[2] + Len(Url(scheme))>>

-----------------------------------------------------------------------------
(* strtok, which is not under src/: it loads the pointer, later stores it. *)

\* Mutant: the uri is not ended at the space behind it.
UriToTheEnd(i) ==
  CASE i = Method -> {SP} [] i \in Uri..Path -> {SLASH} [] i >= HostPart -> {COLON}

Delimiters(i) == CASE i <= Version -> {SP} [] i \in {Host, Path} -> {SLASH}
                   [] i >= HostPart -> {COLON}

\* The token of the i-th call of t, and what the call leaves behind.
Strtok(t, i) ==
  LET p     == arg[t]
      start == FirstNotIn(p, Delimiters(i))
      end   == FirstIn(<<p[1], start>>, Delimiters(i) \cup {NUL})
  IN  IF line[p[1]][start] = NUL
        THEN [token |-> Null, olds |-> <<p[1], start>>, line |-> line]
        ELSE [token |-> <<p[1], start>>,
              olds |-> <<p[1], IF line[p[1]][end] = NUL THEN end ELSE end + 1>>,
              line |-> [line EXCEPT ![p[1]][end] = NUL]]

-----------------------------------------------------------------------------
(* parse_request_line.                                                     *)

Inside(t) == pc[t] \in 1..8

Eof == <<>>                     \* no line, not even an empty one

\* The first line, without its end and with a NUL behind it.
GetLine(buffer) ==
  LET ends == {i \in DOMAIN buffer : buffer[i] = CRLF}
  IN  IF ends = {} THEN Eof ELSE SubSeq(buffer, 1, Min(ends) - 1) \o <<NUL>>

\* The request line is never there already (http_request_line_is_valid), as
\* handle_connection has just set httpRequest.  Without an end of the line the
\* parser returns -1.
Enter(t) ==
  /\ pc[t] = 0
  /\ ~Overlap => \A u \in Threads : ~Inside(u)
  /\ line' = [line EXCEPT ![t] = GetLine(Received(request[t]))]
  /\ IF line'[t] = Eof
       THEN pc' = [pc EXCEPT ![t] = 9] /\ ret' = [ret EXCEPT ![t] = -1]
       ELSE pc' = [pc EXCEPT ![t] = Method] /\ UNCHANGED ret
  /\ UNCHANGED <<request, hr, olds, arg, token, crashed>>

\* Mutant: a scheme is skipped where there is none.
SkipAnyway(p) == Skip(p, "http")

\* "if http:// exist in uri, remove it", and https:// after that: the first 7
\* or 8 characters, wherever the scheme is: here it stands in front.
WithoutScheme(p) ==
  LET q == IF Holds(p, "http") THEN Skip(p, "http") ELSE p
  IN  IF Holds(q, "https") THEN Skip(q, "https") ELSE q

\* Mutant: strtok(NULL, COLON) in the place of strtok(host, COLON).
PortOfRest(t, i) ==
  CASE i = Method -> <<t, 1>>
    [] i = Host -> WithoutScheme(token[t][Uri])
    [] OTHER -> Null

\* The first argument of each call: the line, the uri, the host; NULL for the
\* others, which go on where the last call stopped.
Argument(t, i) ==
  CASE i = Method -> <<t, 1>>
    [] i = Host -> WithoutScheme(token[t][Uri])
    [] i = HostPart -> token[t][Host]
    [] OTHER -> Null

\* strtok takes its argument, or the pointer that was stored last.
Call(t) ==
  /\ pc[t] \in Calls
  /\ arg[t] = Null
  /\ LET given == Argument(t, pc[t])
     IN  arg' = [arg EXCEPT ![t] = IF given = Null THEN olds ELSE given]
  /\ UNCHANGED <<request, line, hr, olds, pc, token, ret, crashed>>

IsKnown(p) == StringAt(p) \in {<<m>> : m \in Known}

\* What comes behind call i.  After the third the method is resolved, and the
\* parser returns 1 if it has no such name.
Behind(t, i) ==
  \/ /\ i # Version
     /\ pc' = [pc EXCEPT ![t] = i + 1]
     /\ UNCHANGED <<hr, ret>>
  \/ /\ i = Version /\ IsKnown(token[t][Method])
     /\ pc' = [pc EXCEPT ![t] = i + 1]
     /\ hr' = [hr EXCEPT ![t].method = StringAt(token[t][Method])[1]]
     /\ UNCHANGED ret
  \/ /\ i = Version /\ ~IsKnown(token[t][Method])
     /\ pc' = [pc EXCEPT ![t] = 9]
     /\ ret' = [ret EXCEPT ![t] = 1]
     /\ UNCHANGED hr

\* strcmp(NULL, ..), and strstr(NULL, ..) if the method has a name.
ReadsNull(t, i) ==
  /\ i = Version
  /\ \/ token[t][Method] = Null
     \/ IsKnown(token[t][Method]) /\ token[t][Uri] = Null

\* strtok stores where it stopped and returns its token.
Return(t) ==
  /\ pc[t] \in Calls
  /\ arg[t] # Null
  /\ LET i == pc[t]
         s == Strtok(t, i)
     IN  /\ line' = s.line
         /\ olds' = s.olds
         /\ token' = [token EXCEPT ![t][i] = s.token]
         /\ IF ReadsNull(t, i)
              THEN crashed' = TRUE /\ UNCHANGED <<hr, pc, ret>>
              ELSE Behind(t, i) /\ UNCHANGED crashed
  /\ arg' = [arg EXCEPT ![t] = Null]
  /\ UNCHANGED request

\* atoi: a string that begins with no digit is 0; no other word begins with one.
Atoi(string) == IF string # <<>> /\ string[1] = "8080" THEN 8080 ELSE 0

\* host and port are stored, and the version is read: return 0.
Resolve(t) ==
  /\ pc[t] = 8
  /\ LET port == IF token[t][Port] = Null THEN 80 ELSE Atoi(StringAt(token[t][Port]))
     IN  hr' = [hr EXCEPT ![t] = [@ EXCEPT !.host = token[t][Host], !.port = port]]
  /\ IF token[t][Version] = Null
       THEN crashed' = TRUE /\ UNCHANGED pc
       ELSE pc' = [pc EXCEPT ![t] = 9] /\ UNCHANGED crashed
  /\ UNCHANGED <<request, line, olds, arg, token, ret>>

Next ==
  /\ ~crashed
  /\ \E t \in Threads : Enter(t) \/ Call(t) \/ Return(t) \/ Resolve(t)

Spec == Init /\ [][Next]_vars

-----------------------------------------------------------------------------
(* Properties                                                              *)

\* What init_bridge is to get of a request.
IsRequested(h, r) ==
  /\ h.method = r.method
  /\ h.host # Null /\ StringAt(h.host) = <<r.host>>
  /\ h.port = IF r.port = None THEN 80 ELSE 8080

\* connection_handler.h:21, "The handler proxy the traffic to packet
\* destination": the host, the port and the method that init_bridge reads are
\* those of the request the thread received.  Only a request of which the line
\* was not all there, or whose method has no name, is refused, and nothing of
\* it is stored: init_bridge goes on whatever the parser returns.
DestinationIsRequested ==
  \A t \in Threads : pc[t] = 9 =>
    /\ ret[t] = 0 <=> request[t].whole /\ request[t].method \in Known
    /\ IF ret[t] = 0 THEN IsRequested(hr[t], request[t]) ELSE hr[t] = HttpRequestInit

\* No thread reads a null pointer in a request line that has all its parts,
\* which would end the proxy for every connection.
NoCrash == ~crashed
=============================================================================

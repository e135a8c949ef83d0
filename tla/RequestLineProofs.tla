-------------------------- MODULE RequestLineProofs --------------------------
(***************************************************************************)
(* Proofs about RequestLine, for any number of handler threads and any     *)
(* requests.                                                               *)
(*                                                                         *)
(* However the threads interleave, every pointer points into a line that   *)
(* ends with a NUL (TypeInv): strtok never runs out of one, although a     *)
(* thread may cut up the line of another.  So TypeOK follows, in which the *)
(* pointers are bounded by the lengths of the lines.                       *)
(*                                                                         *)
(* That the destination is the requested one holds when the threads go     *)
(* through the parser in turn, and is not inductive.  The invariant TurnInv *)
(* says of each thread how far it has come: which symbols of its line the  *)
(* calls so far have overwritten (Symbol), what they returned, what was    *)
(* stored of it (Stores) or why nothing was (Accepts), and, of the thread  *)
(* inside, where strtok stopped (Rest).  Where the parts of a line are     *)
(* follows from the request: Front, Slash and Blank.  That thread is       *)
(* alone, so what strtok goes on with is its own.                          *)
(***************************************************************************)
EXTENDS RequestLine, Minimum, SequenceTheorems

-----------------------------------------------------------------------------
(* Where the parts of a line are.                                          *)

\* The host, what is behind the authority, and what is behind the uri.
Front(r) == IF r.scheme = None THEN 3 ELSE 7
Slash(r) == IF r.port = None THEN Front(r) + 1 ELSE Front(r) + 3
Blank(r) == IF r.path = None THEN Slash(r) ELSE Slash(r) + 2

LEMMA PlacesAre ==
  ASSUME NEW r \in Parts
  PROVE  /\ Front(r) \in {3, 7}
         /\ Slash(r) \in Nat /\ Blank(r) \in Nat
         /\ Front(r) < Slash(r) /\ Slash(r) <= Blank(r)
         /\ r.scheme = None => Front(r) = 3
         /\ r.scheme # None => Front(r) = 7
         /\ r.port = None => Slash(r) = Front(r) + 1
         /\ r.port # None => Slash(r) = Front(r) + 3
         /\ r.path = None => Blank(r) = Slash(r)
         /\ r.path # None => Blank(r) = Slash(r) + 2
BY DEF Front, Slash, Blank

LEMMA PartsAre ==
  ASSUME NEW r \in Parts
  PROVE  /\ r.method \in Known \cup {"PATCH"} /\ r.scheme \in {None, "http", "https"}
         /\ r.host \in Hosts /\ r.port \in {None, "8080"} /\ r.path \in {None, "word"}
         /\ r.whole \in BOOLEAN
BY DEF Parts

\* A word is no character.
LEMMA WordsAre ==
  ASSUME NEW r \in Parts
  PROVE  \A w \in {r.method, r.scheme, r.host, r.port, r.path, "HTTP"} :
           w \notin {SP, SLASH, COLON, NUL}
BY PartsAre, HostsAssumption DEF Known, SP, SLASH, COLON, NUL, None

LEMMA CharactersAre ==
  /\ SP # SLASH /\ SP # COLON /\ SP # NUL
  /\ SLASH # COLON /\ SLASH # NUL /\ COLON # NUL
BY DEF SP, SLASH, COLON, NUL

\* The line that get_line copies for it, its NUL included.
Written(r) == FirstLine(r) \o <<NUL>>

\* The line, symbol by symbol.
Layout(w, r) ==
  /\ w \in Seq(Symbols) /\ Len(w) = Blank(r) + 2
  /\ w[1] = r.method /\ w[2] = SP
  /\ r.scheme # None => w[3] = r.scheme /\ w[4] = COLON /\ w[5] = SLASH /\ w[6] = SLASH
  /\ w[Front(r)] = r.host
  /\ r.port # None => w[Front(r) + 1] = COLON /\ w[Front(r) + 2] = r.port
  /\ r.path # None => w[Slash(r)] = SLASH /\ w[Slash(r) + 1] = r.path
  /\ w[Blank(r)] = SP /\ w[Blank(r) + 1] = "HTTP" /\ w[Blank(r) + 2] = NUL

\* What is known of z = x \o y, symbol by symbol.
Concatenated(x, y, z) ==
  /\ z \in Seq(Symbols) /\ Len(z) = Len(x) + Len(y)
  /\ \A k \in 1..Len(x) : z[k] = x[k]
  /\ \A k \in 1..Len(y) : z[Len(x) + k] = y[k]

LEMMA ConcatenatedIs ==
  ASSUME NEW x \in Seq(Symbols), NEW y \in Seq(Symbols)
  PROVE  Concatenated(x, y, x \o y)
BY DEF Concatenated

\* Written lays a request out like that.
LEMMA WrittenIs ==
  ASSUME NEW r \in Parts
  PROVE  Layout(Written(r), r) /\ FirstLine(r) \in Seq(Symbols)
<1>. DEFINE u == Url(r.scheme)
            p == IF r.port = None THEN <<>> ELSE <<COLON, r.port>>
            q == IF r.path = None THEN <<>> ELSE <<SLASH, r.path>>
            z == <<SP, "HTTP">>
            a == <<r.method, SP>>
            b == a \o u
            c == b \o <<r.host>>
            d == c \o p
            e == d \o q
            y == e \o z
            f == y \o <<NUL>>
<1>0. FirstLine(r) = y /\ Written(r) = f
  BY DEF Written, FirstLine
<1>. DEFINE h == Front(r)
            v == Slash(r)
            g == Blank(r)
<1>20. h \in {3, 7} /\ v \in Nat /\ g \in Nat /\ h < v /\ v <= g
  BY PlacesAre
<1>21. /\ r.port = None => v = h + 1
       /\ r.port # None => v = h + 3
       /\ r.path = None => g = v
       /\ r.path # None => g = v + 2
  BY DEF Slash, Blank
<1>. USE PartsAre
<1>1. u \in Seq(Symbols) /\ (r.scheme = None => Len(u) = 0)
      /\ (r.scheme # None =>
            /\ Len(u) = 4
            /\ u[1] = r.scheme /\ u[2] = COLON /\ u[3] = SLASH /\ u[4] = SLASH)
  <2>1. CASE r.scheme = None
    BY <2>1 DEF Url, Symbols
  <2>2. CASE r.scheme # None
    BY <2>2 DEF Url, Symbols
  <2>. QED
    BY <2>1, <2>2
<1>2. p \in Seq(Symbols) /\ (r.port = None => Len(p) = 0)
      /\ (r.port # None => Len(p) = 2 /\ p[1] = COLON /\ p[2] = r.port)
  <2>1. CASE r.port = None
    BY <2>1 DEF Symbols
  <2>2. CASE r.port # None
    BY <2>2 DEF Symbols
  <2>. QED
    BY <2>1, <2>2
<1>3. q \in Seq(Symbols) /\ (r.path = None => Len(q) = 0)
      /\ (r.path # None => Len(q) = 2 /\ q[1] = SLASH /\ q[2] = r.path)
  <2>1. CASE r.path = None
    BY <2>1 DEF Symbols
  <2>2. CASE r.path # None
    BY <2>2 DEF Symbols
  <2>. QED
    BY <2>1, <2>2
<1>4. z \in Seq(Symbols) /\ Len(z) = 2 /\ z[1] = SP /\ z[2] = "HTTP"
  BY DEF Symbols
<1>17. <<NUL>> \in Seq(Symbols) /\ Len(<<NUL>>) = 1 /\ <<NUL>>[1] = NUL
  BY DEF Symbols
<1>5. a \in Seq(Symbols) /\ Len(a) = 2 /\ a[1] = r.method /\ a[2] = SP
  BY DEF Symbols
<1>6. <<r.host>> \in Seq(Symbols) /\ Len(<<r.host>>) = 1 /\ <<r.host>>[1] = r.host
  BY DEF Symbols
<1>. HIDE DEF u, p, q, z, a, v, g
<1>7. /\ b \in Seq(Symbols) /\ Len(b) = h - 1
      /\ b[1] = r.method /\ b[2] = SP
      /\ r.scheme # None => b[3] = r.scheme /\ b[4] = COLON /\ b[5] = SLASH /\ b[6] = SLASH
  <2>1. Concatenated(a, u, b)
    BY <1>1, <1>5, ConcatenatedIs
  <2>. QED
    BY <2>1, <1>1, <1>5 DEF Front, Concatenated
<1>. HIDE DEF h
<1>8. /\ c \in Seq(Symbols) /\ Len(c) = h
      /\ \A k \in 1..h - 1 : c[k] = b[k]
      /\ c[h] = r.host
  <2>1. Concatenated(b, <<r.host>>, c)
    BY <1>7, <1>6, ConcatenatedIs
  <2>. HIDE DEF b, c
  <2>. QED
    BY <2>1, <1>7, <1>6, <1>20, <1>21 DEF Concatenated
<1>9. /\ d \in Seq(Symbols) /\ Len(d) + 1 = v
      /\ \A k \in 1..h : d[k] = c[k]
      /\ r.port # None => d[h + 1] = COLON /\ d[h + 2] = r.port
  <2>1. Concatenated(c, p, d)
    BY <1>8, <1>2, ConcatenatedIs
  <2>. HIDE DEF c, d
  <2>2. d \in Seq(Symbols) /\ Len(d) = Len(c) + Len(p)
    BY <2>1 DEF Concatenated
  <2>3. \A k \in 1..Len(c) : d[k] = c[k]
    BY <2>1 DEF Concatenated
  <2>4. \A k \in 1..Len(p) : d[Len(c) + k] = p[k]
    BY <2>1 DEF Concatenated
  <2>5. Len(d) + 1 = v
    <3>1. Len(c) = h
      BY <1>8
    <3>2. (r.port = None => Len(p) = 0) /\ (r.port # None => Len(p) = 2)
      BY <1>2
    <3>3. Len(d) = Len(c) + Len(p) /\ h \in {3, 7}
      BY <2>2, <1>20
    <3>4. (r.port = None => v = h + 1) /\ (r.port # None => v = h + 3)
      BY <1>21
    <3>. HIDE PartsAre
    <3>5. CASE r.port = None
      <4>1. Len(p) = 0 /\ v = h + 1
        BY <3>2, <3>4, <3>5
      <4>. QED
        BY <3>1, <3>3, <4>1
    <3>6. CASE r.port # None
      <4>1. Len(p) = 2 /\ v = h + 3
        BY <3>2, <3>4, <3>6
      <4>. QED
        BY <3>1, <3>3, <4>1
    <3>. QED
      BY <3>5, <3>6
  <2>6. \A k \in 1..h : d[k] = c[k]
    BY <2>3, <1>8, <1>20
  <2>7. r.port # None => d[h + 1] = COLON /\ d[h + 2] = r.port
    BY <2>4, <1>8, <1>2, <1>20, <1>21
  <2>. QED
    BY <2>2, <2>5, <2>6, <2>7
<1>10. /\ e \in Seq(Symbols) /\ Len(e) + 1 = g
       /\ \A k \in 1..v - 1 : e[k] = d[k]
       /\ r.path # None => e[v] = SLASH /\ e[v + 1] = r.path
  <2>1. Concatenated(d, q, e)
    BY <1>9, <1>3, ConcatenatedIs
  <2>. HIDE DEF d, e
  <2>2. e \in Seq(Symbols) /\ Len(e) = Len(d) + Len(q) /\ Len(d) \in Nat
    BY <2>1, <1>9 DEF Concatenated
  <2>3. \A k \in 1..v - 1 : e[k] = d[k]
    BY <2>1, <1>9, <1>20 DEF Concatenated
  <2>4. CASE r.path = None
    BY <2>2, <2>3, <2>4, <1>9, <1>3, <1>21
  <2>5. CASE r.path # None
    <3>1. Len(d) + 1 = v /\ Len(q) = 2 /\ g = v + 2
      BY <2>5, <1>9, <1>3, <1>21
    <3>2. e[Len(d) + 1] = q[1] /\ e[Len(d) + 2] = q[2]
      BY <2>1, <3>1 DEF Concatenated
    <3>3. Len(d) + 2 = v + 1 /\ Len(e) + 1 = g
      BY <3>1, <2>2, <1>20
    <3>. QED
      BY <2>2, <2>3, <2>5, <3>1, <3>2, <3>3, <1>3
  <2>. QED
    BY <2>4, <2>5
<1>18. /\ y \in Seq(Symbols) /\ Len(y) = g + 1
       /\ \A k \in 1..g - 1 : y[k] = e[k]
       /\ y[g] = SP /\ y[g + 1] = "HTTP"
  <2>1. Concatenated(e, z, y)
    BY <1>10, <1>4, ConcatenatedIs
  <2>. HIDE DEF e, y
  <2>. QED
    BY <2>1, <1>10, <1>4, <1>20, <1>21 DEF Concatenated
<1>11. /\ f \in Seq(Symbols) /\ Len(f) = g + 2
       /\ \A k \in 1..g - 1 : f[k] = e[k]
       /\ f[g] = SP /\ f[g + 1] = "HTTP" /\ f[g + 2] = NUL
  <2>1. Concatenated(y, <<NUL>>, f)
    BY <1>18, <1>17, ConcatenatedIs
  <2>. HIDE DEF y, f
  <2>. QED
    <3>1. g \in 1..g + 1 /\ g + 1 \in 1..g + 1 /\ \A k \in 1..g - 1 : k \in 1..g + 1
      BY <1>20
    <3>2. f \in Seq(Symbols) /\ Len(f) = g + 2 /\ \A k \in 1..g + 1 : f[k] = y[k]
      BY <2>1, <1>18, <1>17, <1>20 DEF Concatenated
    <3>3. f[(g + 1) + 1] = NUL /\ (g + 1) + 1 = g + 2
      BY <2>1, <1>18, <1>17, <1>20 DEF Concatenated
    <3>. QED
      BY <3>1, <3>2, <3>3, <1>18
<1>. HIDE DEF b, c, d, e, y, f
<1>12. \A k \in 1..h - 1 : f[k] = b[k]
  BY <1>8, <1>9, <1>10, <1>11, <1>20, <1>21
<1>13. f[h] = r.host
  <2>1. h \in 1..v - 1 /\ h \in 1..g - 1 /\ h \in 1..h
    BY <1>20
  <2>2. f[h] = e[h] /\ e[h] = d[h] /\ d[h] = c[h]
    BY <2>1, <1>9, <1>10, <1>11
  <2>. QED
    BY <2>2, <1>8
<1>14. r.port # None => f[h + 1] = COLON /\ f[h + 2] = r.port
  <2>. SUFFICES ASSUME r.port # None
                PROVE  f[h + 1] = COLON /\ f[h + 2] = r.port
    OBVIOUS
  <2>1. \A k \in {h + 1, h + 2} : k \in 1..v - 1 /\ k \in 1..g - 1
    BY <1>20, <1>21
  <2>2. \A k \in {h + 1, h + 2} : f[k] = d[k]
    BY <2>1, <1>10, <1>11
  <2>. QED
    BY <2>2, <1>9
<1>15. r.path # None => f[v] = SLASH /\ f[v + 1] = r.path
  <2>. SUFFICES ASSUME r.path # None
                PROVE  f[v] = SLASH /\ f[v + 1] = r.path
    OBVIOUS
  <2>1. \A k \in {v, v + 1} : k \in 1..g - 1
    BY <1>20, <1>21
  <2>. QED
    BY <2>1, <1>10, <1>11
<1>16. f[1] = r.method /\ f[2] = SP
       /\ (r.scheme # None => f[3] = r.scheme /\ f[4] = COLON /\ f[5] = SLASH /\ f[6] = SLASH)
  <2>1. 1 \in 1..h - 1 /\ 2 \in 1..h - 1
    BY <1>20
  <2>2. r.scheme # None => h = 7
    BY DEF h, Front
  <2>3. r.scheme # None => \A k \in {3, 4, 5, 6} : k \in 1..h - 1
    BY <2>2
  <2>. QED
    BY <2>1, <2>3, <1>7, <1>12
<1>. QED
  BY <1>0, <1>11, <1>13, <1>14, <1>15, <1>16, <1>18 DEF Layout, h, v, g

\* The end of the line is found behind it, or not at all.
LEMMA GetLineIs ==
  ASSUME NEW r \in Parts
  PROVE  GetLine(Received(r)) = IF r.whole THEN Written(r) ELSE Eof
<1>. DEFINE f == FirstLine(r)
            n == Len(f)
<1>1. f \in Seq(Symbols) /\ r.whole \in BOOLEAN
  BY WrittenIs, PartsAre
<1>2. CRLF \notin Symbols
  BY HostsAssumption DEF Symbols, Known, SP, SLASH, COLON, NUL, CRLF
<1>3. n \in Nat /\ \A i \in 1..n : f[i] # CRLF
  BY <1>1, <1>2
<1>. HIDE DEF f
<1>4. CASE ~r.whole
  <2>1. Received(r) = f
    BY <1>1, <1>4 DEF Received, f
  <2>2. {i \in DOMAIN f : f[i] = CRLF} = {}
    BY <1>1, <1>3
  <2>. QED
    BY <2>1, <2>2, <1>4 DEF GetLine
<1>5. CASE r.whole
  <2>. DEFINE b == f \o <<CRLF>>
  <2>1. Received(r) = b
    BY <1>5 DEF Received, f
  <2>2. /\ b \in Seq(Symbols \cup {CRLF}) /\ Len(b) = n + 1 /\ b[n + 1] = CRLF
        /\ \A i \in 1..n : b[i] = f[i]
    BY <1>1, <1>3
  <2>. HIDE DEF b
  <2>3. {i \in DOMAIN b : b[i] = CRLF} = {n + 1}
    BY <2>2, <1>3
  <2>4. Min({n + 1}) = n + 1
    BY <1>3, MinOfOne
  <2>5. SubSeq(b, 1, n) = f
    <3>1. SubSeq(b, 1, n) \in Seq(Symbols \cup {CRLF}) /\ Len(SubSeq(b, 1, n)) = n
          /\ \A i \in 1..n : SubSeq(b, 1, n)[i] = b[i]
      BY <2>2, <1>3
    <3>2. f \in Seq(Symbols \cup {CRLF})
      BY <1>1
    <3>. QED
      BY <3>1, <3>2, <2>2
  <2>6. GetLine(b) = SubSeq(b, 1, (n + 1) - 1) \o <<NUL>>
    BY <2>3, <2>4 DEF GetLine
  <2>7. (n + 1) - 1 = n
    BY <1>3
  <2>. QED
    BY <2>1, <2>5, <2>6, <2>7, <1>5 DEF Written, f
<1>. QED
  BY <1>4, <1>5, <1>1

-----------------------------------------------------------------------------
(* What the calls do to the line of a request, one after the other.        *)

\* Where the i-th call starts and where its token ends.
Start(r, i) ==
  CASE i = Method -> 1
    [] i = Uri -> 3
    [] i = Version -> Blank(r) + 1
    [] i \in {Host, HostPart} -> Front(r)
    [] i = Path -> IF r.path = None THEN Slash(r) ELSE Slash(r) + 1
    [] i = Port -> IF r.port = None THEN Slash(r) ELSE Front(r) + 2

End(r, i) ==
  CASE i = Method -> 2
    [] i \in {Uri, Path} -> Blank(r)
    [] i = Version -> Blank(r) + 2
    [] i \in {Host, Port} -> Slash(r)
    [] i = HostPart -> Front(r) + 1

\* Where strtok goes on after it.
Rest(r, i) ==
  CASE i = Method -> 3
    [] i = Uri -> Blank(r) + 1
    [] i = Version -> Blank(r) + 2
    [] i = Host -> Start(r, Path)
    [] i = Path -> Blank(r)
    [] i = HostPart -> Start(r, Port)
    [] i = Port -> Slash(r)

\* What a call finds nothing for.
Missing(r, i) == (i = Path /\ r.path = None) \/ (i = Port /\ r.port = None)

\* The symbol at k when n calls have returned.
Cut(r, n, k) ==
  \/ n >= Method /\ k = 2
  \/ n >= Uri /\ k = Blank(r)
  \/ n >= Host /\ k = Slash(r)
  \/ n >= HostPart /\ k = Front(r) + 1

Symbol(r, n, k) == IF Cut(r, n, k) THEN NUL ELSE Written(r)[k]

\* In the uri, a slash ends the scheme or the authority.
LEMMA UriIs ==
  ASSUME NEW r \in Parts, NEW k \in 3..Blank(r) - 1
  PROVE  /\ Written(r)[k] \notin {SP, NUL}
         /\ Written(r)[k] = SLASH => k = Slash(r) \/ (r.scheme # None /\ k \in {5, 6})
<1>. DEFINE w == Written(r)  h == Front(r)  v == Slash(r)  g == Blank(r)
<1>. USE PlacesAre, WordsAre, CharactersAre
<1>1. Layout(w, r)
  BY WrittenIs
<1>. HIDE DEF w, h, v, g
<1>2. CASE k < h
  <2>1. r.scheme # None /\ k \in {3, 4, 5, 6}
    BY <1>2 DEF h
  <2>. QED
    BY <2>1, <1>1 DEF Layout, w
<1>3. CASE k = h
  BY <1>1, <1>3 DEF Layout, w, h
<1>4. CASE k > h /\ k < v
  <2>1. r.port # None /\ k \in {h + 1, h + 2}
    BY <1>4 DEF h, v
  <2>. QED
    BY <2>1, <1>1 DEF Layout, w, h
<1>5. CASE k >= v
  <2>1. r.path # None /\ k \in {v, v + 1}
    BY <1>5 DEF v, g
  <2>2. w[v] = SLASH /\ w[v + 1] = r.path
    BY <2>1, <1>1 DEF Layout, v
  <2>3. CASE k = v
    <3>1. w[k] = SLASH /\ k = Slash(r)
      BY <2>2, <2>3 DEF v
    <3>. QED
      BY <3>1 DEF w
  <2>4. CASE k = v + 1
    BY <2>2, <2>4, <2>1 DEF w
  <2>. QED
    BY <2>1, <2>3, <2>4
<1>. QED
  BY <1>2, <1>3, <1>4, <1>5 DEF h, v

\* In the authority, a colon comes behind the host.
LEMMA AuthorityIs ==
  ASSUME NEW r \in Parts, NEW k \in Front(r)..Slash(r) - 1
  PROVE  /\ Written(r)[k] \notin {SP, NUL, SLASH}
         /\ Written(r)[k] = COLON <=> k = Front(r) + 1
<1>. DEFINE w == Written(r)  h == Front(r)  v == Slash(r)
<1>. USE PlacesAre, WordsAre, CharactersAre
<1>1. Layout(w, r)
  BY WrittenIs
<1>. HIDE DEF w, h, v
<1>2. CASE k = h
  BY <1>1, <1>2, SMTT(30) DEF Layout, w, h
<1>3. CASE k > h
  <2>1. r.port # None /\ k \in {h + 1, h + 2}
    BY <1>3 DEF h, v
  <2>2. w[h + 1] = COLON /\ w[h + 2] = r.port
    BY <2>1, <1>1 DEF Layout, h
  <2>3. h + 2 # h + 1
    BY DEF h
  <2>. QED
    BY <2>1, <2>2, <2>3 DEF w, h
<1>. QED
  BY <1>2, <1>3 DEF h

\* Which symbols the first n calls have overwritten.
LEMMA CutsAre ==
  ASSUME NEW r, NEW k
  PROVE  /\ ~Cut(r, 0, k)
         /\ Cut(r, 1, k) <=> k = 2
         /\ \A n \in {2, 3} : Cut(r, n, k) <=> k \in {2, Blank(r)}
         /\ \A n \in {4, 5} : Cut(r, n, k) <=> k \in {2, Blank(r), Slash(r)}
         /\ \A n \in {6, 7} : Cut(r, n, k) <=> k \in {2, Blank(r), Slash(r), Front(r) + 1}
BY DEF Cut, Method, Uri, Host, HostPart

\* What strtok meets: a token that ends at a delimiter or at a NUL.
Piece(r, i) ==
  /\ Start(r, i) \in Nat /\ End(r, i) \in Nat
  /\ 1 <= Start(r, i) /\ Start(r, i) < End(r, i) /\ End(r, i) <= Blank(r) + 2
  /\ \A k \in Start(r, i)..End(r, i) - 1 : Symbol(r, i - 1, k) \notin Delimiters(i) \cup {NUL}
  /\ Symbol(r, i - 1, End(r, i)) \in Delimiters(i) \cup {NUL}
  /\ Rest(r, i) = IF Symbol(r, i - 1, End(r, i)) = NUL THEN End(r, i) ELSE End(r, i) + 1
  /\ \A k \in 1..Blank(r) + 2 :
       Symbol(r, i, k) = IF k = End(r, i) THEN NUL ELSE Symbol(r, i - 1, k)

\* Or nothing.
NoPiece(r, i) ==
  /\ Start(r, i) \in 1..Blank(r) + 2
  /\ Symbol(r, i - 1, Start(r, i)) = NUL
  /\ Rest(r, i) = Start(r, i)
  /\ \A k \in 1..Blank(r) + 2 : Symbol(r, i, k) = Symbol(r, i - 1, k)

\* Each call finds its token, and overwrites the symbol behind it.
LEMMA PieceIs ==
  ASSUME NEW r \in Parts, NEW i \in Calls, ~Missing(r, i)
  PROVE  Piece(r, i)
<1>. DEFINE w == Written(r)  h == Front(r)  v == Slash(r)  g == Blank(r)
<1>. USE PlacesAre, WordsAre
<1>1. Layout(w, r)
  BY WrittenIs
<1>2. \A k \in h..v - 1 : w[k] \notin {SP, NUL, SLASH} /\ (w[k] = COLON <=> k = h + 1)
  BY AuthorityIs
<1>3. \A k \in 3..g - 1 : w[k] \notin {SP, NUL}
  BY UriIs
<1>11. /\ h \in {3, 7} /\ v \in Nat /\ g \in Nat /\ h < v /\ v <= g
       /\ r.port = None => v = h + 1
       /\ r.port # None => v = h + 3
       /\ r.path = None => g = v
       /\ r.path # None => g = v + 2
  OBVIOUS
<1>12. /\ w[1] = r.method /\ w[2] = SP
       /\ w[h] = r.host
       /\ r.port # None => w[h + 1] = COLON /\ w[h + 2] = r.port
       /\ r.path # None => w[v] = SLASH /\ w[v + 1] = r.path
       /\ w[g] = SP /\ w[g + 1] = "HTTP" /\ w[g + 2] = NUL
  BY <1>1 DEF Layout
<1>13. \A x \in {r.method, r.host, r.port, r.path, "HTTP"} : x \notin {SP, SLASH, COLON, NUL}
  OBVIOUS
<1>14. g = Blank(r)
  OBVIOUS
<1>. HIDE DEF w, h, v, g
<1>4. CASE i = 1
  <2>1. /\ Start(r, i) = 1 /\ End(r, i) = 2 /\ Rest(r, i) = 3
        /\ Delimiters(i) = {SP}
    BY <1>4 DEF Start, End, Rest, Delimiters, Missing, h, v, g,
           Method, Uri, Version, Host, Path, HostPart, Port
  <2>2. \A k : /\ Symbol(r, 0, k) = IF FALSE THEN NUL ELSE w[k]
               /\ Symbol(r, 1, k) = IF k = 2 THEN NUL ELSE w[k]
    BY CutsAre DEF Symbol, w, h, v, g
  <2>3. 1 \in Nat /\ 2 \in Nat /\ 1 <= 1 /\ 1 < 2 /\ 2 <= g + 2
    BY <1>11, <1>4 DEF Missing,
           Method, Uri, Version, Host, Path, HostPart, Port
  <2>4. \A k \in 1..2 - 1 : Symbol(r, 0, k) \notin {SP, NUL}
    BY <2>2, <1>2, <1>3, <1>11, <1>12, <1>13, CharactersAre
  <2>5. /\ Symbol(r, 0, 2) \in {SP, NUL}
        /\ 3 = IF Symbol(r, 0, 2) = NUL THEN 2 ELSE 2 + 1
    BY <2>2, <1>2, <1>3, <1>11, <1>12, <1>13, CharactersAre
  <2>6. \A k \in 1..g + 2 :
          Symbol(r, 1, k) = IF k = 2 THEN NUL ELSE Symbol(r, 0, k)
    BY <2>2, <1>11, <1>12
  <2>. QED
    BY <1>4, <2>1, <2>3, <2>4, <2>5, <2>6, <1>14 DEF Piece
<1>5. CASE i = 2
  <2>1. /\ Start(r, i) = 3 /\ End(r, i) = g /\ Rest(r, i) = g + 1
        /\ Delimiters(i) = {SP}
    BY <1>5 DEF Start, End, Rest, Delimiters, Missing, h, v, g,
           Method, Uri, Version, Host, Path, HostPart, Port
  <2>2. \A k : /\ Symbol(r, 1, k) = IF k = 2 THEN NUL ELSE w[k]
               /\ Symbol(r, 2, k) = IF k \in {2, g} THEN NUL ELSE w[k]
    BY CutsAre DEF Symbol, w, h, v, g
  <2>3. 3 \in Nat /\ g \in Nat /\ 1 <= 3 /\ 3 < g /\ g <= g + 2
    BY <1>11, <1>5 DEF Missing,
           Method, Uri, Version, Host, Path, HostPart, Port
  <2>4. \A k \in 3..g - 1 : Symbol(r, 1, k) \notin {SP, NUL}
    BY <2>2, <1>2, <1>3, <1>11, <1>12, <1>13, CharactersAre
  <2>5. /\ Symbol(r, 1, g) \in {SP, NUL}
        /\ g + 1 = IF Symbol(r, 1, g) = NUL THEN g ELSE g + 1
    BY <2>2, <1>2, <1>3, <1>11, <1>12, <1>13, CharactersAre
  <2>6. \A k \in 1..g + 2 :
          Symbol(r, 2, k) = IF k = g THEN NUL ELSE Symbol(r, 1, k)
    BY <2>2, <1>11, <1>12
  <2>. QED
    BY <1>5, <2>1, <2>3, <2>4, <2>5, <2>6, <1>14 DEF Piece
<1>6. CASE i = 3
  <2>1. /\ Start(r, i) = g + 1 /\ End(r, i) = g + 2 /\ Rest(r, i) = g + 2
        /\ Delimiters(i) = {SP}
    BY <1>6 DEF Start, End, Rest, Delimiters, Missing, h, v, g,
           Method, Uri, Version, Host, Path, HostPart, Port
  <2>2. \A k : /\ Symbol(r, 2, k) = IF k \in {2, g} THEN NUL ELSE w[k]
               /\ Symbol(r, 3, k) = IF k \in {2, g} THEN NUL ELSE w[k]
    BY CutsAre DEF Symbol, w, h, v, g
  <2>3. g + 1 \in Nat /\ g + 2 \in Nat /\ 1 <= g + 1 /\ g + 1 < g + 2 /\ g + 2 <= g + 2
    BY <1>11, <1>6 DEF Missing,
           Method, Uri, Version, Host, Path, HostPart, Port
  <2>4. \A k \in g + 1..g + 2 - 1 : Symbol(r, 2, k) \notin {SP, NUL}
    BY <2>2, <1>2, <1>3, <1>11, <1>12, <1>13, CharactersAre
  <2>5. /\ Symbol(r, 2, g + 2) \in {SP, NUL}
        /\ g + 2 = IF Symbol(r, 2, g + 2) = NUL THEN g + 2 ELSE g + 2 + 1
    BY <2>2, <1>2, <1>3, <1>11, <1>12, <1>13, CharactersAre
  <2>6. \A k \in 1..g + 2 :
          Symbol(r, 3, k) = IF k = g + 2 THEN NUL ELSE Symbol(r, 2, k)
    BY <2>2, <1>11, <1>12
  <2>. QED
    BY <1>6, <2>1, <2>3, <2>4, <2>5, <2>6, <1>14 DEF Piece
<1>7. CASE i = 4
  <2>1. /\ Start(r, i) = h /\ End(r, i) = v /\ Rest(r, i) = IF r.path = None THEN v ELSE v + 1
        /\ Delimiters(i) = {SLASH}
    BY <1>7 DEF Start, End, Rest, Delimiters, Missing, h, v, g,
           Method, Uri, Version, Host, Path, HostPart, Port
  <2>2. \A k : /\ Symbol(r, 3, k) = IF k \in {2, g} THEN NUL ELSE w[k]
               /\ Symbol(r, 4, k) = IF k \in {2, g, v} THEN NUL ELSE w[k]
    BY CutsAre DEF Symbol, w, h, v, g
  <2>3. h \in Nat /\ v \in Nat /\ 1 <= h /\ h < v /\ v <= g + 2
    BY <1>11, <1>7 DEF Missing,
           Method, Uri, Version, Host, Path, HostPart, Port
  <2>4. \A k \in h..v - 1 : Symbol(r, 3, k) \notin {SLASH, NUL}
    <3>. TAKE k \in h..v - 1
    <3>1. k \notin {2, g} /\ w[k] \notin {SLASH, NUL}
      BY <1>2, <1>11
    <3>. QED
      BY <3>1, <2>2
  <2>5. /\ Symbol(r, 3, v) \in {SLASH, NUL}
        /\ (IF r.path = None THEN v ELSE v + 1) = IF Symbol(r, 3, v) = NUL THEN v ELSE v + 1
    BY <2>2, <1>2, <1>3, <1>11, <1>12, <1>13, CharactersAre
  <2>6. \A k \in 1..g + 2 :
          Symbol(r, 4, k) = IF k = v THEN NUL ELSE Symbol(r, 3, k)
    BY <2>2, <1>11, <1>12
  <2>. QED
    BY <1>7, <2>1, <2>3, <2>4, <2>5, <2>6, <1>14 DEF Piece
<1>8. CASE i = 5
  <2>1. /\ Start(r, i) = v + 1 /\ End(r, i) = g /\ Rest(r, i) = g
        /\ Delimiters(i) = {SLASH}
    BY <1>8 DEF Start, End, Rest, Delimiters, Missing, h, v, g,
           Method, Uri, Version, Host, Path, HostPart, Port
  <2>2. \A k : /\ Symbol(r, 4, k) = IF k \in {2, g, v} THEN NUL ELSE w[k]
               /\ Symbol(r, 5, k) = IF k \in {2, g, v} THEN NUL ELSE w[k]
    BY CutsAre DEF Symbol, w, h, v, g
  <2>3. v + 1 \in Nat /\ g \in Nat /\ 1 <= v + 1 /\ v + 1 < g /\ g <= g + 2
    BY <1>11, <1>8 DEF Missing,
           Method, Uri, Version, Host, Path, HostPart, Port
  <2>4. \A k \in v + 1..g - 1 : Symbol(r, 4, k) \notin {SLASH, NUL}
    BY <2>2, <1>2, <1>3, <1>11, <1>12, <1>13, CharactersAre
  <2>5. /\ Symbol(r, 4, g) \in {SLASH, NUL}
        /\ g = IF Symbol(r, 4, g) = NUL THEN g ELSE g + 1
    BY <2>2, <1>2, <1>3, <1>11, <1>12, <1>13, CharactersAre
  <2>6. \A k \in 1..g + 2 :
          Symbol(r, 5, k) = IF k = g THEN NUL ELSE Symbol(r, 4, k)
    BY <2>2, <1>11, <1>12
  <2>. QED
    BY <1>8, <2>1, <2>3, <2>4, <2>5, <2>6, <1>14 DEF Piece
<1>9. CASE i = 6
  <2>1. /\ Start(r, i) = h /\ End(r, i) = h + 1 /\ Rest(r, i) = IF r.port = None THEN v ELSE h + 2
        /\ Delimiters(i) = {COLON}
    BY <1>9 DEF Start, End, Rest, Delimiters, Missing, h, v, g,
           Method, Uri, Version, Host, Path, HostPart, Port
  <2>2. \A k : /\ Symbol(r, 5, k) = IF k \in {2, g, v} THEN NUL ELSE w[k]
               /\ Symbol(r, 6, k) = IF k \in {2, g, v, h + 1} THEN NUL ELSE w[k]
    BY CutsAre DEF Symbol, w, h, v, g
  <2>3. h \in Nat /\ h + 1 \in Nat /\ 1 <= h /\ h < h + 1 /\ h + 1 <= g + 2
    BY <1>11, <1>9 DEF Missing,
           Method, Uri, Version, Host, Path, HostPart, Port
  <2>4. \A k \in h..h + 1 - 1 : Symbol(r, 5, k) \notin {COLON, NUL}
    <3>. TAKE k \in h..h + 1 - 1
    <3>1. k = h /\ k \in h..v - 1 /\ k \notin {2, g, v}
      BY <1>11
    <3>2. w[k] \notin {COLON, NUL}
      BY <3>1, <1>2, <1>11
    <3>. QED
      BY <3>1, <3>2, <2>2
  <2>5. /\ Symbol(r, 5, h + 1) \in {COLON, NUL}
        /\ (IF r.port = None THEN v ELSE h + 2) = IF Symbol(r, 5, h + 1) = NUL THEN h + 1 ELSE h + 1 + 1
    BY <2>2, <1>2, <1>3, <1>11, <1>12, <1>13, CharactersAre
  <2>6. \A k \in 1..g + 2 :
          Symbol(r, 6, k) = IF k = h + 1 THEN NUL ELSE Symbol(r, 5, k)
    BY <2>2, <1>11, <1>12
  <2>. QED
    BY <1>9, <2>1, <2>3, <2>4, <2>5, <2>6, <1>14 DEF Piece
<1>10. CASE i = 7
  <2>1. /\ Start(r, i) = h + 2 /\ End(r, i) = v /\ Rest(r, i) = v
        /\ Delimiters(i) = {COLON}
    BY <1>10 DEF Start, End, Rest, Delimiters, Missing, h, v, g,
           Method, Uri, Version, Host, Path, HostPart, Port
  <2>2. \A k : /\ Symbol(r, 6, k) = IF k \in {2, g, v, h + 1} THEN NUL ELSE w[k]
               /\ Symbol(r, 7, k) = IF k \in {2, g, v, h + 1} THEN NUL ELSE w[k]
    BY CutsAre DEF Symbol, w, h, v, g
  <2>3. h + 2 \in Nat /\ v \in Nat /\ 1 <= h + 2 /\ h + 2 < v /\ v <= g + 2
    BY <1>11, <1>10 DEF Missing,
           Method, Uri, Version, Host, Path, HostPart, Port
  <2>4. \A k \in h + 2..v - 1 : Symbol(r, 6, k) \notin {COLON, NUL}
    BY <2>2, <1>2, <1>3, <1>11, <1>12, <1>13, CharactersAre
  <2>5. /\ Symbol(r, 6, v) \in {COLON, NUL}
        /\ v = IF Symbol(r, 6, v) = NUL THEN v ELSE v + 1
    BY <2>2, <1>2, <1>3, <1>11, <1>12, <1>13, CharactersAre
  <2>6. \A k \in 1..g + 2 :
          Symbol(r, 7, k) = IF k = v THEN NUL ELSE Symbol(r, 6, k)
    BY <2>2, <1>11, <1>12
  <2>. QED
    BY <1>10, <2>1, <2>3, <2>4, <2>5, <2>6, <1>14 DEF Piece
<1>. QED
  BY <1>4, <1>5, <1>6, <1>7, <1>8, <1>9, <1>10 DEF Calls

\* A call for what a request does not have finds nothing.
LEMMA NoPieceIs ==
  ASSUME NEW r \in Parts, NEW i \in Calls, Missing(r, i)
  PROVE  NoPiece(r, i)
<1>1. CASE i = 5
  <2>1. /\ Start(r, i) = Slash(r) /\ Rest(r, i) = Blank(r) /\ Blank(r) = Slash(r)
    BY <1>1, PlacesAre DEF Start, Rest, Missing,
           Method, Uri, Version, Host, Path, HostPart, Port
  <2>2. \A k : /\ Symbol(r, 4, k) = IF k \in {2, Blank(r), Slash(r)} THEN NUL ELSE Written(r)[k]
               /\ Symbol(r, 5, k) = IF k \in {2, Blank(r), Slash(r)} THEN NUL ELSE Written(r)[k]
    BY CutsAre DEF Symbol
  <2>3. Slash(r) \in 1..Blank(r) + 2
    BY PlacesAre
  <2>. QED
    BY <1>1, <2>1, <2>2, <2>3 DEF NoPiece
<1>2. CASE i = 7
  <2>1. /\ Start(r, i) = Slash(r) /\ Rest(r, i) = Slash(r)
    BY <1>2, PlacesAre DEF Start, Rest, Missing,
           Method, Uri, Version, Host, Path, HostPart, Port
  <2>2. \A n \in {6, 7} : \A k :
           Symbol(r, n, k) =
             IF k \in {2, Blank(r), Slash(r), Front(r) + 1} THEN NUL ELSE Written(r)[k]
    BY CutsAre DEF Symbol
  <2>3. Slash(r) \in 1..Blank(r) + 2
    BY PlacesAre
  <2>. QED
    BY <1>2, <2>1, <2>2, <2>3 DEF NoPiece
<1>. QED
  BY <1>1, <1>2 DEF Missing, Path, Port

-----------------------------------------------------------------------------
(* C strings.                                                              *)

\* A pointer is a pair, and Null is none.
LEMMA PointerIs ==
  ASSUME NEW t, NEW k
  PROVE  /\ <<t, k>>[1] = t /\ <<t, k>>[2] = k
         /\ <<t, k>> # Null
BY DEF Null

\* From a place in a line something is found up to its last symbol.
LEMMA FirstInWithin ==
  ASSUME NEW t, line[t] \in Seq(Symbols), NEW k \in 1..Len(line[t]), NEW S,
         line[t][Len(line[t])] \in S
  PROVE  /\ FirstIn(<<t, k>>, S) \in k..Len(line[t])
         /\ line[t][FirstIn(<<t, k>>, S)] \in S
         /\ \A j \in k..FirstIn(<<t, k>>, S) - 1 : line[t][j] \notin S
<1>. DEFINE I == {i \in DOMAIN line[t] : i >= k /\ line[t][i] \in S}
<1>1. FirstIn(<<t, k>>, S) = Min(I)
  BY PointerIs DEF FirstIn
<1>2. I \subseteq Nat /\ Len(line[t]) \in I
  OBVIOUS
<1>. HIDE DEF I
<1>3. Min(I) \in I /\ \A j \in I : Min(I) <= j
  BY <1>2, MinOfNat
<1>4. Min(I) \in k..Len(line[t]) /\ line[t][Min(I)] \in S
  BY <1>3 DEF I
<1>5. ASSUME NEW j \in k..Min(I) - 1 PROVE line[t][j] \notin S
  <2>1. j \in DOMAIN line[t] /\ j >= k /\ ~(Min(I) <= j)
    BY <1>4
  <2>2. j \notin I
    BY <2>1, <1>3
  <2>. QED
    BY <2>1, <2>2 DEF I
<1>. QED
  BY <1>1, <1>4, <1>5

LEMMA FirstNotInWithin ==
  ASSUME NEW t, line[t] \in Seq(Symbols), NEW k \in 1..Len(line[t]), NEW S,
         line[t][Len(line[t])] \notin S
  PROVE  /\ FirstNotIn(<<t, k>>, S) \in k..Len(line[t])
         /\ line[t][FirstNotIn(<<t, k>>, S)] \notin S
<1>. DEFINE I == {i \in DOMAIN line[t] : i >= k /\ line[t][i] \notin S}
<1>1. FirstNotIn(<<t, k>>, S) = Min(I)
  BY PointerIs DEF FirstNotIn
<1>2. I \subseteq Nat /\ Len(line[t]) \in I
  OBVIOUS
<1>. HIDE DEF I
<1>3. Min(I) \in I
  BY <1>2, MinOfNat
<1>4. Min(I) \in k..Len(line[t]) /\ line[t][Min(I)] \notin S
  BY <1>3 DEF I
<1>. QED
  BY <1>1, <1>4

\* What is found is the first.
LEMMA FirstInIs ==
  ASSUME NEW t, line[t] \in Seq(Symbols), NEW S,
         NEW z \in 1..Len(line[t]), NEW k \in 1..z, line[t][z] \in S,
         \A j \in k..z - 1 : line[t][j] \notin S
  PROVE  FirstIn(<<t, k>>, S) = z
<1>. DEFINE I == {i \in DOMAIN line[t] : i >= k /\ line[t][i] \in S}
<1>1. FirstIn(<<t, k>>, S) = Min(I)
  BY PointerIs DEF FirstIn
<1>2. I \subseteq Nat /\ z \in I
  OBVIOUS
<1>3. ASSUME NEW j \in I PROVE z <= j
  <2>1. j \in Nat /\ j >= k /\ j \notin k..z - 1
    OBVIOUS
  <2>. QED
    BY <2>1
<1>. HIDE DEF I
<1>. QED
  BY <1>1, <1>2, <1>3, MinIs

LEMMA FirstNotInIs ==
  ASSUME NEW t, line[t] \in Seq(Symbols), NEW S,
         NEW k \in 1..Len(line[t]), line[t][k] \notin S
  PROVE  FirstNotIn(<<t, k>>, S) = k
<1>. DEFINE I == {i \in DOMAIN line[t] : i >= k /\ line[t][i] \notin S}
<1>1. FirstNotIn(<<t, k>>, S) = Min(I)
  BY PointerIs DEF FirstNotIn
<1>2. I \subseteq Nat /\ k \in I /\ \A j \in I : k <= j
  OBVIOUS
<1>. QED
  BY <1>1, <1>2, MinIs

\* The string at k, when the NUL behind it is at z.
LEMMA StringIs ==
  ASSUME NEW t, line[t] \in Seq(Symbols),
         NEW z \in 1..Len(line[t]), NEW k \in 1..z, line[t][z] = NUL,
         \A j \in k..z - 1 : line[t][j] # NUL
  PROVE  StringAt(<<t, k>>) = SubSeq(line[t], k, z - 1)
<1>1. FirstIn(<<t, k>>, {NUL}) = z
  <2>1. line[t][z] \in {NUL} /\ \A j \in k..z - 1 : line[t][j] \notin {NUL}
    OBVIOUS
  <2>. QED
    BY <2>1, FirstInIs
<1>. QED
  BY <1>1, PointerIs DEF StringAt

\* The string of one word.
LEMMA WordIs ==
  ASSUME NEW t, line[t] \in Seq(Symbols),
         NEW k \in 1..Len(line[t]) - 1, line[t][k] # NUL, line[t][k + 1] = NUL
  PROVE  StringAt(<<t, k>>) = <<line[t][k]>>
<1>1. k + 1 \in 1..Len(line[t]) /\ k \in 1..k + 1 /\ (k + 1) - 1 = k
  OBVIOUS
<1>2. StringAt(<<t, k>>) = SubSeq(line[t], k, k)
  <2>. DEFINE z == k + 1
  <2>1. \A j \in k..z - 1 : line[t][j] # NUL
    OBVIOUS
  <2>. HIDE DEF z
  <2>2. StringAt(<<t, k>>) = SubSeq(line[t], k, z - 1)
    BY <2>1, <1>1, StringIs DEF z
  <2>. QED
    BY <2>2, <1>1 DEF z
<1>3. Len(SubSeq(line[t], k, k)) = 1 /\ SubSeq(line[t], k, k)[1] = line[t][k]
      /\ SubSeq(line[t], k, k) \in Seq(Symbols)
  OBVIOUS
<1>. HIDE DEF Symbols
<1>. DEFINE z == SubSeq(line[t], k, k)
<1>5. z \in Seq(Symbols) /\ Len(z) = 1 /\ z[1] = line[t][k]
  BY <1>3
<1>. HIDE DEF z
<1>6. z = <<line[t][k]>>
  BY <1>5
<1>. QED
  BY <1>2, <1>6 DEF z

-----------------------------------------------------------------------------
(* strtok.                                                                 *)

LEMMA DelimitersAre ==
  ASSUME NEW i \in Calls
  PROVE  NUL \notin Delimiters(i)
BY CharactersAre DEF Calls, Delimiters, Version, Host, Path, HostPart

-----------------------------------------------------------------------------
(* Whatever the threads do to each other, every pointer points into a line *)
(* that ends with a NUL.                                                   *)

\* A place in a line.
IsPlace(p) == \E u \in Threads : \E k \in 1..Len(line[u]) : p = <<u, k>>

\* A NUL ends each line; a thread inside has one, and none before.
LinesEnd == \A u \in Threads : Len(line[u]) >= 1 => line[u][Len(line[u])] = NUL

LinesThere ==
  \A u \in Threads : /\ Inside(u) => Len(line[u]) >= 1
                     /\ pc[u] = 0 => Len(line[u]) = 0

PointersPoint ==
  /\ olds = Null \/ IsPlace(olds)
  /\ \A t \in Threads : arg[t] = Null \/ IsPlace(arg[t])
  /\ \A t \in Threads, i \in Calls : token[t][i] = Null \/ IsPlace(token[t][i])
  /\ \A t \in Threads : hr[t].host = Null \/ IsPlace(hr[t].host)

\* The uri is looked into behind the third call.
UriThere == \A t \in Threads : pc[t] \in 4..8 => token[t][Uri] # Null

\* TypeOK, but for where the pointers point.
Pairs == (Threads \X Nat) \cup {Null}

Heads == [method : Known \cup {UnknownMethod}, host : Pairs, port : {0, 80, 8080}]

Shapes ==
  /\ request \in [Threads -> Requests]
  /\ line \in [Threads -> Seq(Symbols)]
  /\ hr \in [Threads -> Heads]
  /\ olds \in Pairs
  /\ pc \in [Threads -> 0..9]
  /\ arg \in [Threads -> Pairs]
  /\ token \in [Threads -> [Calls -> Pairs]]
  /\ ret \in [Threads -> {-1, 0, 1}]
  /\ crashed \in BOOLEAN

TypeInv == Shapes /\ LinesEnd /\ LinesThere /\ PointersPoint /\ UriThere

LEMMA PlaceIsPair ==
  ASSUME NEW p, IsPlace(p)
  PROVE  p \in Pairs
BY DEF IsPlace, Pairs

LEMMA PlaceIsPointer ==
  ASSUME Shapes, NEW p, p = Null \/ IsPlace(p)
  PROVE  p \in Pointers
<1>1. CASE p = Null
  BY <1>1 DEF Pointers
<1>2. CASE IsPlace(p)
  <2>1. PICK u \in Threads : \E k \in 1..Len(line[u]) : p = <<u, k>>
    BY <1>2 DEF IsPlace
  <2>2. line[u] \in Seq(Symbols)
    BY DEF Shapes
  <2>3. p \in {u} \X DOMAIN line[u]
    BY <2>1, <2>2
  <2>. QED
    BY <2>3 DEF Pointers
<1>. QED
  BY <1>1, <1>2

\* The type invariant follows.
LEMMA PointersAreTyped ==
  ASSUME TypeInv
  PROVE  TypeOK
<1>1. Shapes /\ PointersPoint
  BY DEF TypeInv
<1>2. olds \in Pointers /\ \A t \in Threads : arg[t] \in Pointers /\ hr[t].host \in Pointers
  BY <1>1, PlaceIsPointer DEF PointersPoint
<1>3. \A t \in Threads, i \in Calls : token[t][i] \in Pointers
  BY <1>1, PlaceIsPointer DEF PointersPoint
<1>4. arg \in [Threads -> Pointers] /\ token \in [Threads -> [Calls -> Pointers]]
  BY <1>1, <1>2, <1>3 DEF Shapes
<1>5. hr \in [Threads -> [method : Known \cup {UnknownMethod},
                         host : Pointers, port : {0, 80, 8080}]]
  <2>1. \A t \in Threads : hr[t] \in [method : Known \cup {UnknownMethod},
                                     host : Pointers, port : {0, 80, 8080}]
    <3>. TAKE t \in Threads
    <3>1. hr[t] \in Heads /\ hr[t].host \in Pointers
      BY <1>1, <1>2 DEF Shapes
    <3>. HIDE DEF Pointers
    <3>. QED
      BY <3>1 DEF Heads
  <2>. QED
    BY <1>1, <2>1 DEF Shapes
<1>. QED
  BY <1>1, <1>2, <1>4, <1>5 DEF TypeOK, Shapes

\* A place stays one: a line may come, and keeps its length.
LEMMA PlaceStays ==
  ASSUME NEW p, IsPlace(p), \A u \in Threads : Len(line[u]) >= 1 => Len(line'[u]) = Len(line[u]),
         Shapes
  PROVE  IsPlace(p)'
<1>1. PICK u \in Threads : \E k \in 1..Len(line[u]) : p = <<u, k>>
  BY DEF IsPlace
<1>2. PICK k \in 1..Len(line[u]) : p = <<u, k>>
  BY <1>1
<1>3. k \in 1..Len(line'[u])
  <2>1. Len(line[u]) \in Nat
    BY DEF Shapes
  <2>. QED
    BY <2>1
<1>. QED
  BY <1>2, <1>3 DEF IsPlace

\* A call of strtok, on any place.
LEMMA StrtokWithin ==
  ASSUME NEW t \in Threads, NEW i \in Calls, Shapes, LinesEnd, IsPlace(arg[t])
  PROVE  /\ Strtok(t, i).token = Null \/ IsPlace(Strtok(t, i).token)
         /\ IsPlace(Strtok(t, i).olds)
         /\ Strtok(t, i).line \in [Threads -> Seq(Symbols)]
         /\ \A u \in Threads : /\ Len(Strtok(t, i).line[u]) = Len(line[u])
                               /\ Len(line[u]) >= 1 => Strtok(t, i).line[u][Len(line[u])] = NUL
<1>1. PICK u \in Threads : \E k \in 1..Len(line[u]) : arg[t] = <<u, k>>
  BY DEF IsPlace
<1>2. PICK k \in 1..Len(line[u]) : arg[t] = <<u, k>>
  BY <1>1
<1>. DEFINE D == Delimiters(i)
            n == Len(line[u])
            start == FirstNotIn(<<u, k>>, D)
            end == FirstIn(<<u, start>>, D \cup {NUL})
<1>3. line[u] \in Seq(Symbols) /\ n \in Nat /\ line[u][n] = NUL /\ k \in 1..n /\ line \in [Threads -> Seq(Symbols)]
  BY DEF Shapes, LinesEnd
<1>4. NUL \notin D
  BY DelimitersAre
<1>5. Strtok(t, i) =
        IF line[u][start] = NUL
          THEN [token |-> Null, olds |-> <<u, start>>, line |-> line]
          ELSE [token |-> <<u, start>>,
                olds |-> <<u, IF line[u][end] = NUL THEN end ELSE end + 1>>,
                line |-> [line EXCEPT ![u][end] = NUL]]
  BY <1>2, PointerIs DEF Strtok
<1>. HIDE DEF D
<1>6. start \in k..n
  BY <1>3, <1>4, FirstNotInWithin
<1>. HIDE DEF start
<1>7. start \in 1..n
  BY <1>6, <1>3
<1>8. end \in start..n
  BY <1>3, <1>7, FirstInWithin
<1>. HIDE DEF end, n
<1>9. end \in 1..n
  BY <1>7, <1>8
<1>10. CASE line[u][start] = NUL
  <2>1. Strtok(t, i).token = Null /\ Strtok(t, i).olds = <<u, start>> /\ Strtok(t, i).line = line
    BY <1>5, <1>10
  <2>2. IsPlace(<<u, start>>)
    BY <1>7 DEF IsPlace, n
  <2>. QED
    BY <2>1, <2>2, <1>3 DEF LinesEnd
<1>11. CASE line[u][start] # NUL
  <2>. DEFINE rest == IF line[u][end] = NUL THEN end ELSE end + 1
              cut == [line EXCEPT ![u][end] = NUL]
  <2>1. Strtok(t, i).token = <<u, start>> /\ Strtok(t, i).olds = <<u, rest>> /\ Strtok(t, i).line = cut
    BY <1>5, <1>11
  <2>2. IsPlace(<<u, start>>)
    BY <1>7 DEF IsPlace, n
  <2>3. rest \in 1..n
    <3>1. CASE line[u][end] = NUL
      BY <3>1, <1>9
    <3>2. CASE line[u][end] # NUL
      <4>1. end # n
        BY <3>2, <1>3
      <4>. QED
        BY <3>2, <4>1, <1>9, <1>3
    <3>. QED
      BY <3>1, <3>2
  <2>4. IsPlace(<<u, rest>>)
    BY <2>3 DEF IsPlace, n
  <2>5. NUL \in Symbols
    BY DEF Symbols
  <2>6. cut = [line EXCEPT ![u] = [line[u] EXCEPT ![end] = NUL]]
    BY <1>3
  <2>7. [line[u] EXCEPT ![end] = NUL] \in Seq(Symbols)
        /\ Len([line[u] EXCEPT ![end] = NUL]) = n
        /\ [line[u] EXCEPT ![end] = NUL][n] = NUL
    BY <1>3, <1>9, <2>5 DEF n
  <2>8. cut \in [Threads -> Seq(Symbols)]
    BY <2>6, <2>7, <1>3
  <2>9. \A x \in Threads : /\ Len(cut[x]) = Len(line[x])
                           /\ Len(line[x]) >= 1 => cut[x][Len(line[x])] = NUL
    <3>1. cut[u] = [line[u] EXCEPT ![end] = NUL] /\ \A x \in Threads : x # u => cut[x] = line[x]
      BY <2>6, <1>3
    <3>. HIDE DEF cut
    <3>. QED
      BY <3>1, <2>7, <1>3 DEF LinesEnd, n
  <2>. HIDE DEF cut, rest
  <2>. QED
    BY <2>1, <2>2, <2>4, <2>8, <2>9
<1>. QED
  BY <1>10, <1>11

\* A scheme is only skipped where all of it was found.
LEMMA SkipWithin ==
  ASSUME NEW p, Shapes, LinesEnd, IsPlace(p),
         NEW scheme \in {"http", "https"}, Holds(p, scheme)
  PROVE  IsPlace(Skip(p, scheme))
<1>1. PICK u \in Threads : \E k \in 1..Len(line[u]) : p = <<u, k>>
  BY DEF IsPlace
<1>2. PICK k \in 1..Len(line[u]) : p = <<u, k>>
  BY <1>1
<1>. DEFINE n == Len(line[u])
            z == FirstIn(<<u, k>>, {NUL})
<1>3. line[u] \in Seq(Symbols) /\ n \in Nat /\ line[u][n] = NUL
  BY DEF Shapes, LinesEnd
<1>4. z \in k..n
  BY <1>3, FirstInWithin
<1>5. StringAt(p) = SubSeq(line[u], k, z - 1)
  BY <1>2, PointerIs DEF StringAt
<1>. HIDE DEF z
<1>6. Len(StringAt(p)) = z - k
  BY <1>3, <1>4, <1>5
<1>7. \E j \in 0..Len(StringAt(p)) - 4 : TRUE
  BY DEF Holds
<1>8. k + 4 <= n
  BY <1>4, <1>6, <1>7
<1>9. Len(Url(scheme)) = 4
  <2>1. scheme # None
    BY DEF None
  <2>. QED
    BY <2>1 DEF Url
<1>10. Skip(p, scheme) = <<u, k + 4>>
  BY <1>2, <1>9, PointerIs DEF Skip
<1>11. k + 4 \in 1..Len(line[u])
  BY <1>8, <1>3
<1>. QED
  BY <1>10, <1>11 DEF IsPlace

LEMMA WithoutSchemeWithin ==
  ASSUME NEW p, Shapes, LinesEnd, IsPlace(p)
  PROVE  IsPlace(WithoutScheme(p))
<1>. DEFINE q == IF Holds(p, "http") THEN Skip(p, "http") ELSE p
<1>1. IsPlace(q)
  BY SkipWithin
<1>2. WithoutScheme(p) = IF Holds(q, "https") THEN Skip(q, "https") ELSE q
  BY DEF WithoutScheme
<1>. HIDE DEF q
<1>. QED
  BY <1>1, <1>2, SkipWithin

\* The invariant TypeInv holds at first, and every action keeps it.
LEMMA TypeInit == Init => TypeInv
<1>. SUFFICES ASSUME Init PROVE TypeInv
  OBVIOUS
<1>1. Shapes
  <2>1. line \in [Threads -> Seq(Symbols)]
    BY DEF Init
  <2>2. Null \in Pairs
    BY DEF Pairs
  <2>3. token \in [Threads -> [Calls -> Pairs]] /\ arg \in [Threads -> Pairs] /\ olds \in Pairs
    BY <2>2 DEF Init
  <2>4. pc \in [Threads -> 0..9]
    <3>1. pc = [t \in Threads |-> 0] /\ 0 \in 0..9
      BY DEF Init
    <3>. QED
      BY <3>1
  <2>5. ret \in [Threads -> {-1, 0, 1}] /\ crashed \in BOOLEAN
    BY DEF Init
  <2>6. HttpRequestInit \in Heads
    BY <2>2 DEF HttpRequestInit, Heads
  <2>7. hr \in [Threads -> Heads]
    BY <2>6 DEF Init
  <2>. QED
    BY <2>1, <2>3, <2>4, <2>5, <2>7 DEF Init, Shapes
<1>2. PointersPoint /\ UriThere
  BY DEF Init, PointersPoint, UriThere, Calls, Uri, HttpRequestInit
<1>3. \A u \in Threads : pc[u] = 0 /\ Len(line[u]) = 0
  BY DEF Init
<1>4. LinesEnd /\ LinesThere
  BY <1>3 DEF LinesEnd, LinesThere, Inside
<1>. QED
  BY <1>1, <1>2, <1>4 DEF TypeInv

\* What is copied is a line, or the parser returns.
LEMMA EnterIs ==
  ASSUME Shapes, NEW t \in Threads, Enter(t)
  PROVE  LET r == request[t] IN
         /\ r \in Parts /\ pc[t] = 0
         /\ line' = [line EXCEPT ![t] = IF r.whole THEN Written(r) ELSE Eof]
         /\ IF r.whole
              THEN /\ pc' = [pc EXCEPT ![t] = 1] /\ ret' = ret
                   /\ Layout(line'[t], r)
              ELSE pc' = [pc EXCEPT ![t] = 9] /\ ret' = [ret EXCEPT ![t] = -1]
         /\ UNCHANGED <<request, hr, olds, arg, token, crashed>>
<1>. DEFINE r == request[t]
<1>1. r \in Parts
  BY RequestsAssumption DEF Shapes
<1>2. GetLine(Received(r)) = IF r.whole THEN Written(r) ELSE Eof
  BY <1>1, GetLineIs
<1>3. Layout(Written(r), r) /\ Blank(r) \in Nat
  BY <1>1, WrittenIs, PlacesAre
<1>4. Written(r) # Eof
  <2>1. Len(Written(r)) > 0
    BY <1>3 DEF Layout
  <2>2. Len(Eof) = 0
    BY DEF Eof
  <2>. QED
    BY <2>1, <2>2
<1>. HIDE DEF r
<1>5. line' = [line EXCEPT ![t] = IF r.whole THEN Written(r) ELSE Eof]
  BY <1>2 DEF Enter, r
<1>6. line'[t] = IF r.whole THEN Written(r) ELSE Eof
  BY <1>5 DEF Shapes
<1>7. line'[t] = Eof <=> ~r.whole
  BY <1>4, <1>6
<1>. QED
  BY <1>1, <1>3, <1>5, <1>6, <1>7 DEF Enter, Method, r

LEMMA TypeEnter ==
  ASSUME TypeInv, NEW t \in Threads, Enter(t)
  PROVE  TypeInv'
<1>. USE DEF TypeInv
<1>. DEFINE r == request[t]
<1>1. /\ r \in Parts /\ pc[t] = 0
      /\ line' = [line EXCEPT ![t] = IF r.whole THEN Written(r) ELSE Eof]
      /\ IF r.whole
           THEN /\ pc' = [pc EXCEPT ![t] = 1] /\ ret' = ret
                /\ Layout(line'[t], r)
           ELSE pc' = [pc EXCEPT ![t] = 9] /\ ret' = [ret EXCEPT ![t] = -1]
      /\ UNCHANGED <<request, hr, olds, arg, token, crashed>>
  BY EnterIs
<1>. HIDE DEF r
<1>2. \A u \in Threads : u # t => line'[u] = line[u] /\ pc'[u] = pc[u]
  BY <1>1 DEF Shapes
<1>3. line'[t] \in Seq(Symbols) /\ (Len(line'[t]) >= 1 => line'[t][Len(line'[t])] = NUL)
      /\ (r.whole => Len(line'[t]) >= 1)
  <2>1. CASE r.whole
    <3>1. Layout(line'[t], r) /\ Blank(r) \in Nat
      BY <1>1, <2>1, PlacesAre
    <3>. QED
      BY <3>1 DEF Layout
  <2>2. CASE ~r.whole
    <3>1. line'[t] = Eof
      BY <1>1, <2>2 DEF Shapes
    <3>. QED
      BY <3>1, <2>2 DEF Eof
  <2>. QED
    BY <2>1, <2>2
<1>4. Shapes'
  <2>1. line' \in [Threads -> Seq(Symbols)]
    <3>1. line' = [line EXCEPT ![t] = line'[t]]
      BY <1>1 DEF Shapes
    <3>. QED
      BY <3>1, <1>3 DEF Shapes
  <2>2. pc' \in [Threads -> 0..9]
    <3>1. pc' = [pc EXCEPT ![t] = 1] \/ pc' = [pc EXCEPT ![t] = 9]
      BY <1>1
    <3>2. pc \in [Threads -> 0..9] /\ 1 \in 0..9 /\ 9 \in 0..9
      BY DEF Shapes
    <3>. QED
      BY <3>1, <3>2
  <2>3. ret' \in [Threads -> {-1, 0, 1}]
    <3>1. ret' = ret \/ ret' = [ret EXCEPT ![t] = -1]
      BY <1>1
    <3>. QED
      BY <3>1 DEF Shapes
  <2>. QED
    BY <1>1, <2>1, <2>2, <2>3 DEF Shapes
<1>5. LinesEnd'
  BY <1>2, <1>3 DEF LinesEnd
<1>6. pc'[t] \in {1, 9} /\ (pc'[t] = 1 => r.whole)
  BY <1>1 DEF Shapes
<1>7. LinesThere'
  BY <1>2, <1>3, <1>6 DEF LinesThere, Inside
<1>8. UriThere'
  BY <1>1, <1>2, <1>6 DEF UriThere
<1>9. PointersPoint'
  <2>1. Len(line[t]) = 0
    BY <1>1 DEF LinesThere
  <2>2. \A u \in Threads : Len(line[u]) >= 1 => Len(line'[u]) = Len(line[u])
    BY <2>1, <1>2
  <2>3. \A p : IsPlace(p) => IsPlace(p)'
    BY <2>2, PlaceStays
  <2>. QED
    BY <2>3, <1>1 DEF PointersPoint
<1>. QED
  BY <1>4, <1>5, <1>7, <1>8, <1>9

LEMMA TypeCall ==
  ASSUME TypeInv, NEW t \in Threads, Call(t)
  PROVE  TypeInv'
<1>. USE DEF TypeInv
<1>. DEFINE given == Argument(t, pc[t])
            p == IF given = Null THEN olds ELSE given
<1>1. arg' = [arg EXCEPT ![t] = p] /\ UNCHANGED <<request, line, hr, olds, pc, token, ret, crashed>>
      /\ pc[t] \in Calls
  BY DEF Call
<1>2. given = Null \/ IsPlace(given)
  <2>1. CASE pc[t] = Method
    <3>1. given = <<t, 1>>
      BY <2>1 DEF Argument, Method, Host, HostPart
    <3>2. 1 \in 1..Len(line[t])
      <4>1. pc[t] = 1
        BY <2>1 DEF Method
      <4>2. Len(line[t]) >= 1 /\ Len(line[t]) \in Nat
        BY <4>1 DEF LinesThere, Inside, Shapes
      <4>. QED
        BY <4>2
    <3>. QED
      BY <3>1, <3>2 DEF IsPlace
  <2>2. CASE pc[t] = Host
    <3>1. token[t][Uri] # Null
      BY <2>2 DEF UriThere, Host
    <3>2. IsPlace(token[t][Uri])
      BY <3>1 DEF PointersPoint, Calls, Uri
    <3>3. given = WithoutScheme(token[t][Uri])
      BY <2>2 DEF Argument, Method, Host, HostPart
    <3>. QED
      BY <3>2, <3>3, WithoutSchemeWithin
  <2>3. CASE pc[t] = HostPart
    <3>1. given = token[t][Host]
      BY <2>3 DEF Argument, Method, Host, HostPart
    <3>. QED
      BY <3>1 DEF PointersPoint, Calls, Host
  <2>4. CASE pc[t] \notin {Method, Host, HostPart}
    <3>1. given = Null
      BY <2>4 DEF Argument
    <3>. QED
      BY <3>1
  <2>. QED
    BY <2>1, <2>2, <2>3, <2>4
<1>. HIDE DEF given
<1>3. p = Null \/ IsPlace(p)
  BY <1>2 DEF PointersPoint
<1>. HIDE DEF p
<1>4. p \in Pairs
  BY <1>3, PlaceIsPair DEF Pairs
<1>5. Shapes'
  BY <1>1, <1>4 DEF Shapes
<1>6. LinesEnd' /\ LinesThere' /\ UriThere'
  BY <1>1 DEF LinesEnd, LinesThere, Inside, UriThere
<1>8. PointersPoint'
  <2>1. olds' = Null \/ IsPlace(olds')
    BY <1>1 DEF PointersPoint
  <2>2. \A u \in Threads : arg'[u] = Null \/ IsPlace(arg'[u])
    BY <1>1, <1>3 DEF PointersPoint, Shapes
  <2>3. \A u \in Threads, i \in Calls : token'[u][i] = Null \/ IsPlace(token'[u][i])
    BY <1>1 DEF PointersPoint
  <2>. QED
    BY <2>1, <2>2, <2>3, <1>1 DEF PointersPoint, IsPlace
<1>. QED
  BY <1>5, <1>6, <1>8

LEMMA TypeReturn ==
  ASSUME TypeInv, NEW t \in Threads, Return(t)
  PROVE  TypeInv'
<1>. USE DEF TypeInv
<1>. DEFINE i == pc[t]
            s == Strtok(t, i)
<1>1. /\ i \in Calls /\ arg[t] # Null
      /\ line' = s.line /\ olds' = s.olds
      /\ token' = [token EXCEPT ![t][i] = s.token]
      /\ arg' = [arg EXCEPT ![t] = Null]
      /\ request' = request
  BY DEF Return
<1>2. IsPlace(arg[t])
  BY <1>1 DEF PointersPoint
<1>3. /\ s.token = Null \/ IsPlace(s.token)
      /\ IsPlace(s.olds)
      /\ s.line \in [Threads -> Seq(Symbols)]
      /\ \A u \in Threads : /\ Len(s.line[u]) = Len(line[u])
                            /\ Len(line[u]) >= 1 => s.line[u][Len(line[u])] = NUL
  BY <1>1, <1>2, StrtokWithin
<1>4. \/ crashed' = TRUE /\ UNCHANGED <<hr, pc, ret>>
      \/ ~ReadsNull(t, i) /\ Behind(t, i) /\ UNCHANGED crashed
  BY DEF Return
<1>. HIDE DEF s
<1>5. pc' \in [Threads -> 0..9] /\ ret' \in [Threads -> {-1, 0, 1}] /\ crashed' \in BOOLEAN
  <2>1. \A n \in Calls : n + 1 \in 0..9
    BY DEF Calls
  <2>. QED
    <3>1. CASE UNCHANGED <<hr, pc, ret>>
      BY <3>1, <1>4 DEF Shapes
    <3>2. CASE Behind(t, i)
      <4>1. \E n \in 0..9 : pc' = [pc EXCEPT ![t] = n]
        <5>1. i + 1 \in 0..9 /\ 9 \in 0..9
          BY <1>1, <2>1
        <5>2. pc' = [pc EXCEPT ![t] = 9] \/ pc' = [pc EXCEPT ![t] = i + 1]
          BY <3>2 DEF Behind
        <5>. QED
          BY <5>1, <5>2
      <4>2. ret' = ret \/ ret' = [ret EXCEPT ![t] = 1]
        BY <3>2 DEF Behind
      <4>. QED
        BY <4>1, <4>2, <1>4 DEF Shapes
    <3>. QED
      BY <3>1, <3>2, <1>4
<1>15. hr' \in [Threads -> Heads] /\ \A u \in Threads : hr'[u].host = hr[u].host
  <2>1. CASE hr' = hr
    BY <2>1 DEF Shapes
  <2>2. CASE IsKnown(token[t][Method]) /\ hr' = [hr EXCEPT ![t].method = StringAt(token[t][Method])[1]]
    <3>. DEFINE m == StringAt(token[t][Method])[1]
    <3>1. m \in Known
      BY <2>2 DEF IsKnown
    <3>. HIDE DEF m
    <3>2. hr[t] \in Heads
      BY DEF Shapes
    <3>3. [hr[t] EXCEPT !.method = m] \in Heads /\ [hr[t] EXCEPT !.method = m].host = hr[t].host
      BY <3>1, <3>2 DEF Heads
    <3>4. hr' = [hr EXCEPT ![t] = [hr[t] EXCEPT !.method = m]]
      BY <2>2 DEF m, Shapes
    <3>. QED
      BY <3>3, <3>4 DEF Shapes
  <2>. QED
    BY <2>1, <2>2, <1>4 DEF Behind
<1>6. s.token \in Pairs /\ s.olds \in Pairs
  BY <1>3, PlaceIsPair DEF Pairs
<1>7. token' \in [Threads -> [Calls -> Pairs]]
  BY <1>1, <1>6 DEF Shapes
<1>8. Shapes'
  BY <1>1, <1>3, <1>5, <1>6, <1>7, <1>15 DEF Shapes, Pairs
<1>9. LinesEnd'
  BY <1>1, <1>3 DEF LinesEnd
<1>10. \A u \in Threads : Len(line'[u]) = Len(line[u])
  BY <1>1, <1>3
<1>11. \A p : IsPlace(p) => IsPlace(p)'
  BY <1>10, PlaceStays
<1>16. LinesThere'
  <2>1. \A u \in Threads : (Inside(u)' => Inside(u)) /\ (pc'[u] = 0 => pc[u] = 0)
    <3>. TAKE u \in Threads
    <3>1. pc'[u] = pc[u] \/ (u = t /\ pc'[u] \in {i + 1, 9})
      BY <1>4 DEF Behind, Shapes
    <3>2. i \in 1..7
      BY <1>1 DEF Calls
    <3>. HIDE DEF i
    <3>3. i = pc[t]
      BY DEF i
    <3>. QED
      BY <3>1, <3>2, <3>3 DEF Inside
  <2>. QED
    BY <2>1, <1>10 DEF LinesThere
<1>12. \A u \in Threads, j \in Calls : token'[u][j] \in {token[u][j], s.token}
  BY <1>1 DEF Shapes
<1>13. PointersPoint'
  <2>1. olds' = Null \/ IsPlace(olds)'
    BY <1>1, <1>3, <1>10 DEF IsPlace
  <2>2. \A u \in Threads : arg'[u] \in {arg[u], Null}
    BY <1>1 DEF Shapes
  <2>3. \A u \in Threads : arg'[u] = Null \/ IsPlace(arg'[u])
    BY <2>2 DEF PointersPoint
  <2>4. \A u \in Threads, j \in Calls : token'[u][j] = Null \/ IsPlace(token'[u][j])
    BY <1>12, <1>3 DEF PointersPoint
  <2>5. \A u \in Threads : hr'[u].host = Null \/ IsPlace(hr'[u].host)
    BY <1>15 DEF PointersPoint
  <2>7. (\A u \in Threads : arg[u] = Null \/ IsPlace(arg[u]))'
    BY <2>3, <1>10 DEF IsPlace
  <2>8. (\A u \in Threads, j \in Calls : token[u][j] = Null \/ IsPlace(token[u][j]))'
    BY <2>4, <1>10 DEF IsPlace
  <2>9. (\A u \in Threads : hr[u].host = Null \/ IsPlace(hr[u].host))'
    BY <2>5, <1>10 DEF IsPlace
  <2>. QED
    BY <2>1, <2>7, <2>8, <2>9 DEF PointersPoint
<1>14. UriThere'
  <2>. SUFFICES ASSUME NEW u \in Threads, pc'[u] \in 4..8
                PROVE  token'[u][Uri] # Null
    BY DEF UriThere
  <2>1. CASE u # t
    <3>1. pc'[u] = pc[u] /\ token'[u] = token[u]
      BY <2>1, <1>1, <1>4 DEF Shapes, Behind
    <3>. QED
      BY <3>1 DEF UriThere
  <2>2. CASE u = t /\ i = Version
    <3>1. ~ReadsNull(t, i) /\ IsKnown(token[t][Method])
      BY <2>2, <1>4, <1>1 DEF Behind, Shapes, Version
    <3>2. token[t][Uri] # Null
      BY <3>1, <2>2 DEF ReadsNull
    <3>3. token'[t][Uri] = token[t][Uri]
      BY <2>2, <1>1 DEF Shapes, Version, Uri, Calls
    <3>. QED
      BY <3>2, <3>3, <2>2
  <2>3. CASE u = t /\ i # Version
    <3>1. i \in 4..8 /\ i # Uri
      BY <2>3, <1>4, <1>1 DEF Behind, Shapes, Version, Uri, Calls
    <3>2. token'[t][Uri] = token[t][Uri]
      BY <3>1, <1>1 DEF Shapes, Uri, Calls
    <3>. QED
      BY <3>1, <3>2, <2>3 DEF UriThere
  <2>. QED
    BY <2>1, <2>2, <2>3
<1>. QED
  BY <1>8, <1>9, <1>13, <1>14, <1>16

\* What Resolve stores.
WithDestination(x, h, n) == [x EXCEPT !.host = h, !.port = n]

LEMMA WithDestinationIs ==
  ASSUME NEW x \in Heads, NEW h \in Pairs, NEW n \in {0, 80, 8080}
  PROVE  LET y == WithDestination(x, h, n) IN
         y \in Heads /\ y.method = x.method /\ y.host = h /\ y.port = n
<1>. DEFINE y == [x EXCEPT !.host = h]
            z == [y EXCEPT !.port = n]
<1>1. y \in Heads /\ y.method = x.method /\ y.host = h
  BY DEF Heads
<1>2. WithDestination(x, h, n) = z
  BY DEF WithDestination
<1>. HIDE DEF y
<1>3. z \in Heads /\ z.method = y.method /\ z.host = y.host /\ z.port = n
  BY <1>1 DEF Heads
<1>. HIDE DEF z
<1>. QED
  BY <1>1, <1>2, <1>3

LEMMA TypeResolve ==
  ASSUME TypeInv, NEW t \in Threads, Resolve(t)
  PROVE  TypeInv'
<1>. USE DEF TypeInv
<1>. DEFINE h == token[t][Host]
            n == IF token[t][Port] = Null THEN 80 ELSE Atoi(StringAt(token[t][Port]))
<1>1. /\ pc[t] = 8
      /\ hr' = [hr EXCEPT ![t] = WithDestination(hr[t], h, n)]
      /\ pc' = pc \/ pc' = [pc EXCEPT ![t] = 9]
      /\ crashed' = TRUE \/ crashed' = crashed
      /\ UNCHANGED <<request, line, olds, arg, token, ret>>
  BY DEF Resolve, WithDestination, Shapes
<1>2. h \in Pairs /\ (h = Null \/ IsPlace(h))
  BY DEF Shapes, PointersPoint, Calls, Host
<1>3. n \in {0, 80, 8080}
  BY DEF Atoi
<1>. HIDE DEF h, n
<1>4. hr[t] \in Heads
  BY DEF Shapes
<1>6. WithDestination(hr[t], h, n) \in Heads /\ WithDestination(hr[t], h, n).host = h
  <2>. DEFINE Ports == {0, 80, 8080}
  <2>1. \A x \in Heads, p \in Pairs, m \in Ports :
          WithDestination(x, p, m) \in Heads /\ WithDestination(x, p, m).host = p
    BY WithDestinationIs
  <2>2. hr[t] \in Heads /\ h \in Pairs /\ n \in Ports
    BY <1>2, <1>3, <1>4
  <2>. HIDE DEF TypeInv, Ports
  <2>. QED
    BY <2>1, <2>2
<1>7. pc' \in [Threads -> 0..9]
  <2>1. pc \in [Threads -> 0..9] /\ 9 \in 0..9
    BY DEF Shapes
  <2>. HIDE DEF TypeInv
  <2>. QED
    BY <1>1, <2>1
<1>8. Shapes'
  BY <1>1, <1>6, <1>7 DEF Shapes
<1>9. \A u \in Threads : pc'[u] = pc[u] \/ (u = t /\ pc'[u] = 9)
  BY <1>1 DEF Shapes
<1>10. LinesEnd' /\ LinesThere'
  BY <1>1, <1>9 DEF LinesEnd, LinesThere, Inside
<1>11. UriThere'
  BY <1>1, <1>9 DEF UriThere
<1>12. PointersPoint'
  <2>1. \A u \in Threads : hr'[u].host = Null \/ IsPlace(hr'[u].host)
    <3>1. \A u \in Threads : hr'[u].host \in {hr[u].host, h}
      BY <1>1, <1>6 DEF Shapes
    <3>. QED
      BY <3>1, <1>2 DEF PointersPoint
  <2>. QED
    BY <2>1, <1>1 DEF PointersPoint, IsPlace
<1>. QED
  BY <1>8, <1>10, <1>11, <1>12

\* However the threads disturb each other, every variable keeps its type: a
\* pointer is null or points at a symbol of a line, and so does the host that is
\* stored.
THEOREM TypeCorrect == Spec => []TypeOK
<1>1. TypeInv /\ [Next]_vars => TypeInv'
  <2>. SUFFICES ASSUME TypeInv, [Next]_vars PROVE TypeInv'
    OBVIOUS
  <2>1. CASE Next
    BY <2>1, TypeEnter, TypeCall, TypeReturn, TypeResolve DEF Next
  <2>2. CASE UNCHANGED vars
    BY <2>2 DEF vars, TypeInv, Shapes, LinesEnd, LinesThere, PointersPoint, IsPlace,
           UriThere, Inside
  <2>. QED
    BY <2>1, <2>2
<1>2. TypeInv => TypeOK
  BY PointersAreTyped
<1>. QED
  BY TypeInit, <1>1, <1>2, PTL DEF Spec

-----------------------------------------------------------------------------
(* One thread at a time.                                                   *)

\* How many calls of t have returned.
Done(t) ==
  IF pc[t] = 0 \/ ret[t] = -1 THEN 0
  ELSE IF pc[t] = 9 THEN (IF ret[t] = 0 THEN 7 ELSE 3)
  ELSE pc[t] - 1

\* It has a line.
Begun(t) == pc[t] # 0 /\ ret[t] # -1

\* Its method has a name.
Taken(t) == pc[t] \in 4..8 \/ (pc[t] = 9 /\ ret[t] = 0)

\* One thread at a time is inside.
Alone == \A t, u \in Threads : Inside(t) /\ Inside(u) => t = u

\* Of each line, just what the calls of its thread were to overwrite is.
LinesCut ==
  \A t \in Threads : Begun(t) =>
    /\ Len(line[t]) = Blank(request[t]) + 2
    /\ \A k \in 1..Blank(request[t]) + 2 : line[t][k] = Symbol(request[t], Done(t), k)

\* Each call has returned its own part.
TokensFound ==
  \A t \in Threads : \A i \in 1..Done(t) :
    token[t][i] = IF Missing(request[t], i) THEN Null ELSE <<t, Start(request[t], i)>>

\* The static variable is that of the thread inside.
GoesOn ==
  \A t \in Threads : Inside(t) /\ pc[t] # Method =>
    olds = <<t, Rest(request[t], pc[t] - 1)>>

\* A call works on the place where its part starts.
Begins ==
  \A t \in Threads : arg[t] # Null =>
    pc[t] \in Calls /\ arg[t] = <<t, Start(request[t], pc[t])>>

Returns == \A t \in Threads : pc[t] # 9 => ret[t] = 0

\* Who is inside has a whole line, who is past the third call a known method,
\* and who has returned was refused for the lack of one of them.
Accepts ==
  \A t \in Threads :
    /\ Begun(t) => request[t].whole
    /\ Taken(t) => request[t].method \in Known
    /\ pc[t] = 9 /\ ret[t] = -1 => ~request[t].whole
    /\ pc[t] = 9 /\ ret[t] = 1 => request[t].method \notin Known

\* What is stored of a request.
Stores ==
  \A t \in Threads :
    /\ hr[t].method = IF Taken(t) THEN request[t].method ELSE UnknownMethod
    /\ IF pc[t] = 9 /\ ret[t] = 0
         THEN /\ hr[t].host = <<t, Front(request[t])>>
              /\ hr[t].port = IF request[t].port = None THEN 80 ELSE 8080
         ELSE hr[t].host = Null /\ hr[t].port = 0

\* The invariant of threads that take turns.
TurnInv ==
  /\ TypeInv /\ Alone /\ LinesCut /\ TokensFound /\ GoesOn /\ Begins
  /\ Returns /\ Accepts /\ Stores /\ NoCrash

\* The line of t when n calls have returned.
IsCut(t, n) ==
  /\ Len(line[t]) = Blank(request[t]) + 2
  /\ \A k \in 1..Blank(request[t]) + 2 : line[t][k] = Symbol(request[t], n, k)

LEMMA RequestIs ==
  ASSUME Shapes, NEW t \in Threads
  PROVE  request[t] \in Parts /\ line[t] \in Seq(Symbols)
BY RequestsAssumption DEF Shapes

\* A call of strtok that works on the place it should work on.
LEMMA StrtokIs ==
  ASSUME Shapes, NEW t \in Threads, NEW i \in Calls, NEW r, r = request[t],
         IsCut(t, i - 1), arg[t] = <<t, Start(r, i)>>
  PROVE  /\ Strtok(t, i).token = IF Missing(r, i) THEN Null ELSE <<t, Start(r, i)>>
         /\ Strtok(t, i).olds = <<t, Rest(r, i)>>
         /\ \A u \in Threads : u # t => Strtok(t, i).line[u] = line[u]
         /\ Len(Strtok(t, i).line[t]) = Blank(r) + 2
         /\ \A k \in 1..Blank(r) + 2 : Strtok(t, i).line[t][k] = Symbol(r, i, k)
<1>. DEFINE D == Delimiters(i)
            n == Blank(r) + 2
            s == Start(r, i)
            start == FirstNotIn(<<t, s>>, D)
            end == FirstIn(<<t, start>>, D \cup {NUL})
<1>1. r \in Parts /\ line[t] \in Seq(Symbols) /\ line \in [Threads -> Seq(Symbols)]
  BY RequestIs DEF Shapes
<1>2. /\ Len(line[t]) = n /\ n \in Nat
      /\ \A k \in 1..n : line[t][k] = Symbol(r, i - 1, k)
  BY <1>1, PlacesAre DEF IsCut
<1>3. NUL \notin D
  BY DelimitersAre
<1>4. Strtok(t, i) =
        IF line[t][start] = NUL
          THEN [token |-> Null, olds |-> <<t, start>>, line |-> line]
          ELSE [token |-> <<t, start>>,
                olds |-> <<t, IF line[t][end] = NUL THEN end ELSE end + 1>>,
                line |-> [line EXCEPT ![t][end] = NUL]]
  BY PointerIs DEF Strtok
<1>5. CASE Missing(r, i)
  <2>1. NoPiece(r, i)
    BY <1>1, <1>5, NoPieceIs
  <2>2. s \in 1..n /\ line[t][s] = NUL
    BY <2>1, <1>2 DEF NoPiece
  <2>. HIDE DEF s, D
  <2>3. start = s
    BY <2>2, <1>1, <1>2, <1>3, FirstNotInIs
  <2>. HIDE DEF start, end
  <2>4. Strtok(t, i) = [token |-> Null, olds |-> <<t, s>>, line |-> line]
    BY <1>4, <2>2, <2>3
  <2>5. Rest(r, i) = s /\ \A k \in 1..n : line[t][k] = Symbol(r, i, k)
    BY <2>1, <1>2 DEF NoPiece, s
  <2>. QED
    BY <2>4, <2>5, <1>2, <1>5 DEF s
<1>6. CASE ~Missing(r, i)
  <2>. DEFINE z == End(r, i)
  <2>1. Piece(r, i)
    BY <1>1, <1>6, PieceIs
  <2>2. s \in Nat /\ z \in Nat /\ 1 <= s /\ s < z /\ z <= n
    BY <2>1 DEF Piece
  <2>3. /\ \A k \in s..z - 1 : Symbol(r, i - 1, k) \notin D \cup {NUL}
        /\ Symbol(r, i - 1, z) \in D \cup {NUL}
        /\ Rest(r, i) = IF Symbol(r, i - 1, z) = NUL THEN z ELSE z + 1
        /\ \A k \in 1..n : Symbol(r, i, k) = IF k = z THEN NUL ELSE Symbol(r, i - 1, k)
    BY <2>1 DEF Piece
  <2>. HIDE DEF s, z, D, n
  <2>4. \A k \in s..z : k \in 1..n
    BY <2>2, <1>2
  <2>5. \A k \in s..z : line[t][k] = Symbol(r, i - 1, k)
    BY <2>4, <1>2
  <2>6. s \in s..z - 1 /\ z \in s..z /\ \A k \in s..z - 1 : k \in s..z
    BY <2>2
  <2>7. line[t][s] \notin D /\ line[t][s] # NUL
    BY <2>3, <2>5, <2>6
  <2>8. start = s
    BY <2>7, <2>4, <2>6, <1>1, <1>2, FirstNotInIs
  <2>. HIDE DEF start
  <2>9. line[t][z] \in D \cup {NUL} /\ \A k \in s..z - 1 : line[t][k] \notin D \cup {NUL}
    BY <2>3, <2>5, <2>6
  <2>10. z \in 1..Len(line[t]) /\ s \in 1..z
    BY <2>2, <1>2
  <2>11. FirstIn(<<t, s>>, D \cup {NUL}) = z
    BY <2>9, <2>10, <1>1, FirstInIs
  <2>12. end = z
    BY <2>8, <2>11
  <2>. HIDE DEF end
  <2>. DEFINE cut == [line EXCEPT ![t][z] = NUL]
  <2>13. Strtok(t, i) = [token |-> <<t, s>>,
                         olds |-> <<t, IF line[t][z] = NUL THEN z ELSE z + 1>>,
                         line |-> cut]
    BY <1>4, <2>7, <2>8, <2>12
  <2>14. cut = [line EXCEPT ![t] = [line[t] EXCEPT ![z] = NUL]]
    BY <1>1
  <2>15. \A u \in Threads : u # t => cut[u] = line[u]
    BY <2>14, <1>1
  <2>16. cut[t] = [line[t] EXCEPT ![z] = NUL]
    BY <2>14, <1>1
  <2>17. NUL \in Symbols
    BY DEF Symbols
  <2>18. Len(cut[t]) = n /\ \A k \in 1..n : cut[t][k] = IF k = z THEN NUL ELSE line[t][k]
    BY <2>16, <2>17, <2>10, <1>1, <1>2
  <2>. HIDE DEF cut
  <2>19. \A k \in 1..n : cut[t][k] = Symbol(r, i, k)
    BY <2>18, <2>3, <1>2
  <2>20. Rest(r, i) = IF line[t][z] = NUL THEN z ELSE z + 1
    BY <2>3, <2>5, <2>6
  <2>21. /\ Strtok(t, i).token = <<t, s>>
         /\ Strtok(t, i).olds = <<t, Rest(r, i)>>
         /\ Strtok(t, i).line = cut
    BY <2>13, <2>20
  <2>. QED
    BY <2>21, <2>15, <2>18, <2>19, <1>6 DEF s, n
<1>. QED
  BY <1>5, <1>6

\* The uri, cut out of the line: "//" is only found behind a scheme.
LEMMA HoldsIs ==
  ASSUME Shapes, NEW t \in Threads, NEW r, r = request[t], IsCut(t, 3),
         NEW k \in {3, Front(r)}, NEW s \in {"http", "https"}
  PROVE  Holds(<<t, k>>, s) <=> k = 3 /\ r.scheme = s
<1>. DEFINE w == Written(r)
            g == Blank(r)
            str == SubSeq(line[t], k, g - 1)
<1>1. r \in Parts /\ line[t] \in Seq(Symbols)
  BY RequestIs
<1>2. k \in {3, 7} /\ g \in Nat /\ k < g
  BY <1>1, PlacesAre
<1>3. w \in Seq(Symbols) /\ Len(line[t]) = g + 2
  BY <1>1, WrittenIs DEF Layout, IsCut
<1>4. line[t][g] = NUL /\ \A j \in 3..g - 1 : line[t][j] = w[j]
  <2>1. \A j \in 1..g + 2 : line[t][j] = IF j \in {2, g} THEN NUL ELSE w[j]
    BY CutsAre DEF IsCut, Symbol
  <2>2. g \in 1..g + 2 /\ \A j \in 3..g - 1 : j \in 1..g + 2 /\ j \notin {2, g}
    BY <1>2
  <2>. HIDE DEF g, w
  <2>. QED
    BY <2>1, <2>2
<1>5. \A j \in 3..g - 1 : line[t][j] # NUL
  BY <1>4, <1>1, UriIs
<1>6. StringAt(<<t, k>>) = str
  <2>1. g \in 1..Len(line[t]) /\ k \in 1..g /\ \A j \in k..g - 1 : j \in 3..g - 1
    BY <1>2, <1>3
  <2>. HIDE DEF g
  <2>. QED
    BY <2>1, <1>1, <1>4, <1>5, StringIs
<1>7. str \in Seq(Symbols) /\ Len(str) = g - k /\ \A j \in 1..g - k : str[j] = w[(k - 1) + j]
  <2>1. \A j \in 1..g - k : (k - 1) + j \in 3..g - 1
    BY <1>2
  <2>2. str \in Seq(Symbols) /\ Len(str) = g - k /\ \A j \in 1..g - k : str[j] = line[t][(k - 1) + j]
    <3>. HIDE DEF g
    <3>. QED
      BY <1>1, <1>2, <1>3
  <2>. HIDE DEF str, g, w
  <2>. QED
    BY <2>1, <2>2, <1>4
<1>8. Url(s) = <<s, COLON, SLASH, SLASH>>
  BY DEF Url, None
<1>9. Holds(<<t, k>>, s) <=> \E i \in 0..(g - k) - 4 : SubSeq(str, i + 1, i + 4) = Url(s)
  BY <1>6, <1>7 DEF Holds
<1>. HIDE DEF str
<1>10. ASSUME NEW i \in 0..(g - k) - 4
       PROVE  /\ SubSeq(str, i + 1, i + 4) \in Seq(Symbols)
              /\ Len(SubSeq(str, i + 1, i + 4)) = 4
              /\ \A j \in 1..4 : SubSeq(str, i + 1, i + 4)[j] = w[(k - 1) + (i + j)]
  <2>1. \A j \in 1..4 : i + j \in 1..g - k
    BY <1>2
  <2>2. i + 1 \in 1..Len(str) /\ i + 4 \in 1..Len(str)
    BY <1>2, <1>7
  <2>3. /\ SubSeq(str, i + 1, i + 4) \in Seq(Symbols)
        /\ Len(SubSeq(str, i + 1, i + 4)) = 4
        /\ \A j \in 1..4 : SubSeq(str, i + 1, i + 4)[j] = str[i + j]
    <3>. HIDE DEF g
    <3>. QED
      BY <1>2, <1>7, <2>2
  <2>. HIDE DEF g, w
  <2>. QED
    BY <2>1, <2>3, <1>7
<1>11. ASSUME NEW i \in 0..(g - k) - 4, SubSeq(str, i + 1, i + 4) = Url(s)
       PROVE  k = 3 /\ r.scheme = s
  <2>1. w[(k - 1) + (i + 1)] = s /\ w[(k - 1) + (i + 3)] = SLASH /\ w[(k - 1) + (i + 4)] = SLASH
    <3>1. /\ SubSeq(str, i + 1, i + 4)[1] = s
          /\ SubSeq(str, i + 1, i + 4)[3] = SLASH
          /\ SubSeq(str, i + 1, i + 4)[4] = SLASH
      <4>1. Url(s)[1] = s /\ Url(s)[3] = SLASH /\ Url(s)[4] = SLASH
        BY <1>8
      <4>. HIDE DEF g
      <4>. QED
        BY <4>1, <1>11
    <3>2. \A j \in {1, 3, 4} : SubSeq(str, i + 1, i + 4)[j] = w[(k - 1) + (i + j)]
      BY <1>10
    <3>. HIDE DEF w
    <3>. QED
      BY <3>1, <3>2
  <2>. DEFINE m == (k - 1) + (i + 3)
  <2>2. m \in 3..g - 1 /\ m + 1 \in 3..g - 1 /\ (k - 1) + (i + 4) = m + 1 /\ (k - 1) + (i + 1) = m - 2
        /\ m >= k + 2
    BY <1>2
  <2>. HIDE DEF m
  <2>3. /\ m = Slash(r) \/ (r.scheme # None /\ m \in {5, 6})
        /\ m + 1 = Slash(r) \/ (r.scheme # None /\ m + 1 \in {5, 6})
    BY <2>1, <2>2, <1>1, UriIs DEF m
  <2>4. r.scheme # None /\ m = 5
    <3>1. m \in Nat /\ Slash(r) \in Nat
      BY <2>2, <1>1, PlacesAre
    <3>2. r.scheme # None
      BY <2>3, <3>1
    <3>3. Slash(r) > 7
      BY <3>2, <1>1, PlacesAre
    <3>. QED
      BY <2>3, <3>1, <3>2, <3>3
  <2>5. k = 3 /\ w[3] = s
    BY <2>1, <2>2, <2>4, <1>2
  <2>6. w[3] = r.scheme
    BY <2>4, <1>1, WrittenIs DEF Layout
  <2>. QED
    BY <2>5, <2>6
<1>12. ASSUME k = 3, r.scheme = s
       PROVE  SubSeq(str, 0 + 1, 0 + 4) = Url(s) /\ 0 \in 0..(g - k) - 4
  <2>1. r.scheme # None /\ g >= 8
    BY <1>1, <1>12, PlacesAre DEF None
  <2>2. 0 \in 0..(g - k) - 4
    BY <2>1, <1>2, <1>12
  <2>3. w[3] = s /\ w[4] = COLON /\ w[5] = SLASH /\ w[6] = SLASH
    BY <2>1, <1>1, <1>12, WrittenIs DEF Layout
  <2>. DEFINE q == SubSeq(str, 0 + 1, 0 + 4)
  <2>4. q \in Seq(Symbols) /\ Len(q) = 4 /\ \A j \in 1..4 : q[j] = w[(k - 1) + (0 + j)]
    BY <2>2, <1>10
  <2>. HIDE DEF q
  <2>5. q[1] = s /\ q[2] = COLON /\ q[3] = SLASH /\ q[4] = SLASH
    <3>1. q[1] = w[3] /\ q[2] = w[4] /\ q[3] = w[5] /\ q[4] = w[6]
      BY <2>4, <1>12
    <3>. QED
      BY <3>1, <2>3
  <2>6. q = <<s, COLON, SLASH, SLASH>>
    BY <2>4, <2>5
  <2>. QED
    BY <2>2, <2>6, <1>8 DEF q
<1>. QED
  BY <1>9, <1>11, <1>12

LEMMA WithoutSchemeIs ==
  ASSUME Shapes, NEW t \in Threads, NEW r, r = request[t], IsCut(t, 3)
  PROVE  WithoutScheme(<<t, 3>>) = <<t, Front(r)>>
<1>1. r \in Parts /\ r.scheme \in {None, "http", "https"}
  BY RequestIs, PartsAre
<1>2. Holds(<<t, 3>>, "http") <=> r.scheme = "http"
  BY HoldsIs
<1>3. Holds(<<t, 3>>, "https") <=> r.scheme = "https"
  BY HoldsIs
<1>4. r.scheme # None => Front(r) = 7 /\ ~Holds(<<t, 7>>, "https")
  <2>. SUFFICES ASSUME r.scheme # None
                PROVE  Front(r) = 7 /\ ~Holds(<<t, 7>>, "https")
    OBVIOUS
  <2>1. Front(r) = 7
    BY <1>1, PlacesAre
  <2>2. Holds(<<t, Front(r)>>, "https") <=> Front(r) = 3 /\ r.scheme = "https"
    BY HoldsIs
  <2>. QED
    BY <2>1, <2>2
<1>5. \A s \in {"http", "https"} : Skip(<<t, 3>>, s) = <<t, 7>>
  <2>. TAKE s \in {"http", "https"}
  <2>1. Len(Url(s)) = 4
    <3>1. s # None
      BY DEF None
    <3>. QED
      BY <3>1 DEF Url
  <2>. QED
    BY <2>1, PointerIs DEF Skip
<1>6. CASE r.scheme = None
  <2>1. Front(r) = 3 /\ ~Holds(<<t, 3>>, "http") /\ ~Holds(<<t, 3>>, "https")
    BY <1>1, <1>2, <1>3, <1>6, PlacesAre DEF None
  <2>. QED
    BY <2>1 DEF WithoutScheme
<1>7. CASE r.scheme = "http"
  <2>1. Front(r) = 7 /\ Holds(<<t, 3>>, "http") /\ ~Holds(<<t, 7>>, "https")
    BY <1>2, <1>4, <1>7 DEF None
  <2>2. Skip(<<t, 3>>, "http") = <<t, 7>>
    BY <1>5
  <2>. QED
    BY <2>1, <2>2 DEF WithoutScheme
<1>8. CASE r.scheme = "https"
  <2>1. Front(r) = 7 /\ ~Holds(<<t, 3>>, "http") /\ Holds(<<t, 3>>, "https")
    BY <1>2, <1>3, <1>4, <1>8 DEF None
  <2>2. Skip(<<t, 3>>, "https") = <<t, 7>>
    BY <1>5
  <2>. QED
    BY <2>1, <2>2 DEF WithoutScheme
<1>. QED
  BY <1>1, <1>6, <1>7, <1>8

\* A call that goes on starts where the one before it stopped.
LEMMA RestIsStart ==
  ASSUME NEW r \in Parts, NEW i \in {Uri, Version, Path, Port}
  PROVE  Rest(r, i - 1) = Start(r, i)
<1>1. CASE i = 2
  BY <1>1 DEF Rest, Start, Method, Uri, Version, Host, Path, HostPart, Port
<1>2. CASE i = 3
  BY <1>2 DEF Rest, Start, Method, Uri, Version, Host, Path, HostPart, Port
<1>3. CASE i = 5
  BY <1>3 DEF Rest, Start, Method, Uri, Version, Host, Path, HostPart, Port
<1>4. CASE i = 7
  BY <1>4 DEF Rest, Start, Method, Uri, Version, Host, Path, HostPart, Port
<1>. QED
  BY <1>1, <1>2, <1>3, <1>4 DEF Uri, Version, Path, Port

LEMMA TokenIs ==
  ASSUME TurnInv, NEW t \in Threads, NEW i \in 1..Done(t), i \notin {Path, Port}
  PROVE  token[t][i] = <<t, Start(request[t], i)>>
BY DEF TurnInv, TokensFound, Missing

LEMMA DoneIs ==
  ASSUME Shapes, NEW t \in Threads
  PROVE  /\ Done(t) \in 0..7
         /\ pc[t] \in 1..8 /\ ret[t] = 0 => Done(t) = pc[t] - 1
BY DEF Shapes, Done

\* What strtok works on: its argument, or where it stopped.
LEMMA ArgumentIs ==
  ASSUME TurnInv, NEW t \in Threads, NEW i \in Calls, pc[t] = i
  PROVE  (IF Argument(t, i) = Null THEN olds ELSE Argument(t, i))
            = <<t, Start(request[t], i)>>
<1>. DEFINE r == request[t]
<1>1. Shapes /\ r \in Parts
  BY RequestIs DEF TurnInv, TypeInv
<1>2. i \in 1..7 /\ ret[t] = 0 /\ Done(t) = i - 1
  BY <1>1, DoneIs DEF Calls, TurnInv, Returns
<1>. USE DEF Method, Uri, Version, Host, Path, HostPart, Port
<1>3. CASE i = Method
  <2>1. Argument(t, i) = <<t, 1>> /\ Start(r, i) = 1
    BY <1>3 DEF Argument, Start
  <2>. QED
    BY <2>1, PointerIs
<1>4. CASE i = Host
  <2>1. token[t][Uri] = <<t, 3>>
    <3>1. 2 \in 1..Done(t)
      BY <1>2, <1>4
    <3>2. token[t][2] = <<t, Start(r, 2)>>
      BY <3>1, TokenIs
    <3>3. Start(r, 2) = 3
      BY DEF Start
    <3>. QED
      BY <3>2, <3>3
  <2>2. IsCut(t, 3)
    BY <1>2, <1>4 DEF TurnInv, LinesCut, IsCut, Begun
  <2>3. WithoutScheme(<<t, 3>>) = <<t, Front(r)>>
    BY <1>1, <2>2, WithoutSchemeIs
  <2>4. Argument(t, i) = WithoutScheme(token[t][Uri]) /\ Start(r, i) = Front(r)
    BY <1>4 DEF Argument, Start
  <2>. QED
    BY <2>1, <2>3, <2>4, PointerIs
<1>5. CASE i = HostPart
  <2>1. token[t][Host] = <<t, Front(r)>>
    <3>1. 4 \in 1..Done(t)
      BY <1>2, <1>5
    <3>2. token[t][4] = <<t, Start(r, 4)>>
      BY <3>1, TokenIs
    <3>3. Start(r, 4) = Front(r)
      BY DEF Start
    <3>. QED
      BY <3>2, <3>3
  <2>2. Argument(t, i) = token[t][Host] /\ Start(r, i) = Front(r)
    BY <1>5 DEF Argument, Start
  <2>. QED
    BY <2>1, <2>2, PointerIs
<1>6. CASE i \in {Uri, Version, Path, Port}
  <2>1. Argument(t, i) = Null
    BY <1>6 DEF Argument
  <2>2. Inside(t) /\ pc[t] # Method
    BY <1>2, <1>6 DEF Inside
  <2>3. olds = <<t, Rest(r, i - 1)>>
    BY <2>2 DEF TurnInv, GoesOn
  <2>4. Rest(r, i - 1) = Start(r, i)
    BY <1>1, <1>6, RestIsStart
  <2>. QED
    BY <2>1, <2>3, <2>4
<1>. QED
  BY <1>2, <1>3, <1>4, <1>5, <1>6

\* The method that is resolved is that of the request.
LEMMA MethodIs ==
  ASSUME TurnInv, NEW t \in Threads, Done(t) \in 1..7, Begun(t)
  PROVE  StringAt(token[t][Method]) = <<request[t].method>>
<1>. DEFINE r == request[t]
            g == Blank(r)
            n == Done(t)
<1>1. r \in Parts /\ line[t] \in Seq(Symbols)
  BY RequestIs DEF TurnInv, TypeInv
<1>2. token[t][Method] = <<t, 1>>
  <2>1. 1 \in 1..Done(t)
    OBVIOUS
  <2>2. token[t][1] = <<t, Start(r, 1)>>
    BY <2>1, TokenIs DEF Path, Port
  <2>3. Start(r, 1) = 1
    BY DEF Start, Method, Uri, Version, Host, Path, HostPart, Port
  <2>. QED
    BY <2>2, <2>3 DEF Method
<1>3. g \in Nat /\ g > 3 /\ Slash(r) > 3 /\ Front(r) >= 3
  BY <1>1, PlacesAre
<1>4. Len(line[t]) = g + 2 /\ line[t][1] = Symbol(r, n, 1) /\ line[t][2] = Symbol(r, n, 2)
  <2>1. 1 \in 1..g + 2 /\ 2 \in 1..g + 2
    BY <1>3
  <2>. HIDE DEF g, n
  <2>2. Len(line[t]) = g + 2 /\ \A k \in 1..g + 2 : line[t][k] = Symbol(r, n, k)
    BY DEF TurnInv, LinesCut, g, n
  <2>. QED
    BY <2>1, <2>2
<1>5. Symbol(r, n, 1) = r.method /\ Symbol(r, n, 2) = NUL
  <2>1. ~Cut(r, n, 1) /\ Cut(r, n, 2)
    <3>1. 1 # 2 /\ 1 # Blank(r) /\ 1 # Slash(r) /\ 1 # Front(r) + 1
      BY <1>3, <1>1, PlacesAre
    <3>. QED
      BY <3>1 DEF Cut, Method
  <2>2. Written(r)[1] = r.method
    BY <1>1, WrittenIs DEF Layout
  <2>. QED
    BY <2>1, <2>2 DEF Symbol
<1>6. r.method # NUL
  BY <1>1, WordsAre
<1>. HIDE DEF r, g, n
<1>7. 1 \in 1..Len(line[t]) - 1
  BY <1>3, <1>4
<1>8. StringAt(<<t, 1>>) = <<line[t][1]>>
  <2>1. line[t][1] # NUL /\ line[t][1 + 1] = NUL
    BY <1>4, <1>5, <1>6
  <2>. QED
    BY <2>1, <1>1, <1>7, WordIs
<1>. QED
  BY <1>2, <1>4, <1>5, <1>8 DEF r

\* The invariant TurnInv holds at first, and every action keeps it, in turn.
LEMMA TurnInit == Init => TurnInv
<1>. SUFFICES ASSUME Init PROVE TurnInv
  OBVIOUS
<1>1. TypeInv
  BY TypeInit
<1>2. \A t \in Threads : /\ Done(t) = 0 /\ ~Inside(t) /\ pc[t] = 0 /\ arg[t] = Null /\ ret[t] = 0
                         /\ ~Begun(t) /\ ~Taken(t) /\ hr[t] = HttpRequestInit
  BY DEF Init, Done, Inside, Begun, Taken
<1>3. Alone /\ LinesCut /\ TokensFound /\ GoesOn /\ Begins /\ Returns /\ NoCrash
  BY <1>2 DEF Init, Alone, LinesCut, TokensFound, GoesOn, Begins, Returns, NoCrash
<1>4. Accepts /\ Stores
  BY <1>2 DEF Accepts, Stores, HttpRequestInit
<1>. QED
  BY <1>1, <1>3, <1>4 DEF TurnInv

LEMMA TurnEnter ==
  ASSUME TurnInv, ~Overlap, NEW t \in Threads, Enter(t)
  PROVE  TurnInv'
<1>1. TypeInv' /\ Shapes /\ Shapes'
  BY TypeEnter DEF TurnInv, TypeInv
<1>. DEFINE r == request[t]
<1>2. /\ r \in Parts /\ pc[t] = 0
      /\ line' = [line EXCEPT ![t] = IF r.whole THEN Written(r) ELSE Eof]
      /\ IF r.whole
           THEN /\ pc' = [pc EXCEPT ![t] = 1] /\ ret' = ret
                /\ Layout(line'[t], r)
           ELSE pc' = [pc EXCEPT ![t] = 9] /\ ret' = [ret EXCEPT ![t] = -1]
      /\ UNCHANGED <<request, hr, olds, arg, token, crashed>>
  BY <1>1, EnterIs
<1>13. ret[t] = 0 /\ \A u \in Threads : ~Inside(u)
  BY DEF Enter, TurnInv, Returns
<1>3. /\ \A u \in Threads : u # t => pc'[u] = pc[u] /\ ret'[u] = ret[u] /\ line'[u] = line[u]
      /\ IF r.whole THEN pc'[t] = 1 /\ ret'[t] = 0 /\ line'[t] = Written(r)
                    ELSE pc'[t] = 9 /\ ret'[t] = -1
  BY <1>1, <1>2, <1>13 DEF Shapes
<1>4. r.whole \in BOOLEAN
  BY <1>2, PartsAre
<1>. HIDE DEF r
<1>5. /\ \A u \in Threads : u # t => /\ Done(u)' = Done(u) /\ ~Inside(u)'
                                     /\ (Begun(u)' <=> Begun(u)) /\ (Taken(u)' <=> Taken(u))
      /\ Done(t)' = 0 /\ Done(t) = 0 /\ (Begun(t)' <=> r.whole) /\ ~Taken(t)' /\ ~Taken(t)
  BY <1>2, <1>3, <1>4, <1>13 DEF Done, Inside, Begun, Taken
<1>6. Alone' /\ Returns' /\ NoCrash'
  BY <1>2, <1>3, <1>4, <1>5, <1>13 DEF Alone, Returns, NoCrash, TurnInv
<1>7. TokensFound'
  BY <1>2, <1>5 DEF TokensFound, TurnInv
<1>8. LinesCut'
  <2>. SUFFICES ASSUME NEW u \in Threads, Begun(u)' PROVE IsCut(u, Done(u))'
    BY DEF LinesCut, IsCut
  <2>1. CASE u # t
    BY <2>1, <1>2, <1>3, <1>5 DEF IsCut, LinesCut, TurnInv
  <2>2. CASE u = t
    <3>1. line'[t] = Written(r) /\ Done(t)' = 0 /\ request'[t] = r
      BY <2>2, <1>2, <1>3, <1>5 DEF r
    <3>2. Len(Written(r)) = Blank(r) + 2
      BY <1>2, WrittenIs DEF Layout
    <3>3. \A k : Symbol(r, 0, k) = Written(r)[k]
      BY CutsAre DEF Symbol
    <3>. QED
      BY <2>2, <3>1, <3>2, <3>3 DEF IsCut
  <2>. QED
    BY <2>1, <2>2
<1>9. GoesOn'
  BY <1>3, <1>4, <1>5 DEF GoesOn, Method, Inside
<1>10. Begins'
  BY <1>2, <1>3 DEF Begins, TurnInv, Calls
<1>11. Accepts'
  <2>. SUFFICES ASSUME NEW u \in Threads
                PROVE  /\ Begun(u)' => request[u].whole
                       /\ Taken(u)' => request[u].method \in Known
                       /\ pc'[u] = 9 /\ ret'[u] = -1 => ~request[u].whole
                       /\ pc'[u] = 9 /\ ret'[u] = 1 => request[u].method \notin Known
    BY <1>2 DEF Accepts
  <2>1. CASE u # t
    BY <2>1, <1>3, <1>5 DEF Accepts, TurnInv
  <2>2. CASE u = t
    BY <2>2, <1>3, <1>4, <1>5 DEF r
  <2>. QED
    BY <2>1, <2>2
<1>12. Stores'
  <2>1. \A u \in Threads : /\ (Taken(u)' <=> Taken(u))
                           /\ (pc'[u] = 9 /\ ret'[u] = 0) <=> (pc[u] = 9 /\ ret[u] = 0)
    <3>1. pc[t] # 9 /\ ~(pc'[t] = 9 /\ ret'[t] = 0)
      BY <1>2, <1>3, <1>4
    <3>. QED
      BY <3>1, <1>3, <1>5
  <2>. QED
    BY <2>1, <1>2 DEF Stores, TurnInv
<1>. QED
  BY <1>1, <1>6, <1>7, <1>8, <1>9, <1>10, <1>11, <1>12 DEF TurnInv

LEMMA TurnCall ==
  ASSUME TurnInv, NEW t \in Threads, Call(t)
  PROVE  TurnInv'
<1>1. TypeInv'
  BY TypeCall DEF TurnInv
<1>. DEFINE i == pc[t]
<1>2. /\ i \in Calls
      /\ arg' = [arg EXCEPT ![t] = IF Argument(t, i) = Null THEN olds ELSE Argument(t, i)]
      /\ UNCHANGED <<request, line, hr, olds, pc, token, ret, crashed>>
      /\ Shapes
  BY DEF Call, TurnInv, TypeInv
<1>3. arg' = [arg EXCEPT ![t] = <<t, Start(request[t], i)>>]
  BY <1>2, ArgumentIs
<1>4. \A u \in Threads : /\ Done(u)' = Done(u) /\ (Inside(u)' <=> Inside(u))
                         /\ (Begun(u)' <=> Begun(u)) /\ (Taken(u)' <=> Taken(u))
  BY <1>2 DEF Done, Inside, Begun, Taken
<1>5. /\ Alone' /\ LinesCut' /\ TokensFound' /\ GoesOn' /\ Returns'
      /\ Accepts' /\ Stores' /\ NoCrash'
  <2>1. Alone' /\ Returns' /\ NoCrash'
    BY <1>2, <1>4 DEF Alone, Returns, NoCrash, TurnInv
  <2>5. Accepts' /\ Stores'
    BY <1>2, <1>4 DEF Accepts, Stores, TurnInv
  <2>2. LinesCut'
    BY <1>2, <1>4 DEF LinesCut, TurnInv
  <2>3. TokensFound'
    BY <1>2, <1>4 DEF TokensFound, TurnInv
  <2>4. GoesOn'
    BY <1>2, <1>4 DEF GoesOn, TurnInv
  <2>. QED
    BY <2>1, <2>2, <2>3, <2>4, <2>5
<1>6. Begins'
  <2>1. \A u \in Threads : arg'[u] = IF u = t THEN <<t, Start(request[t], i)>> ELSE arg[u]
    BY <1>2, <1>3 DEF Shapes
  <2>. QED
    BY <1>2, <2>1 DEF Begins, TurnInv
<1>. QED
  BY <1>1, <1>5, <1>6 DEF TurnInv

LEMMA TurnReturn ==
  ASSUME TurnInv, NEW t \in Threads, Return(t)
  PROVE  TurnInv'
<1>1. TypeInv'
  BY TypeReturn DEF TurnInv
<1>. DEFINE r == request[t]
            s == Strtok(t, pc[t])
<1>2. PICK i \in Calls : i = pc[t]
  BY DEF Return
<1>3. /\ arg[t] # Null /\ line' = s.line /\ olds' = s.olds
      /\ token' = [token EXCEPT ![t][i] = s.token]
      /\ arg' = [arg EXCEPT ![t] = Null]
      /\ request' = request
      /\ IF ReadsNull(t, i)
           THEN crashed' = TRUE /\ UNCHANGED <<hr, pc, ret>>
           ELSE Behind(t, i) /\ UNCHANGED crashed
  BY <1>2 DEF Return
<1>4. Shapes /\ Shapes' /\ r \in Parts
  BY <1>1, RequestIs DEF TurnInv, TypeInv
<1>5. i \in 1..7 /\ Done(t) = i - 1 /\ ret[t] = 0 /\ Inside(t) /\ Begun(t)
  BY <1>2, <1>4, DoneIs DEF Calls, TurnInv, Returns, Inside, Begun
<1>6. arg[t] = <<t, Start(r, i)>>
  BY <1>2, <1>3 DEF TurnInv, Begins
<1>7. IsCut(t, i - 1)
  BY <1>5 DEF TurnInv, LinesCut, IsCut
<1>8. /\ s.token = IF Missing(r, i) THEN Null ELSE <<t, Start(r, i)>>
      /\ s.olds = <<t, Rest(r, i)>>
      /\ \A u \in Threads : u # t => s.line[u] = line[u]
      /\ Len(s.line[t]) = Blank(r) + 2
      /\ \A k \in 1..Blank(r) + 2 : s.line[t][k] = Symbol(r, i, k)
  BY <1>2, <1>4, <1>6, <1>7, StrtokIs
<1>. HIDE DEF s
<1>9. ~ReadsNull(t, i)
  <2>. SUFFICES ASSUME i = Version
                PROVE  token[t][Method] # Null /\ token[t][Uri] # Null
    BY DEF ReadsNull
  <2>1. 1 \in 1..Done(t) /\ 2 \in 1..Done(t)
    BY <1>5 DEF Version
  <2>2. token[t][1] = <<t, Start(r, 1)>> /\ token[t][2] = <<t, Start(r, 2)>>
    BY <2>1, TokenIs DEF Path, Port
  <2>. QED
    BY <2>2, PointerIs DEF Method, Uri
<1>10. Behind(t, i) /\ crashed' = crashed
  BY <1>3, <1>9
<1>22. i = Version => (IsKnown(token[t][Method]) <=> r.method \in Known)
  <2>. SUFFICES ASSUME i = Version
                PROVE  IsKnown(token[t][Method]) <=> r.method \in Known
    OBVIOUS
  <2>1. Done(t) \in 1..7
    BY <1>5 DEF Version
  <2>2. StringAt(token[t][Method]) = <<r.method>>
    BY <2>1, <1>5, MethodIs
  <2>3. <<r.method>> \in {<<m>> : m \in Known} <=> r.method \in Known
    BY Zenon
  <2>. QED
    BY <2>2, <2>3 DEF IsKnown
<1>23. i = Version /\ IsKnown(token[t][Method]) =>
         [hr EXCEPT ![t].method = StringAt(token[t][Method])[1]] =
           [hr EXCEPT ![t] = [hr[t] EXCEPT !.method = r.method]]
  <2>. SUFFICES ASSUME i = Version
                PROVE  [hr EXCEPT ![t].method = StringAt(token[t][Method])[1]] =
                         [hr EXCEPT ![t] = [hr[t] EXCEPT !.method = r.method]]
    OBVIOUS
  <2>1. Done(t) \in 1..7
    BY <1>5 DEF Version
  <2>2. StringAt(token[t][Method])[1] = r.method
    BY <2>1, <1>5, MethodIs
  <2>. QED
    BY <2>2, <1>4 DEF Shapes
<1>11. \/ /\ i # 3 /\ pc' = [pc EXCEPT ![t] = i + 1] /\ ret' = ret /\ hr' = hr
       \/ /\ i = 3 /\ r.method \in Known
          /\ pc' = [pc EXCEPT ![t] = i + 1] /\ ret' = ret
          /\ hr' = [hr EXCEPT ![t] = [hr[t] EXCEPT !.method = r.method]]
       \/ /\ i = 3 /\ r.method \notin Known
          /\ pc' = [pc EXCEPT ![t] = 9] /\ ret' = [ret EXCEPT ![t] = 1] /\ hr' = hr
  BY <1>10, <1>22, <1>23 DEF Behind, Version
<1>12. /\ \A u \in Threads : u # t => /\ pc'[u] = pc[u] /\ ret'[u] = ret[u] /\ arg'[u] = arg[u]
                                      /\ token'[u] = token[u] /\ hr'[u] = hr[u]
       /\ arg'[t] = Null
       /\ \/ pc'[t] = i + 1 /\ ret'[t] = 0
          \/ i = 3 /\ pc'[t] = 9 /\ ret'[t] = 1
  BY <1>3, <1>4, <1>5, <1>11 DEF Shapes
<1>24. /\ \/ i # 3 /\ pc'[t] = i + 1 /\ ret'[t] = 0 /\ hr'[t] = hr[t]
          \/ i = 3 /\ r.method \in Known /\ pc'[t] = i + 1 /\ ret'[t] = 0
             /\ hr'[t] = [hr[t] EXCEPT !.method = r.method]
          \/ i = 3 /\ r.method \notin Known /\ pc'[t] = 9 /\ ret'[t] = 1 /\ hr'[t] = hr[t]
       /\ hr[t] \in Heads
  BY <1>4, <1>5, <1>11 DEF Shapes
<1>13. \A u \in Threads : u # t => Done(u)' = Done(u) /\ ~Inside(u)
  BY <1>5, <1>12 DEF Done, TurnInv, Alone
<1>14. Done(t)' = i /\ Begun(t)'
  BY <1>5, <1>12 DEF Done, Begun
<1>25. \A u \in Threads : u # t => (Begun(u)' <=> Begun(u)) /\ (Taken(u)' <=> Taken(u))
  BY <1>12 DEF Begun, Taken
<1>15. \A u \in Threads : u # t => ~Inside(u)'
  BY <1>12, <1>13 DEF Inside
<1>16. Alone'
  BY <1>15 DEF Alone
<1>17. LinesCut'
  <2>. SUFFICES ASSUME NEW u \in Threads, Begun(u)' PROVE IsCut(u, Done(u))'
    BY DEF LinesCut, IsCut
  <2>1. CASE u = t
    BY <2>1, <1>3, <1>8, <1>14 DEF IsCut
  <2>2. CASE u # t
    BY <2>2, <1>3, <1>8, <1>13, <1>25 DEF IsCut, TurnInv, LinesCut
  <2>. QED
    BY <2>1, <2>2
<1>18. TokensFound'
  <2>. SUFFICES ASSUME NEW u \in Threads, NEW j \in 1..Done(u)'
                PROVE  token'[u][j] = IF Missing(request[u], j) THEN Null ELSE <<u, Start(request[u], j)>>
    BY <1>3 DEF TokensFound
  <2>1. CASE u # t
    BY <2>1, <1>12, <1>13 DEF TurnInv, TokensFound
  <2>2. CASE u = t /\ j = i
    <3>1. token'[t][i] = s.token
      BY <1>3, <1>4 DEF Shapes
    <3>. QED
      BY <3>1, <2>2, <1>8
  <2>3. CASE u = t /\ j # i
    <3>1. j \in 1..Done(t)
      BY <2>3, <1>5, <1>14
    <3>2. token'[t][j] = token[t][j]
      BY <2>3, <1>3, <1>4 DEF Shapes
    <3>. QED
      BY <3>1, <3>2, <2>3 DEF TurnInv, TokensFound
  <2>. QED
    BY <2>1, <2>2, <2>3
<1>19. GoesOn'
  <2>. SUFFICES ASSUME NEW u \in Threads, Inside(u)', pc'[u] # Method
                PROVE  olds' = <<u, Rest(request[u], pc'[u] - 1)>>
    BY <1>3 DEF GoesOn
  <2>1. u = t
    BY <1>15
  <2>2. pc'[t] = i + 1 /\ i \in 1..7
    BY <2>1, <1>5, <1>12 DEF Inside
  <2>3. pc'[t] - 1 = i
    BY <2>2
  <2>. QED
    BY <2>1, <2>3, <1>3, <1>8
<1>20. Begins'
  BY <1>3, <1>12 DEF Begins, TurnInv
<1>21. Returns' /\ NoCrash'
  BY <1>10, <1>12 DEF Returns, NoCrash, TurnInv
<1>26. /\ Taken(t)' <=> pc'[t] \in 4..8
       /\ Taken(t) <=> i \in 4..8
       /\ pc[t] # 9 /\ ~(pc'[t] = 9 /\ ret'[t] = 0)
  BY <1>2, <1>5, <1>12 DEF Taken
<1>27. Accepts'
  <2>. SUFFICES ASSUME NEW u \in Threads
                PROVE  /\ Begun(u)' => request[u].whole
                       /\ Taken(u)' => request[u].method \in Known
                       /\ pc'[u] = 9 /\ ret'[u] = -1 => ~request[u].whole
                       /\ pc'[u] = 9 /\ ret'[u] = 1 => request[u].method \notin Known
    BY <1>3 DEF Accepts
  <2>1. CASE u # t
    BY <2>1, <1>12, <1>25 DEF Accepts, TurnInv
  <2>2. CASE u = t
    <3>1. r.whole /\ (i \in 4..8 => r.method \in Known)
      BY <1>5, <1>26 DEF Accepts, TurnInv
    <3>2. pc'[t] \in 4..8 => (i = 3 /\ r.method \in Known) \/ i \in 4..8
      BY <1>5, <1>24
    <3>3. pc'[t] = 9 => ret'[t] = 1 /\ r.method \notin Known
      BY <1>5, <1>24
    <3>. QED
      BY <2>2, <3>1, <3>2, <3>3, <1>26
  <2>. QED
    BY <2>1, <2>2
<1>28. Stores'
  <2>. SUFFICES ASSUME NEW u \in Threads
                PROVE  /\ hr'[u].method = IF Taken(u)' THEN request[u].method ELSE UnknownMethod
                       /\ IF pc'[u] = 9 /\ ret'[u] = 0
                            THEN /\ hr'[u].host = <<u, Front(request[u])>>
                                 /\ hr'[u].port = IF request[u].port = None THEN 80 ELSE 8080
                            ELSE hr'[u].host = Null /\ hr'[u].port = 0
    BY <1>3 DEF Stores
  <2>1. CASE u # t
    BY <2>1, <1>12, <1>25 DEF Stores, TurnInv
  <2>2. CASE u = t
    <3>1. /\ hr[t].method = IF i \in 4..8 THEN r.method ELSE UnknownMethod
          /\ hr[t].host = Null /\ hr[t].port = 0
      BY <1>26 DEF Stores, TurnInv
    <3>2. /\ hr'[t].host = hr[t].host /\ hr'[t].port = hr[t].port
          /\ hr'[t].method = IF i = 3 /\ r.method \in Known THEN r.method ELSE hr[t].method
      BY <1>24 DEF Heads
    <3>3. pc'[t] \in 4..8 <=> i \in 4..7 \/ (i = 3 /\ r.method \in Known)
      BY <1>5, <1>24
    <3>4. hr'[t].method = IF pc'[t] \in 4..8 THEN r.method ELSE UnknownMethod
      BY <3>1, <3>2, <3>3, <1>5
    <3>. QED
      BY <2>2, <3>1, <3>2, <3>4, <1>26
  <2>. QED
    BY <2>1, <2>2
<1>. QED
  BY <1>1, <1>16, <1>17, <1>18, <1>19, <1>20, <1>21, <1>27, <1>28 DEF TurnInv

\* When the calls are through, the tokens are the parts of the request.
LEMMA TokensAreParts ==
  ASSUME TurnInv, NEW t \in Threads, Done(t) = 7, Begun(t)
  PROVE  /\ token[t][Host] = <<t, Front(request[t])>>
         /\ StringAt(token[t][Host]) = <<request[t].host>>
         /\ IF request[t].port = None
              THEN token[t][Port] = Null
              ELSE token[t][Port] # Null /\ StringAt(token[t][Port]) = <<request[t].port>>
<1>. DEFINE r == request[t]
            w == Written(r)
            h == Front(r)
            v == Slash(r)
            g == Blank(r)
<1>1. r \in Parts /\ line[t] \in Seq(Symbols)
  BY RequestIs DEF TurnInv, TypeInv
<1>2. Done(t) = 7 /\ Begun(t)
  OBVIOUS
<1>3. Layout(w, r)
  BY <1>1, WrittenIs
<1>4. /\ h \in {3, 7} /\ v \in Nat /\ g \in Nat /\ h < v /\ v <= g
      /\ r.port # None => v = h + 3
  BY <1>1, PlacesAre
<1>5. Len(line[t]) = g + 2
      /\ \A k \in 1..g + 2 : line[t][k] = IF k \in {2, g, v, h + 1} THEN NUL ELSE w[k]
  BY <1>2, CutsAre DEF TurnInv, LinesCut, Symbol
<1>6. /\ w[1] = r.method /\ w[h] = r.host
      /\ r.port # None => w[h + 2] = r.port
  BY <1>3 DEF Layout
<1>7. r.method # NUL /\ r.host # NUL /\ r.port # NUL
  BY <1>1, WordsAre
<1>8. /\ token[t][Host] = <<t, h>>
      /\ token[t][Port] = IF r.port = None THEN Null ELSE <<t, h + 2>>
  <2>1. \A i \in 1..7 : token[t][i] = IF Missing(r, i) THEN Null ELSE <<t, Start(r, i)>>
    BY <1>2 DEF TurnInv, TokensFound
  <2>2. /\ ~Missing(r, 4) /\ (Missing(r, 7) <=> r.port = None)
        /\ Start(r, 4) = h
    BY DEF Missing, Start, Method, Uri, Version, Host, Path, HostPart, Port
  <2>3. r.port # None => Start(r, 7) = h + 2
    BY DEF Start, Method, Uri, Version, Host, Path, HostPart, Port
  <2>. HIDE DEF h
  <2>. QED
    BY <2>1, <2>2, <2>3 DEF Host, Port
<1>. HIDE DEF w, h, v, g
<1>10. StringAt(<<t, h>>) = <<r.host>>
  <2>1. h \in 1..Len(line[t]) - 1 /\ line[t][h] = r.host /\ line[t][h + 1] = NUL
    <3>1. h \in 1..g + 2 /\ h \notin {2, g, v, h + 1} /\ h + 1 \in 1..g + 2
          /\ h \in 1..(g + 2) - 1
      BY <1>4
    <3>. QED
      BY <3>1, <1>5, <1>6
  <2>. QED
    BY <2>1, <1>1, <1>7, WordIs
<1>11. r.port # None => StringAt(<<t, h + 2>>) = <<r.port>>
  <2>. SUFFICES ASSUME r.port # None PROVE StringAt(<<t, h + 2>>) = <<r.port>>
    OBVIOUS
  <2>. DEFINE k == h + 2
  <2>1. k \in 1..Len(line[t]) - 1 /\ line[t][k] = r.port /\ line[t][k + 1] = NUL
    BY <1>4, <1>5, <1>6
  <2>. HIDE DEF k
  <2>2. StringAt(<<t, k>>) = <<r.port>>
    BY <2>1, <1>1, <1>7, WordIs
  <2>. QED
    BY <2>2 DEF k
<1>. QED
  BY <1>8, <1>10, <1>11, PointerIs DEF h

LEMMA TurnResolve ==
  ASSUME TurnInv, NEW t \in Threads, Resolve(t)
  PROVE  TurnInv'
<1>1. TypeInv'
  BY TypeResolve DEF TurnInv
<1>. DEFINE r == request[t]
            h == token[t][Host]
            n == IF token[t][Port] = Null THEN 80 ELSE Atoi(StringAt(token[t][Port]))
<1>2. Shapes /\ pc[t] = 8 /\ ret[t] = 0 /\ Begun(t) /\ r \in Parts
  BY RequestIs DEF Resolve, TurnInv, TypeInv, Returns, Begun
<1>3. Done(t) = 7
  BY <1>2, DoneIs
<1>4. token[t][Version] # Null
  <2>1. 3 \in 1..Done(t)
    BY <1>3
  <2>2. token[t][3] = <<t, Start(r, 3)>>
    BY <2>1, TokenIs DEF Path, Port
  <2>. QED
    BY <2>2, PointerIs DEF Version
<1>5. /\ pc' = [pc EXCEPT ![t] = 9]
      /\ hr' = [hr EXCEPT ![t] = WithDestination(hr[t], h, n)]
      /\ UNCHANGED <<request, line, olds, arg, token, ret, crashed>>
  BY <1>2, <1>4 DEF Resolve, WithDestination, Shapes
<1>12. h = <<t, Front(r)>> /\ n = IF r.port = None THEN 80 ELSE 8080
  <2>1. /\ h = <<t, Front(r)>>
        /\ IF r.port = None
             THEN token[t][Port] = Null
             ELSE token[t][Port] # Null /\ StringAt(token[t][Port]) = <<r.port>>
    BY <1>2, <1>3, TokensAreParts
  <2>2. r.port \in {None, "8080"}
    BY <1>2, PartsAre
  <2>3. Atoi(<<"8080">>) = 8080
    BY DEF Atoi
  <2>. HIDE DEF r
  <2>. QED
    BY <2>1, <2>2, <2>3
<1>13. h \in Pairs /\ n \in {0, 80, 8080} /\ hr[t] \in Heads
  <2>1. h \in Pairs /\ hr[t] \in Heads
    BY <1>2 DEF Shapes, Calls, Host
  <2>. QED
    BY <2>1, <1>12
<1>. HIDE DEF h, n
<1>14. LET y == WithDestination(hr[t], h, n) IN y.method = hr[t].method /\ y.host = h /\ y.port = n
  BY <1>13, WithDestinationIs
<1>6. \A u \in Threads : /\ pc'[u] = IF u = t THEN 9 ELSE pc[u]
                         /\ u # t => hr'[u] = hr[u]
  BY <1>2, <1>5 DEF Shapes
<1>15. hr'[t] = WithDestination(hr[t], h, n)
  BY <1>2, <1>5 DEF Shapes
<1>7. \A u \in Threads : /\ Done(u)' = Done(u) /\ (Inside(u)' => Inside(u))
                         /\ (Begun(u)' <=> Begun(u)) /\ (Taken(u)' <=> Taken(u))
  BY <1>2, <1>3, <1>5, <1>6 DEF Done, Inside, Begun, Taken
<1>8. Alone' /\ Returns' /\ NoCrash'
  BY <1>5, <1>6, <1>7 DEF Alone, Returns, NoCrash, TurnInv
<1>9. LinesCut' /\ TokensFound'
  BY <1>5, <1>7 DEF LinesCut, TokensFound, TurnInv
<1>10. GoesOn'
  <2>1. ~Inside(t)'
    BY <1>6 DEF Inside
  <2>. QED
    BY <2>1, <1>5, <1>6, <1>7 DEF GoesOn, TurnInv
<1>11. Begins'
  BY <1>2, <1>5, <1>6 DEF Begins, TurnInv, Calls
<1>16. Accepts'
  BY <1>2, <1>5, <1>6, <1>7 DEF Accepts, TurnInv
<1>17. Stores'
  <2>. SUFFICES ASSUME NEW u \in Threads
                PROVE  /\ hr'[u].method = IF Taken(u)' THEN request[u].method ELSE UnknownMethod
                       /\ IF pc'[u] = 9 /\ ret[u] = 0
                            THEN /\ hr'[u].host = <<u, Front(request[u])>>
                                 /\ hr'[u].port = IF request[u].port = None THEN 80 ELSE 8080
                            ELSE hr'[u].host = Null /\ hr'[u].port = 0
    BY <1>5 DEF Stores
  <2>1. CASE u # t
    BY <2>1, <1>6, <1>7 DEF Stores, TurnInv
  <2>2. CASE u = t
    <3>1. hr'[t].method = hr[t].method /\ hr'[t].host = h /\ hr'[t].port = n
      BY <1>14, <1>15
    <3>2. hr[t].method = IF Taken(t)' THEN r.method ELSE UnknownMethod
      BY <1>7 DEF Stores, TurnInv
    <3>. QED
      BY <2>2, <3>1, <3>2, <1>2, <1>6, <1>12
  <2>. QED
    BY <2>1, <2>2
<1>. QED
  BY <1>1, <1>8, <1>9, <1>10, <1>11, <1>16, <1>17 DEF TurnInv

LEMMA TurnNext ==
  ASSUME TurnInv, ~Overlap, [Next]_vars
  PROVE  TurnInv'
<1>1. CASE Next
  BY <1>1, TurnEnter, TurnCall, TurnReturn, TurnResolve DEF Next
<1>2. CASE UNCHANGED vars
  <2>1. TypeInv'
    BY <1>2 DEF vars, TurnInv, TypeInv, Shapes, LinesEnd, LinesThere, Inside, PointersPoint,
           IsPlace, UriThere
  <2>2. \A t \in Threads : /\ Done(t)' = Done(t) /\ (Inside(t)' <=> Inside(t))
                           /\ (Begun(t)' <=> Begun(t)) /\ (Taken(t)' <=> Taken(t))
    BY <1>2 DEF vars, Done, Inside, Begun, Taken
  <2>3. Alone' /\ LinesCut' /\ TokensFound' /\ GoesOn'
    BY <1>2, <2>2 DEF vars, TurnInv, Alone, LinesCut, TokensFound, GoesOn
  <2>4. Begins' /\ Returns' /\ NoCrash'
    BY <1>2 DEF vars, TurnInv, Begins, Returns, NoCrash
  <2>5. Accepts' /\ Stores'
    BY <1>2, <2>2 DEF vars, TurnInv, Accepts, Stores
  <2>. QED
    BY <2>1, <2>3, <2>4, <2>5 DEF TurnInv
<1>. QED
  BY <1>1, <1>2

\* What is stored is what was requested.
LEMMA StoredIsRequested ==
  ASSUME TurnInv
  PROVE  DestinationIsRequested
<1>. SUFFICES ASSUME NEW t \in Threads, pc[t] = 9
              PROVE  /\ ret[t] = 0 <=> request[t].whole /\ request[t].method \in Known
                     /\ IF ret[t] = 0 THEN IsRequested(hr[t], request[t])
                                      ELSE hr[t] = HttpRequestInit
  BY DEF DestinationIsRequested
<1>. DEFINE r == request[t]
<1>1. Shapes /\ ret[t] \in {-1, 0, 1} /\ hr[t] \in Heads /\ r \in Parts
  BY RequestIs DEF TurnInv, TypeInv, Shapes
<1>2. CASE ret[t] = 0
  <2>1. Begun(t) /\ Taken(t) /\ Done(t) = 7
    BY <1>2 DEF Begun, Taken, Done
  <2>2. r.whole /\ r.method \in Known
    BY <2>1 DEF TurnInv, Accepts
  <2>3. /\ hr[t].method = r.method /\ hr[t].host = <<t, Front(r)>>
        /\ hr[t].port = IF r.port = None THEN 80 ELSE 8080
    BY <2>1, <1>2 DEF TurnInv, Stores
  <2>4. StringAt(<<t, Front(r)>>) = <<r.host>>
    BY <2>1, TokensAreParts
  <2>5. <<t, Front(r)>> # Null
    BY PointerIs
  <2>. QED
    BY <1>2, <2>2, <2>3, <2>4, <2>5 DEF IsRequested
<1>3. CASE ret[t] # 0
  <2>1. ~Taken(t)
    BY <1>3 DEF Taken
  <2>2. hr[t].method = UnknownMethod /\ hr[t].host = Null /\ hr[t].port = 0
    BY <2>1, <1>3 DEF TurnInv, Stores
  <2>3. hr[t] = HttpRequestInit
    BY <2>2, <1>1 DEF Heads, HttpRequestInit
  <2>4. ~(r.whole /\ r.method \in Known)
    BY <1>1, <1>3 DEF TurnInv, Accepts
  <2>. QED
    BY <1>3, <2>3, <2>4
<1>. QED
  BY <1>2, <1>3

\* In turn, parse_request_line stores the method, the host and the port of each
\* request (connection_handler.c reads them as the destination) or, if the line
\* does not end or its method has no name, nothing, with any number of handler
\* threads that go through it one after the other.
THEOREM DestinationInTurn ==
  ASSUME Overlap = FALSE
  PROVE  Spec => []DestinationIsRequested
<1>1. TurnInv /\ [Next]_vars => TurnInv'
  BY TurnNext
<1>2. TurnInv => DestinationIsRequested
  BY StoredIsRequested
<1>. QED
  BY TurnInit, <1>1, <1>2, PTL DEF Spec

\* In turn, no call reads a null pointer: each token that is looked into was
\* found.
THEOREM NoCrashInTurn ==
  ASSUME Overlap = FALSE
  PROVE  Spec => []NoCrash
<1>1. TurnInv /\ [Next]_vars => TurnInv'
  BY TurnNext
<1>2. TurnInv => NoCrash
  BY DEF TurnInv
<1>. QED
  BY TurnInit, <1>1, <1>2, PTL DEF Spec
=============================================================================

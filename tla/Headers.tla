------------------------------- MODULE Headers -------------------------------
(***************************************************************************)
(* How the sniffer recognises and reads the header of a captured payload:  *)
(* the scanners of protocols/protocol.cpp and the parsers of http.cpp,     *)
(* memcached.cpp and mysql.cpp.                                            *)
(*                                                                         *)
(* A payload is a sequence of symbols: the characters the scanners look    *)
(* for (CR, LF, SP) and words, of which a table gives the width in         *)
(* characters.  Where the code compares lengths (a line of fewer than two  *)
(* characters, a payload of fewer than eight) the widths are added up;     *)
(* everywhere else a position is the index of a symbol.  Of the tables of  *)
(* methods and statuses one entry of each kind the code tells apart is     *)
(* kept, in the order of the code.                                         *)
(***************************************************************************)
EXTENDS Naturals, Sequences, SequencesExt

CR == "CR"
LF == "LF"
SP == "SP"
NUL == "NUL"                    \* what follows the copy of the payload
None == <<>>                    \* a NULL char*

Wide == {"GET", "POST", "M-", "HTTP/1.1", "Host:", "200", "404", "777", "get",
         "quit", "VALUE", "END", "ERROR", "SELECT", "length"}
Width(s) == CASE s = "HTTP/1.1" -> 8
              [] s \in Wide \ {"HTTP/1.1"} -> 3
              [] OTHER -> 1

At(p, i) == IF i \in DOMAIN p THEN p[i] ELSE NUL
Chars(p, from, to) ==
    FoldLeft(LAMBDA n, s : n + Width(s), 0, SubSeq(p, from, to))

\* memchr(data, '\n', ...): the first LF in from..to, or 0.
FirstLF(p, from, to) ==
    LET at == {i \in from..to : At(p, i) = LF}
    IN  IF at = {} THEN 0 ELSE CHOOSE i \in at : \A j \in at : i <= j

------------------------------------------------------------------------------
(* protocol.cpp                                                            *)

\* The LF that ends the first line of fewer than two characters, or 0.
\* lf is the first character of a line.
RECURSIVE HeaderEndFrom(_, _)
HeaderEndFrom(p, lf) ==
    LET nxtlf == FirstLF(p, lf, Len(p))
    IN  CASE nxtlf = 0 -> 0
          [] nxtlf > 0 /\ Chars(p, lf, nxtlf - 1) < 2 -> nxtlf
          [] OTHER -> HeaderEndFrom(p, nxtlf + 1)

find_header_end(p) ==
    LET lf == FirstLF(p, 1, Len(p)) IN IF lf = 0 THEN 0 ELSE HeaderEndFrom(p, lf + 1)

\* The token that starts at from, before end: its length and where the next
\* one starts.
get_token_len(p, from, end) ==
    LET stops == {i \in from..end : i = end \/ At(p, i) \in {SP, CR, LF}}
        stop  == CHOOSE i \in stops : \A j \in stops : i <= j
        nexts == {i \in stop..end : i = end \/ At(p, i) # SP}
    IN  [len |-> stop - from, stop |-> stop,
         next |-> CHOOSE i \in nexts : \A j \in nexts : i <= j]

\* The end of the line that starts at from and the first of its end-of-line
\* characters; LF CR counts as an end of line too.
find_line_end(p, from, last) ==
    LET lf == FirstLF(p, from, last)
    IN  CASE lf = 0 -> [end |-> last, eol |-> last]
          [] lf > from /\ p[lf - 1] = CR -> [end |-> lf, eol |-> lf - 1]
          [] lf > from /\ p[lf - 1] # CR ->
               [end |-> IF lf + 1 < last /\ p[lf + 1] = CR THEN lf + 1 ELSE lf,
                eol |-> lf]
          [] lf = from -> [end |-> lf, eol |-> lf]

\* The text of a line after the name of its parameter: blanks before it and
\* end-of-line characters after it are left out, but for the last of them.
ParamValue(p, from, e) ==
    LET starts == {i \in from..e.end : i = e.end \/ p[i] # SP}
        c      == CHOOSE i \in starts : \A j \in starts : i <= j
        ends   == {i \in c..e.eol : i = c \/ p[i] \notin {CR, LF}}
    IN  SubSeq(p, c, CHOOSE i \in ends : \A j \in ends : i >= j)

\* The value of the first line that starts with param, from line on; the last
\* line of the header is not looked at.
RECURSIVE ParamFrom(_, _, _, _)
ParamFrom(p, line, hend, param) ==
    LET e == find_line_end(p, line, hend)
    IN  CASE e.end # hend /\ p[e.eol] \in {CR, LF} /\ p[line] = param ->
               ParamValue(p, line + 1, e)
          [] e.end = hend -> None
          [] OTHER -> ParamFrom(p, e.end + 1, hend, param)

header_param(p, hlen, param) == ParamFrom(p, 1, hlen, param)

------------------------------------------------------------------------------
(* strncmp(token, name, length of token) over a table: the first name that *)
(* the token begins.  An empty token begins every name.                    *)

Begins(token, name) == \/ token = <<>> \/ token = <<name>>
                       \/ token = <<"P">> /\ name = "POST"
                       \/ token = <<"E">> /\ name \in {"END", "ERROR"}
FirstNamed(names, token, otherwise) ==
    LET at == {i \in 1..Len(names) : Begins(token, names[i])}
    IN  IF at = {} THEN otherwise
        ELSE names[CHOOSE i \in at : \A j \in at : i <= j]

\* The symbols before the first one of stops, all of them if there is none.
Before(p, stops) ==
    LET at == {i \in 1..Len(p) : p[i] \in stops}
    IN  IF at = {} THEN p ELSE SubSeq(p, 1, (CHOOSE i \in at : \A j \in at : i <= j) - 1)

------------------------------------------------------------------------------
(* http.cpp                                                                *)

HttpMethods  == <<"NONE", "GET", "POST">>
HttpVersions == {"HTTP/1.1"}
HttpStatus(word) == CASE word = "200" -> 200
                      [] word = "404" -> 404
                      [] OTHER -> 0             \* no number, or none known

\* A prefix of two characters is skipped.
SkipPrefix(line) ==
    CASE At(line, 1) = "M-" -> SubSeq(line, 2, Len(line))
      [] At(line, 1) = CR /\ At(line, 2) = LF -> SubSeq(line, 3, Len(line))
      [] OTHER -> line

HttpParseMethod(line) ==
    FirstNamed(HttpMethods, Before(SkipPrefix(line), {SP}), "NONE")

HttpIsRequest(p) == HttpParseMethod(p) # "NONE" /\ find_header_end(p) # 0

\* Mutant: the version is not looked at.
HttpParseVersion_Any(p) == "HTTP/1.1"

HttpParseVersion(p) == IF At(p, 1) \in HttpVersions THEN p[1] ELSE "NONE"

HttpIsResponse(p) == /\ Chars(p, 1, Len(p)) >= 8
                     /\ HttpParseVersion(p) # "NONE"
                     /\ find_header_end(p) # 0

\* The first two tokens of a line of n symbols, each followed by a blank.
FirstToken(p, n)  == get_token_len(p, 1, n + 1)
SecondToken(p, n) == get_token_len(p, FirstToken(p, n).next, n + 1)
HasToken(p, t)    == t.len > 0 /\ At(p, t.stop) = SP

parseUri(p, n) ==
    LET t == SecondToken(p, n)
    IN  IF HasToken(p, FirstToken(p, n)) /\ HasToken(p, t)
        THEN SubSeq(p, t.stop - t.len, t.stop - 1) ELSE None

HttpRequestVersion(p, n) ==
    LET t == SecondToken(p, n)
    IN  IF HasToken(p, FirstToken(p, n)) /\ HasToken(p, t)
           /\ At(p, t.next) \in HttpVersions
        THEN p[t.next] ELSE "NONE"

HttpParseStatus(p, n) ==
    LET t == SecondToken(p, n)
    IN  IF HasToken(p, FirstToken(p, n)) /\ t.len > 0
           /\ At(p, t.stop) \in {SP, CR, LF}
        THEN HttpStatus(p[t.stop - t.len]) ELSE 0

HttpHasErrorStatus(code) == code > 399

\* The first line of the header, up to and with its end.
FirstLine(p, eoh) == find_line_end(p, 1, eoh).end

\* Mutant: the parameters are looked up in the whole payload.
HttpRequest_WholePayload(p) ==
    LET n == FirstLine(p, find_header_end(p))
    IN  [method |-> HttpParseMethod(SubSeq(p, 1, n)), uri |-> parseUri(p, n),
         version |-> "NONE", host |-> header_param(p, Len(p), "Host:")]

\* The other parameters are read as the host is.
HttpRequest(p) ==
    LET eoh    == find_header_end(p)
        n      == FirstLine(p, eoh)
        method == HttpParseMethod(SubSeq(p, 1, n))
    IN  IF method = "NONE"
        THEN [method |-> "NONE", uri |-> None, version |-> "NONE", host |-> None]
        ELSE [method |-> method, uri |-> parseUri(p, n),
              version |-> HttpRequestVersion(p, n),
              host |-> header_param(p, eoh, "Host:")]

HttpResponse(p) ==
    LET eoh    == find_header_end(p)
        status == HttpParseStatus(p, FirstLine(p, eoh))
    IN  [status |-> status, error |-> HttpHasErrorStatus(status)]

------------------------------------------------------------------------------
(* memcached.cpp: isRequest and isResponse pass find_line_end the length   *)
(* of the payload where it takes a pointer, so it looks for the LF past    *)
(* the payload's end; memory is the payload with what follows it.          *)

CacheMethods  == <<"none", "get", "quit">>
CacheStatuses == <<"VALUE", "END", "ERROR">>
CacheErrors   == {"ERROR", "CLIENT_ERROR", "SERVER_ERROR", "BADCLASS"}

Line(memory) == SubSeq(memory, 1, FirstLF(memory, 1, Len(memory)))

CacheParseMethod(line) == FirstNamed(CacheMethods, Before(line, {SP, CR}), "none")
CacheParseStatus(line) == FirstNamed(CacheStatuses, Before(line, {SP}), "NONE")

CacheIsRequest(memory)  == CacheParseMethod(Line(memory)) # "none"
CacheIsResponse(memory) == CacheParseStatus(Line(memory)) # "NONE"

\* The constructors get a pointer to the NUL that follows the payload; the
\* keys, flags and lengths they go on to read are used nowhere.
CacheLine(p) == SubSeq(p \o <<NUL>>, 1, find_line_end(p \o <<NUL>>, 1, Len(p) + 1).end)

CacheRequest(p) == [method |-> CacheParseMethod(CacheLine(p)), uri |-> None,
                    version |-> "NONE", host |-> None]

CacheResponse(p) == LET status == CacheParseStatus(CacheLine(p))
                    IN  [status |-> status, error |-> status \in CacheErrors]

------------------------------------------------------------------------------
(* mysql.cpp: three characters of length, the number of the packet, the    *)
(* command and the statement.                                              *)

SqlIsRequest(memory)  == At(memory, 2) = "0"
SqlIsResponse(memory) == At(memory, 2) # "0"

SqlParseMethod(word) == IF word = "SELECT" THEN "SELECT" ELSE "OTHER"

SqlRequest(p) == [method |-> SqlParseMethod(At(p, 4)), uri |-> None,
                  version |-> "NONE", host |-> None]
SqlResponse(p) == [status |-> "NONE", error |-> FALSE]
==============================================================================

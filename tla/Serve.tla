------------------------------- MODULE Serve -------------------------------
(***************************************************************************)
(* The web server of src/runtime/runtime.c, `serve`: it accepts one        *)
(* connection at a time, reads requests from it piecemeal, runs the action *)
(* of the first route that matches under a try of its own, and writes one  *)
(* response per request.  What emit and send.* ask for lives in globals    *)
(* that are reset when a request starts.                                   *)
(*                                                                         *)
(* A request is the tokens of its lines and of its body, its position in   *)
(* `asked` written on each; clients may stop in the middle of one, or hang *)
(* up.  Queries, captures, the binding of parameters and the text of the   *)
(* responses are left out, and so are the frames of the actions.           *)
(***************************************************************************)
EXTENDS Integers, Sequences, SequencesExt

CONSTANTS
    Clients, Nobody,
    Requests,   \* what each client may ask, [routed, body, ends, blank]: does a
                \* route match; how many bytes of body; what ends the
                \* connection, none, header or version; is there an empty
                \* line before it?
    Quota,      \* bound of the model: requests of each client
    Slow        \* the clients that send a request in two pieces

ASSUME ServeAssumption ==
    /\ Nobody \notin Clients /\ Quota \in [Clients -> Nat] /\ Slow \subseteq Clients
    /\ Requests \in [Clients -> SUBSET
          [routed : BOOLEAN, body : Nat,
           ends : {"none", "header", "version"}, blank : BOOLEAN]]

VARIABLES
    form,    \* does the program give serve routes or a function?
    \* the clients and the network
    backlog, \* connections the kernel has queued
    asked,   \* the requests of each client
    unsent,  \* what it has not yet sent of the last one
    net,     \* sent and not yet received
    gone,    \* has it closed its end?
    replies, \* the responses of each client
    \* the server
    at,      \* line, headers, body, action; accept between connections
    conn,    \* the client whose connection is open
    buf,     \* ServeConn.buf up to len
    cur,     \* the request being read
    active, status, headers, \* g_serve_active, g_serve_status, g_serve_headers
    wish,    \* history: what the action that runs has emitted
    last     \* history: the response this step has written

clientVars == <<form, asked, unsent, gone>>
reading == <<buf, cur>>
globals == <<active, status, headers>>
vars == <<clientVars, backlog, net, replies, at, conn, reading, globals, wish, last>>

NoRequest == [k |-> 0, length |-> 0, close |-> FALSE, cut |-> FALSE]
NoWish == [status |-> 0, type |-> "none"]
NoReply == [status |-> 0, type |-> "none", end |-> "none"]

\* No response is written, and nothing emitted.
Silent == last' = NoReply /\ UNCHANGED wish

-----------------------------------------------------------------------------
(* Requests on the wire.                                                   *)

Tok(t, k) == [t |-> t, k |-> k]
CR == Tok("CR", 0)
LF == Tok("LF", 0)
EndOfLine == <<CR, LF>>

Header(name, k, present) == IF present THEN <<Tok(name, k)>> \o EndOfLine ELSE <<>>

OnWire(r, k) ==
    (IF r.blank THEN EndOfLine ELSE <<>>)
    \o <<Tok("line", k)>> \o EndOfLine
    \o Header("length", k, r.body > 0) \o Header("close", k, r.ends = "header")
    \o EndOfLine \o [i \in 1..r.body |-> Tok("body", k)]

-----------------------------------------------------------------------------
Init ==
    /\ form \in {"routes", "function"}
    /\ backlog = <<>> /\ asked = [c \in Clients |-> <<>>]
    /\ unsent = [c \in Clients |-> <<>>] /\ net = [c \in Clients |-> <<>>]
    /\ gone = [c \in Clients |-> FALSE] /\ replies = [c \in Clients |-> <<>>]
    /\ at = "accept" /\ conn = Nobody /\ buf = <<>> /\ cur = NoRequest
    /\ active = FALSE /\ status = 0 /\ headers = "none"
    /\ wish = NoWish /\ last = NoReply

-----------------------------------------------------------------------------
(* The clients, which may do what they like.                               *)

Server == <<at, conn, reading, globals, wish, replies>>

\* The first request comes with the connection.
Ask(c, r) ==
    /\ ~gone[c] /\ unsent[c] = <<>> /\ Len(asked[c]) < Quota[c]
    /\ asked' = [asked EXCEPT ![c] = Append(@, r)]
    /\ backlog' = IF asked[c] = <<>> THEN Append(backlog, c) ELSE backlog
    /\ LET w == OnWire(r, Len(asked[c]) + 1) IN
       \E n \in IF c \in Slow THEN 0..Len(w) ELSE {Len(w)} :
          /\ net' = [net EXCEPT ![c] = @ \o SubSeq(w, 1, n)]
          /\ unsent' = [unsent EXCEPT ![c] = SubSeq(w, n + 1, Len(w))]
    /\ UNCHANGED <<form, gone, Server>> /\ last' = NoReply

SendRest(c) ==
    /\ ~gone[c] /\ unsent[c] # <<>>
    /\ net' = [net EXCEPT ![c] = @ \o unsent[c]]
    /\ unsent' = [unsent EXCEPT ![c] = <<>>]
    /\ UNCHANGED <<form, backlog, asked, gone, Server>> /\ last' = NoReply

Close(c) ==
    /\ ~gone[c] /\ asked[c] # <<>>
    /\ gone' = [gone EXCEPT ![c] = TRUE]
    /\ UNCHANGED <<form, backlog, asked, unsent, net, Server>> /\ last' = NoReply

-----------------------------------------------------------------------------
(* Reading: serve_conn_fill, serve_conn_line, serve_conn_exact.            *)

Accept ==
    /\ at = "accept" /\ backlog # <<>>
    /\ conn' = Head(backlog) /\ backlog' = Tail(backlog)
    /\ at' = "line" /\ buf' = <<>>
    /\ UNCHANGED <<clientVars, net, replies, cur, globals>> /\ Silent

\* The position of the CR of the first line ending, 0 if there is none.
LineEnd ==
    LET ends == {i \in 1..Len(buf) - 1 : buf[i] = CR /\ buf[i + 1] = LF}
    IN  IF ends = {} THEN 0 ELSE CHOOSE i \in ends : \A j \in ends : i <= j

Wants ==
    \/ at \in {"line", "headers"} /\ LineEnd = 0
    \/ at = "body" /\ Len(buf) < cur.length

\* recv takes all there is: a stream comes in pieces because it is sent so.
Fill ==
    /\ Wants /\ net[conn] # <<>>
    /\ buf' = buf \o net[conn] /\ net' = [net EXCEPT ![conn] = <<>>]
    /\ UNCHANGED <<clientVars, backlog, replies, at, conn, cur, globals>> /\ Silent

EofNotInBody == conn # Nobody /\ net[conn] = <<>> /\ gone[conn] /\ at # "body"

Eof == conn # Nobody /\ net[conn] = <<>> /\ gone[conn]

\* serve_conn_line: what stands in the buffer at the end of the stream is a
\* line too; then there are no more.
HasLine == LineEnd # 0 \/ (Eof /\ buf # <<>>)
Text == IF LineEnd # 0 THEN SubSeq(buf, 1, LineEnd - 1) ELSE buf
Rest == IF LineEnd # 0 THEN SubSeq(buf, LineEnd + 2, Len(buf)) ELSE <<>>
NoLine == Eof /\ buf = <<>>

HangUp ==
    /\ at' = "accept" /\ conn' = Nobody /\ buf' = <<>> /\ cur' = NoRequest
    /\ net' = [net EXCEPT ![conn] = <<>>]

\* Empty lines before a request are skipped.
SkipEmptyLine ==
    /\ at = "line" /\ HasLine /\ Text = <<>>
    /\ buf' = Rest
    /\ UNCHANGED <<clientVars, backlog, net, replies, at, conn, cur, globals>> /\ Silent

\* sscanf finds no method in a line that is only a CR.
RequestLine ==
    /\ at = "line" /\ HasLine /\ Text # <<>>
    /\ cur' = [NoRequest EXCEPT !.k = IF Text[1].t = "line" THEN Text[1].k ELSE 0]
    /\ buf' = Rest /\ at' = "headers"
    /\ UNCHANGED <<clientVars, backlog, net, replies, conn, globals>> /\ Silent

NoRequestLine ==
    /\ at = "line" /\ NoLine /\ HangUp
    /\ UNCHANGED <<clientVars, backlog, replies, globals>> /\ Silent

HeaderLine ==
    /\ at = "headers" /\ HasLine /\ Text # <<>>
    /\ cur' = [cur EXCEPT
          !.length = IF Text[1].t = "length" THEN asked[conn][Text[1].k].body ELSE @,
          !.close = @ \/ Text[1].t = "close"]
    /\ buf' = Rest
    /\ UNCHANGED <<clientVars, backlog, net, replies, at, conn, globals>> /\ Silent

\* The headers end with an empty line, or with the stream; a request without
\* a method that ends with the stream is none.
HeadersEnd ==
    /\ at = "headers"
    /\ \/ HasLine /\ Text = <<>> /\ buf' = Rest /\ UNCHANGED cur
       \/ /\ NoLine /\ cur.k # 0
          /\ cur' = [cur EXCEPT !.cut = TRUE] /\ UNCHANGED buf
    /\ at' = "body"
    /\ UNCHANGED <<clientVars, backlog, net, replies, conn, globals>> /\ Silent

HeadersMissing ==
    /\ at = "headers" /\ NoLine /\ cur.k = 0 /\ HangUp
    /\ UNCHANGED <<clientVars, backlog, replies, globals>> /\ Silent

StartsAsLeft == active' = TRUE /\ UNCHANGED <<status, headers>> /\ Silent

\* The body is there: the request starts with nothing emitted.
Starts ==
    /\ active' = TRUE /\ status' = 0 /\ headers' = "none"
    /\ Silent

BodyLeft ==
    /\ at = "body" /\ Len(buf) >= cur.length
    /\ at' = "action" /\ Starts
    /\ UNCHANGED <<clientVars, backlog, net, replies, conn, reading>>

Body ==
    /\ at = "body" /\ Len(buf) >= cur.length
    /\ buf' = SubSeq(buf, cur.length + 1, Len(buf))
    /\ at' = "action" /\ Starts
    /\ UNCHANGED <<clientVars, backlog, net, replies, conn, cur>>

BodyMissing ==
    /\ at = "body" /\ Len(buf) < cur.length /\ Eof /\ HangUp
    /\ UNCHANGED <<clientVars, backlog, replies, globals>> /\ Silent

-----------------------------------------------------------------------------
(* The action and the response.                                            *)

Unknown == [routed |-> FALSE, body |-> 0, ends |-> "none", blank |-> FALSE]
Asked == IF cur.k = 0 THEN Unknown ELSE asked[conn][cur.k]
Matched(found) == at = "action" /\ (form = "function" \/ Asked.routed) = found

\* emit and send.* replace the headers; they set a status only if asked to.
Emit(type, s) ==
    /\ Matched(TRUE) /\ active
    /\ headers' = type
    /\ status' = IF s # 0 THEN s ELSE status
    /\ wish' = [status |-> IF s # 0 THEN s ELSE wish.status, type |-> type]
    /\ UNCHANGED <<clientVars, backlog, net, replies, at, conn, reading, active>> /\ last' = NoReply

EndsByVersion == Asked.ends = "version"
EndsAlways == TRUE

Ends == cur.close \/ Asked.ends = "version"

\* block routes get a content type if they did not emit one.
Type(t) == IF t = "none" /\ form = "routes" THEN "text/html" ELSE t

Respond(s, type, end) ==
    /\ replies' = [replies EXCEPT ![conn] = Append(@,
          [k |-> cur.k, read |-> cur.length, cut |-> cur.cut])]
    /\ last' = [status |-> s, type |-> Type(type), end |-> end]
    /\ active' = FALSE /\ UNCHANGED <<status, headers>>
    /\ IF Ends THEN HangUp
       ELSE at' = "line" /\ cur' = NoRequest /\ UNCHANGED <<conn, buf, net>>
    /\ wish' = NoWish
    /\ UNCHANGED <<clientVars, backlog>>

NotFound == Matched(FALSE) /\ Respond(404, headers, "lost")

Or(x, none, y) == IF x = none THEN y ELSE x

Returned == Matched(TRUE) /\ Respond(Or(status, 0, 200), headers, "value")

\* A function may return the response as a dictionary, with a status and
\* headers of its own.
ReturnedDict(s, type) ==
    /\ Matched(TRUE) /\ form = "function"
    /\ Respond(Or(s, 0, Or(status, 0, 200)), Or(type, "none", headers), "dict")

\* An error drops the result, not what was emitted before it.
Failed == Matched(TRUE) /\ Respond(500, headers, "error")

-----------------------------------------------------------------------------
Types == {"json"}
Statuses == {0, 201}

ServerStep ==
    \/ Accept \/ Fill
    \/ SkipEmptyLine \/ RequestLine \/ NoRequestLine
    \/ HeaderLine \/ HeadersEnd \/ HeadersMissing \/ Body \/ BodyMissing
    \/ NotFound \/ Returned \/ ReturnedDict(0, "dict") \/ Failed

Next ==
    \/ ServerStep
    \/ \E type \in Types, s \in Statuses : Emit(type, s)
    \/ \E c \in Clients : (\E r \in Requests[c] : Ask(c, r)) \/ SendRest(c) \/ Close(c)

\* The server goes on whenever it can, and its actions come to an end; the
\* clients need not do anything.
Spec == Init /\ [][Next]_vars /\ WF_vars(ServerStep)

-----------------------------------------------------------------------------
(* Properties                                                              *)

Tokens == [t : {"CR", "LF", "line", "length", "close", "body"}, k : Nat]
Wishes == [status : Statuses, type : Types \cup {"none"}]
Reply == [k : Nat, read : Nat, cut : BOOLEAN]

TypeOK ==
    /\ \A c \in Clients :
        /\ asked[c] \in Seq(Requests[c]) /\ replies[c] \in Seq(Reply)
        /\ unsent[c] \in Seq(Tokens) /\ net[c] \in Seq(Tokens)
    /\ backlog \in Seq(Clients) /\ conn \in Clients \cup {Nobody}
    /\ at \in {"accept", "line", "headers", "body", "action"}
    /\ (at = "accept") = (conn = Nobody)
    /\ buf \in Seq(Tokens)
    /\ cur \in [k : Nat, length : Nat, close : BOOLEAN, cut : BOOLEAN]
    /\ status \in Statuses /\ headers \in Types \cup {"none"} /\ wish \in Wishes
    /\ last.end \in {"none", "lost", "value", "dict", "error"}
    /\ active = (at = "action")

\* Lines and bodies are told apart whatever the pieces the stream arrives in,
\* and however requests are pipelined: the n-th response is to the n-th
\* request, read to the end of its body unless the stream ended before.
WholeRequests ==
    TypeOK /\ \A c \in Clients : \A i \in 1..Len(replies[c]) :
        /\ replies[c][i].k = i
        /\ ~replies[c][i].cut => replies[c][i].read = asked[c][i].body
        /\ replies[c][i].cut => gone[c] /\ i = Len(asked[c])

\* What emit and send.* ask for is about the request that is being answered:
\* a response has the status and the type its own action asked for last.
RepliesAreOwn ==
    [][replies' # replies =>
        /\ last'.end \in {"value", "error"} => last'.type = Type(wish.type)
        /\ last'.end \in {"value", "dict"} => last'.status = Or(wish.status, 0, 200)
        /\ last'.end = "lost" => last'.status = 404 /\ last'.type = "text/html"
        /\ last'.end = "error" => last'.status = 500]_vars

Promise == INSTANCE Service WITH
    answered <- [c \in Clients |-> Len(replies[c])], holder <- conn,
    served <- {c \in Clients : asked[c] # <<>> /\ c \notin ToSet(backlog)},
    Requests <- UNION {Requests[c] : c \in Clients},
    Closing <- LAMBDA r : r.ends # "none"

ImplementsService == Promise!Spec

\* A whole request on the connection that is served is answered, unless one
\* before it ended the connection.
Due(c, i) ==
    /\ conn = c /\ i <= Len(asked[c]) /\ (i = Len(asked[c]) => unsent[c] = <<>>)
    /\ \A j \in 1..i - 1 : asked[c][j].ends = "none"

Answered ==
    \A c \in Clients : \A i \in 1..Quota[c] : Due(c, i) ~> Len(replies[c]) >= i

\* A connection is kept waiting by the clients before it, never by the server:
\* if they all hang up some day, every connection is served.
Patience ==
    (\A c \in Clients : (asked[c] # <<>>) ~> gone[c]) =>
        \A c \in Clients : (c \in ToSet(backlog)) ~> (c \notin ToSet(backlog))
=============================================================================

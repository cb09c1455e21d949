------------------------------ MODULE Sockets ------------------------------
(***************************************************************************)
(* The TCP half of the sockets of src/runtime/runtime.c: a program         *)
(* listens, another connects, sends and unplugs, the first accepts and     *)
(* receives.  send writes a message and its line ending piecemeal, recv    *)
(* delivers the stream in pieces of any size, and receive puts lines       *)
(* together in a buffer the socket keeps from one call to the next.        *)
(*                                                                         *)
(* The other direction of a connection is the same and independent.  UDP   *)
(* sockets, addresses and failing system calls other than a refused        *)
(* connection and a broken pipe are left out.                              *)
(***************************************************************************)
EXTENDS Integers, Sequences, SequencesExt, FiniteSets

CONSTANTS
    Messages,    \* what the sender may send: sequences of bytes
    Sizes,       \* the values of receive.size
    MaxSends,    \* bound of the model: messages
    MaxReceives, \* bound of the model: calls of receive
    WireSize     \* bound of the model: bytes the kernel holds

CR == "CR"
LF == "LF"
Bytes == {"x", CR, LF}

ASSUME SocketsAssumption ==
    /\ Messages \subseteq Seq(Bytes) /\ Sizes \subseteq Nat \ {0}
    /\ MaxSends \in Nat /\ MaxReceives \in Nat /\ WireSize \in Nat \ {0}

VARIABLES
    link,    \* none, listening, connected, accepted
    out, inn, \* is the sender's, the receiver's descriptor open?
    sending, \* pieces a send has still to write
    wire,    \* written and not yet received
    rbuf,    \* SocketBody.rbuf up to rlen
    call,    \* the receive that is running, [max, timed], or None
    written, \* history: the bytes of every message sent
    got,     \* history: the lines returned, [text, line, max]
    lines,   \* history: line feeds taken out of rbuf
    sends    \* history: messages sent

vars == <<link, out, inn, sending, wire, rbuf, call, written, got, lines, sends>>
recvVars == <<rbuf, call, got, lines>>
sendVars == <<sending, written, sends>>

None == [max |-> 0, timed |-> FALSE]

-----------------------------------------------------------------------------
(* Connecting.                                                             *)

Init ==
    /\ link = "none" /\ out = FALSE /\ inn = FALSE
    /\ sending = <<>> /\ wire = <<>> /\ rbuf = <<>> /\ call = None
    /\ written = <<>> /\ got = <<>> /\ lines = 0 /\ sends = 0

Listen ==
    /\ link = "none" /\ link' = "listening"
    /\ UNCHANGED <<out, inn, wire, recvVars, sendVars>>

\* Refused, and an error, as long as nobody listens.
Connect ==
    /\ link = "listening" /\ link' = "connected" /\ out' = TRUE
    /\ UNCHANGED <<inn, wire, recvVars, sendVars>>

\* The kernel has queued the connection, perhaps with data, perhaps closed.
Accept ==
    /\ link = "connected" /\ link' = "accepted" /\ inn' = TRUE
    /\ UNCHANGED <<out, wire, recvVars, sendVars>>

-----------------------------------------------------------------------------
(* Sending.                                                                *)

\* send adds the line ending, unless .chunk; send? never does.
Ending(ended) == IF ended THEN <<CR, LF>> ELSE <<>>

\* What is empty needs no write.
Piece(b) == IF b = <<>> THEN <<>> ELSE <<b>>

Send(m, ended) ==
    /\ out /\ sending = <<>> /\ sends < MaxSends
    /\ sending' = Piece(m) \o Piece(Ending(ended))
    /\ written' = written \o m \o Ending(ended)
    /\ sends' = sends + 1
    /\ UNCHANGED <<link, out, inn, wire, recvVars>>

\* One turn of send_all: the kernel takes what it has room for, for nothing
\* if the receiver has gone.
Gone == link = "accepted" /\ ~inn

Rest(k) ==
    IF k = Len(sending[1]) THEN Tail(sending)
    ELSE [sending EXCEPT ![1] = SubSeq(@, k + 1, Len(@))]

Write ==
    /\ sending # <<>>
    /\ \E k \in 1..Len(sending[1]) :
          /\ Len(wire) + k <= WireSize
          /\ wire' = IF Gone THEN <<>> ELSE wire \o SubSeq(sending[1], 1, k)
          /\ sending' = Rest(k)
    /\ UNCHANGED <<link, out, inn, written, sends, recvVars>>

\* Nobody will read it: send fails, send? is false, the rest is not sent.
SendFails ==
    /\ sending # <<>> /\ Gone
    /\ sending' = <<>>
    /\ UNCHANGED <<link, out, inn, wire, written, sends, recvVars>>

-----------------------------------------------------------------------------
(* Receiving.                                                              *)

Receive(max, timed) ==
    /\ inn /\ call = None /\ Len(got) < MaxReceives
    /\ call' = [max |-> max, timed |-> timed]
    /\ UNCHANGED <<link, out, inn, wire, rbuf, got, lines, sendVars>>

Running == call # None

FirstLF(s) ==
    LET at == {i \in 1..Len(s) : s[i] = LF}
    IN  IF at = {} THEN 0 ELSE CHOOSE i \in at : \A j \in at : i <= j

Chomp(s) == IF s # <<>> /\ Last(s) = CR THEN Front(s) ELSE s

Cut(s, max) == SubSeq(s, 1, IF Len(s) > max THEN max ELSE Len(s))

Returns(text) ==
    /\ got' = Append(got, [text |-> text, line |-> lines + 1, max |-> call.max])
    /\ call' = None

TakeLineOnly ==
    LET nl == FirstLF(rbuf) IN
    /\ Running /\ nl # 0
    /\ Returns(Cut(Chomp(SubSeq(rbuf, 1, nl - 1)), call.max))
    /\ rbuf' = <<>>
    /\ lines' = lines + 1
    /\ UNCHANGED <<link, out, inn, wire, sendVars>>

\* A line is complete: the call returns at most max bytes of it.
TakeLine ==
    LET nl == FirstLF(rbuf) IN
    /\ Running /\ nl # 0
    /\ Returns(Cut(Chomp(SubSeq(rbuf, 1, nl - 1)), call.max))
    /\ rbuf' = SubSeq(rbuf, nl + 1, Len(rbuf))
    /\ lines' = lines + 1
    /\ UNCHANGED <<link, out, inn, wire, sendVars>>

\* More than max bytes and no line feed: the call returns max of them.
TakeHead ==
    /\ Running /\ FirstLF(rbuf) = 0 /\ Len(rbuf) > call.max
    /\ Returns(SubSeq(rbuf, 1, call.max))
    /\ rbuf' = SubSeq(rbuf, call.max + 1, Len(rbuf))
    /\ UNCHANGED <<link, out, inn, wire, lines, sendVars>>

NeedsMoreShort == Running /\ FirstLF(rbuf) = 0 /\ Len(rbuf) < call.max

NeedsMore == Running /\ FirstLF(rbuf) = 0 /\ Len(rbuf) <= call.max

Recv ==
    /\ NeedsMore /\ wire # <<>>
    /\ \E k \in 1..Len(wire) :
          /\ rbuf' = rbuf \o SubSeq(wire, 1, k)
          /\ wire' = SubSeq(wire, k + 1, Len(wire))
    /\ UNCHANGED <<link, out, inn, call, got, lines, sendVars>>

\* poll saw nothing in time: an error.  What is buffered stays.
Timeout ==
    /\ NeedsMore /\ call.timed /\ wire = <<>> /\ out
    /\ call' = None
    /\ UNCHANGED <<link, out, inn, wire, rbuf, got, lines, sendVars>>

\* The peer is gone: an unterminated line is dropped, the result is empty.
Eof ==
    /\ NeedsMore /\ wire = <<>> /\ ~out
    /\ rbuf' = <<>> /\ call' = None
    /\ UNCHANGED <<link, out, inn, wire, got, lines, sendVars>>

-----------------------------------------------------------------------------
UnplugOut ==
    /\ out /\ sending = <<>> /\ out' = FALSE
    /\ UNCHANGED <<link, inn, wire, recvVars, sendVars>>

\* What the receiver has not read is lost.
UnplugIn ==
    /\ inn /\ ~Running /\ inn' = FALSE /\ wire' = <<>>
    /\ UNCHANGED <<link, out, recvVars, sendVars>>

Next ==
    \/ Listen \/ Connect \/ Accept
    \/ \E m \in Messages, ended \in BOOLEAN : Send(m, ended)
    \/ Write \/ SendFails
    \/ \E max \in Sizes, timed \in BOOLEAN : Receive(max, timed)
    \/ TakeLine \/ TakeHead \/ Recv \/ Timeout \/ Eof
    \/ UnplugOut \/ UnplugIn

\* A call that has started goes on by itself; which calls a program makes,
\* and whether it ever makes them, is its own affair.
Fairness ==
    /\ WF_vars(Write) /\ WF_vars(SendFails)
    /\ WF_vars(TakeLine) /\ WF_vars(TakeHead) /\ WF_vars(Recv) /\ WF_vars(Eof)

Spec == Init /\ [][Next]_vars /\ Fairness

-----------------------------------------------------------------------------
(* Properties                                                              *)

TypeOK ==
    /\ link \in {"none", "listening", "connected", "accepted"}
    /\ out \in BOOLEAN /\ inn \in BOOLEAN
    /\ sending \in Seq(Seq(Bytes) \ {<<>>})
    /\ wire \in Seq(Bytes) /\ Len(wire) <= WireSize
    /\ rbuf \in Seq(Bytes) /\ written \in Seq(Bytes)
    /\ call \in [max : Sizes \cup {0}, timed : BOOLEAN]
    /\ got \in Seq([text : Seq(Bytes), line : Nat, max : Sizes])
    /\ lines \in Nat /\ sends \in 0..MaxSends

\* The lines of what was written.
Feeds(w, n) == Cardinality({i \in 1..n : w[i] = LF})
LineEnd(w, l) ==
    IF l = 0 THEN 0 ELSE CHOOSE i \in 1..Len(w) : w[i] = LF /\ Feeds(w, i) = l
LineText(l) == Chomp(SubSeq(written, LineEnd(written, l - 1) + 1, LineEnd(written, l) - 1))

Results(l) == {i \in 1..Len(got) : got[i].line = l}

\* A line shorter than every size it is asked for with comes out whole, once,
\* in its place, however send and recv cut the stream up and however many
\* calls timed out in the middle of it.
ShortLinesWhole ==
    TypeOK /\ \A l \in 1..lines :
        (\A i \in Results(l) : Len(LineText(l)) < got[i].max) =>
            \E i \in 1..Len(got) : Results(l) = {i} /\ got[i].text = LineText(l)

\* "overlong line: return the head, drop through the newline when it comes":
\* no line gives two results.
OverlongDropped == \A l \in 1..lines : Cardinality(Results(l)) <= 1

\* A receive that has a whole line to return returns, in however many pieces
\* the line arrives.
ReceiveReturns ==
    (Running /\ LF \in ToSet(rbuf \o wire)) ~> ~Running
=============================================================================

----------------------------- MODULE Connection -----------------------------
(***************************************************************************)
(* One connection of the HTTP server (http.rs): how the bytes a client     *)
(* sends become requests, whose bodies are as long as their headers say,   *)
(* and what is answered when they cannot.                                  *)
(*                                                                         *)
(* What travels is a sequence of lexemes: a line of the head, the size     *)
(* line of a chunk, the end of a line, or a piece of a body, which may     *)
(* look like any of the others.  A lexeme counts as one byte of a body and *)
(* as one unit of a line; a line may also arrive in parts (Drip).  The     *)
(* client sends its messages one after another without waiting, stalls or  *)
(* hangs up where it likes, and some of its messages are malformed.        *)
(*                                                                         *)
(* ConnSpec is the connection with a handler that answers what it likes;   *)
(* Service puts the program's own behind it.                               *)
(***************************************************************************)
EXTENDS Integers, Sequences, SequencesExt, FiniteSetsExt

CONSTANTS Scripts,          \* what clients send: sequences of messages
          RequestTimeout,   \* Config::request_timeout
          IdleTimeout,      \* Config::idle_timeout
          ReadTimeout,      \* Config::read_timeout
          MaxHeader,        \* Config::max_header_bytes
          MaxBody,          \* Config::max_body_bytes
          MaxChunkLine      \* MAX_CHUNK_LINE

ASSUME ConnectionAssumption ==
    {RequestTimeout, IdleTimeout, ReadTimeout, MaxHeader, MaxBody, MaxChunkLine}
        \subseteq Nat \ {0}

-----------------------------------------------------------------------------
(* What a client sends                                                     *)

EndOfLine == [k |-> "eol"]

\* A line of other content, and how much of it there is.
Line(kind, n) == [k |-> kind, n |-> n]

RequestLine(m, t, v) == [k |-> "request", method |-> m, target |-> t, version |-> v]

Field(name, value) == [k |-> "field", name |-> name, value |-> value]

ContentLength(n) == [k |-> "length", n |-> n]

NotANumber == -1    \* the value of a Content-Length that does not parse

ChunkSize(n) == [k |-> "size", n |-> n]

Body(m) == FlattenSeq(m.pieces)

\* The lines that say how the body is delimited, and the body so delimited.
Framing(m) == CASE m.framing = "none" -> <<>>
                [] m.framing = "length" -> <<ContentLength(Len(Body(m)))>>
                [] m.framing = "chunked" -> <<Field("transfer-encoding", "chunked")>>

Chunk(p) == <<ChunkSize(Len(p))>> \o p \o <<EndOfLine>>

Delimited(m) ==
    CASE m.framing = "none" -> <<>>
      [] m.framing = "length" -> Body(m)
      [] m.framing = "chunked" -> FlattenSeq([i \in DOMAIN m.pieces |-> Chunk(m.pieces[i])])
                                  \o <<ChunkSize(0)>> \o m.trailers \o <<EndOfLine>>

\* What a client may get wrong: the first line, another line of the head, or the body.
FirstFaults == {"no request", "version", "target", "climbs"}

LineFaults == {"folded", "nameless", "flood", "two codings", "two lengths", "no length",
               "too long", "coding"}

BodyFaults == {"no size", "long size", "huge chunk", "many chunks", "overrun", "long trailers"}

\* A fault of a message: what its client adds to the head, or puts at the beginning.
HeadFault(m) == CASE m.fault = "folded" -> <<Line("folded", 1)>>
                  [] m.fault = "nameless" -> <<Line("text", 1)>>
                  [] m.fault = "flood" -> <<Line("text", MaxHeader + 1)>>
                  [] m.fault = "two codings" -> <<ContentLength(1), Field("transfer-encoding", "chunked")>>
                  [] m.fault = "two lengths" -> <<ContentLength(1), ContentLength(2)>>
                  [] m.fault = "no length" -> <<ContentLength(NotANumber)>>
                  [] m.fault = "too long" -> <<ContentLength(MaxBody + 1)>>
                  [] m.fault = "coding" -> <<Field("transfer-encoding", "gzip")>>
                  [] OTHER -> <<>>

FirstLine(m) == CASE m.fault = "no request" -> Line("text", 1)
                  [] m.fault = "version" -> [m.line EXCEPT !.version = "HTTP/2.0"]
                  [] m.fault = "target" -> [m.line EXCEPT !.target.form = "other"]
                  [] m.fault = "climbs" -> [m.line EXCEPT !.target.segs = <<"..">>]
                  [] OTHER -> m.line

\* A chunked body gone wrong: no size, too much of it in one chunk or in all, or more
\* data in a chunk than its size says.
BodyFault(m) == CASE m.fault = "no size" -> <<Line("text", 1)>>
                  [] m.fault = "long size" -> <<Line("text", MaxChunkLine + 1)>>
                  [] m.fault = "huge chunk" -> <<ChunkSize(MaxBody + 1)>>
                  [] m.fault = "many chunks" ->
                        Chunk([i \in 1..MaxBody |-> EndOfLine])
                        \o Chunk(<<EndOfLine>>) \o <<Line("text", 1)>>
                  [] m.fault = "overrun" -> <<ChunkSize(1), EndOfLine, ChunkSize(1), ChunkSize(0), EndOfLine>>
                  [] m.fault = "long trailers" ->
                        <<ChunkSize(0)>> \o [i \in 1..MaxHeader |-> Field("x", "x")]
                  [] OTHER -> Delimited(m)

\* The lines of the head after the first.
HeadLines(m) == m.fields \o Framing(m) \o HeadFault(m)

Encoded(m) == [i \in 1..m.strays |-> EndOfLine]
              \o <<FirstLine(m)>> \o HeadLines(m) \o <<EndOfLine>> \o BodyFault(m)

\* All that a client sends.
Parts(s) == [i \in DOMAIN s |-> Encoded(s[i])]

Wire(s) == FlattenSeq(Parts(s))

ASSUME ScriptsAssumption == \A s \in Scripts : Wire(s) \in Seq(ToSet(Wire(s)))

\* The status that is said to answer each fault (the comments on read_request, on
\* parse_target and on read_body).
Refusal(m) ==
    CASE m.fault = "version" -> 505
      [] m.fault \in {"flood", "long size", "long trailers"} -> 431
      [] m.fault = "coding" -> 501
      [] m.fault \in {"too long", "huge chunk", "many chunks"} -> 413
      [] OTHER -> 400

-----------------------------------------------------------------------------
VARIABLES script,     \* the messages of this client
          wire,       \* their encoding
          sent,       \* how much of it has reached the server
          gone,       \* the client has closed its side
          pos,        \* how much of it the server has consumed
          stage,      \* what the server reads next: "first", "head", "data", "crlf",
                      \* "size" or "trailer"; or "handle", or "closed"
          used,       \* the bytes of the head, and of the trailers
          line,       \* the request line
          fields,     \* the lines of the head after it
          body,       \* the body as far as it has been read
          need,       \* the bytes that read_exact still waits for
          left,       \* the time left until the deadline
          armed,      \* the socket's read timeout, as it was set last
          wait,       \* what is left of it for the read under way
          spent,      \* history: the time since the request line was read
          handled,    \* history: the requests the handler has had
          answers,    \* history: what was written, interim answers included
          stopping    \* Inner::stop

wireVars == <<script, wire, sent, gone>>
request == <<used, line, fields, body, need>>
timers == <<left, armed, wait, spent>>
outcome == <<handled, answers>>
connVars == <<wireVars, pos, stage, request, timers, outcome, stopping>>

AsFirst(t) == /\ left = t /\ armed = Min({t, ReadTimeout})
              /\ wait = Min({t, ReadTimeout}) /\ spent = 0

ConnInit == /\ script \in Scripts
            /\ wire = Wire(script)
            /\ sent = 0 /\ gone = FALSE
            /\ pos = 0 /\ stage = "first"
            /\ used = 0 /\ line = EndOfLine /\ fields = <<>> /\ body = <<>> /\ need = 0
            /\ AsFirst(RequestTimeout)
            /\ handled = <<>> /\ answers = <<>> /\ stopping = FALSE

-----------------------------------------------------------------------------
(* The client, and time                                                    *)

\* The server waits for the client.
Waiting == /\ stage \in {"first", "head", "size", "data", "crlf", "trailer"}
           /\ pos = sent /\ ~gone
           /\ stage = "data" => need > 0

\* Another lexeme arrives.  read_exact takes a body as it comes, under one timeout for
\* each read of the socket.
Arrive == /\ sent < Len(wire) /\ ~gone /\ stage # "closed"
          /\ sent' = sent + 1
          /\ wait' = IF stage = "data" /\ Waiting THEN armed ELSE wait
          /\ UNCHANGED <<script, wire, gone, pos, stage, request, left, armed, spent, outcome, stopping>>

HangUp == /\ ~gone /\ stage # "closed"
          /\ gone' = TRUE
          /\ UNCHANGED <<script, wire, sent, pos, stage, request, timers, outcome, stopping>>

\* Faulty variant: each read has all of the read timeout.
ArmInFull(l) == /\ left' = l
                /\ armed' = ReadTimeout /\ wait' = ReadTimeout

\* arm_read_timeout: the next read may take what is left until the deadline.
Arm(l) == /\ left' = l
          /\ armed' = Min({l, ReadTimeout}) /\ wait' = Min({l, ReadTimeout})

\* Part of a line arrives; fill_buf returns and is called again.
Drip == /\ Waiting /\ sent < Len(wire)
        /\ stage \in {"first", "head", "size", "trailer"}
        /\ 0 < wait /\ wait < armed
        /\ Arm(left)
        /\ UNCHANGED <<wireVars, pos, stage, request, spent, outcome, stopping>>

\* Time passes for as long as the server waits for the client.
Tick == /\ Waiting /\ wait > 0
        /\ wait' = wait - 1
        /\ left' = Max({left - 1, 0})
        /\ spent' = IF stage = "first" THEN 0 ELSE spent + 1
        /\ UNCHANGED <<wireVars, pos, stage, request, armed, outcome, stopping>>

Shutdown == /\ ~stopping
            /\ stopping' = TRUE
            /\ UNCHANGED <<wireVars, pos, stage, request, timers, outcome>>

-----------------------------------------------------------------------------
(* Reading a request                                                       *)

Close == stage' = "closed" /\ UNCHANGED <<pos, request, timers, outcome>>

\* An error is answered, if the answer can be written, and is the end.
Refuse(status) ==
    /\ stage' = "closed"
    /\ \/ answers' = Append(answers, [status |-> status, keep |-> FALSE])
       \/ UNCHANGED answers
    /\ UNCHANGED <<pos, request, timers, handled>>

\* The end of the stream: between requests or inside one, nothing is said.
Eof == /\ stage \notin {"handle", "closed"} /\ gone /\ pos = sent /\ wait > 0
       /\ Close /\ UNCHANGED <<wireVars, stopping>>

\* A read that took too long: 408 once a request has started.
TimedOut == /\ stage \notin {"handle", "closed"} /\ wait = 0
            /\ IF stage = "first" THEN Close ELSE Refuse(408)
            /\ UNCHANGED <<wireVars, stopping>>

Lexeme == wire[pos + 1]

\* The server is where it reads `at`, and has something to read.
Reads(at) == stage = at /\ pos < sent /\ wait > 0

Length(t) == IF t.k \in {"text", "folded"} THEN t.n ELSE 1

\* The line is taken off the wire and counted.
Consume == pos' = pos + 1 /\ used' = used + Length(Lexeme)

Overlong == used + Length(Lexeme) > MaxHeader

\* parse_target: an asterisk, or a path without "..".
GoodTarget(t) == t.form = "asterisk" \/ (t.form = "origin" /\ ".." \notin ToSet(t.segs))

\* The request line, after any number of empty ones.
ReadFirst ==
    /\ Reads("first")
    /\ \/ Overlong /\ Refuse(431)
       \/ /\ ~Overlong /\ Lexeme = EndOfLine
          /\ Consume /\ Arm(left)
          /\ UNCHANGED <<stage, line, fields, body, need, spent, outcome>>
       \/ /\ ~Overlong /\ Lexeme # EndOfLine /\ Lexeme.k # "request"
          /\ Refuse(400)
       \/ /\ ~Overlong /\ Lexeme.k = "request"
          /\ \/ Lexeme.version \notin {"HTTP/1.0", "HTTP/1.1"} /\ Refuse(505)
             \/ /\ Lexeme.version \in {"HTTP/1.0", "HTTP/1.1"} /\ ~GoodTarget(Lexeme.target)
                /\ Refuse(400)
             \/ /\ Lexeme.version \in {"HTTP/1.0", "HTTP/1.1"} /\ GoodTarget(Lexeme.target)
                /\ Consume /\ stage' = "head" /\ line' = Lexeme
                /\ Arm(RequestTimeout) /\ spent' = 0
                /\ UNCHANGED <<fields, body, need, outcome>>
    /\ UNCHANGED <<wireVars, stopping>>

\* One line of the head.
ReadField ==
    /\ Reads("head") /\ Lexeme # EndOfLine
    /\ \/ Overlong /\ Refuse(431)
       \/ ~Overlong /\ Lexeme.k \notin {"field", "length"} /\ Refuse(400)
       \/ /\ ~Overlong /\ Lexeme.k \in {"field", "length"}
          /\ Consume /\ fields' = Append(fields, Lexeme) /\ Arm(left)
          /\ UNCHANGED <<stage, line, body, need, spent, outcome>>
    /\ UNCHANGED <<wireVars, stopping>>

\* Headers::get and get_all.
Get(fs, name, none) ==
    LET found == {i \in DOMAIN fs : fs[i].k = "field" /\ fs[i].name = name}
    IN IF found = {} THEN none ELSE fs[Min(found)].value

Coding(fs) == Get(fs, "transfer-encoding", "")

Lengths(fs) == {f.n : f \in {g \in ToSet(fs) : g.k = "length"}}

KeepAlive(l, fs) == LET said == Get(fs, "connection", "")
                    IN said # "close" /\ (l.version = "HTTP/1.1" \/ said = "keep-alive")

\* read_exact for n bytes, under one timeout.
ReadExact(n, next) == stage' = next /\ need' = n /\ Arm(left)

\* How the body is delimited, or the status to refuse it with (read_body).
Framed(fs) ==
    CASE Coding(fs) # "" /\ Lengths(fs) # {} -> "400"
      [] Coding(fs) \notin {"", "chunked"} /\ Lengths(fs) = {} -> "501"
      [] Coding(fs) = "chunked" /\ Lengths(fs) = {} -> "chunked"
      [] Coding(fs) = "" /\ Lengths(fs) = {} -> "none"
      [] Coding(fs) = "" /\ Lengths(fs) # {} -> "length"

\* The empty line: 100 Continue where it is asked for, then the body.
EndOfHead ==
    LET interim == IF Get(fields, "expect", "") = "100-continue"
                   THEN <<[status |-> 100, keep |-> TRUE]>> ELSE <<>>
        refuse(status) == /\ stage' = "closed"
                          /\ \/ answers' = answers \o interim
                                           \o <<[status |-> status, keep |-> FALSE]>>
                             \/ answers' = answers \o interim
                          /\ UNCHANGED <<need, left, armed, wait>>
        on(next, n) == ReadExact(n, next) /\ answers' = answers \o interim
    IN /\ Reads("head") /\ Lexeme = EndOfLine
       /\ \/ Overlong /\ Refuse(431)
          \/ /\ ~Overlong /\ Consume
             /\ LET how == Framed(fields)
                IN \/ how = "400" /\ refuse(400)
                   \/ how = "501" /\ refuse(501)
                   \/ how = "chunked" /\ on("size", 0)
                   \/ how = "none" /\ on("handle", 0)
                   \/ /\ how = "length"
                      /\ LET n == Max(Lengths(fields))
                         IN \/ Cardinality(Lengths(fields)) > 1 /\ refuse(400)
                            \/ n = NotANumber /\ refuse(400)
                            \/ Cardinality(Lengths(fields)) = 1 /\ n > MaxBody /\ refuse(413)
                            \/ Cardinality(Lengths(fields)) = 1 /\ n \in 0..MaxBody /\ on("data", n)
             /\ UNCHANGED <<line, fields, body, spent, handled>>
       /\ UNCHANGED <<wireVars, stopping>>

Chunked == Framed(fields) = "chunked"

\* Faulty variant: the check against the limit looks at one chunk at a time.
FitsAlone(n) == n <= MaxBody

\* The body with another chunk keeps to the limit.
Fits(n) == Len(body) + n <= MaxBody

\* The size line of a chunk, which has a limit of its own.
ReadSize ==
    /\ Reads("size")
    /\ \/ Length(Lexeme) > MaxChunkLine /\ Refuse(431)
       \/ Length(Lexeme) <= MaxChunkLine /\ Lexeme.k # "size" /\ Refuse(400)
       \/ Lexeme.k = "size" /\ ~Fits(Lexeme.n) /\ Refuse(413)
       \/ /\ Lexeme.k = "size" /\ Fits(Lexeme.n)
          /\ pos' = pos + 1
          /\ ReadExact(Lexeme.n, IF Lexeme.n = 0 THEN "trailer" ELSE "data")
          /\ UNCHANGED <<used, line, fields, body, spent, outcome>>
    /\ UNCHANGED <<wireVars, stopping>>

\* A byte of the body.
ReadData ==
    /\ Reads("data") /\ need > 0
    /\ pos' = pos + 1 /\ body' = Append(body, Lexeme) /\ need' = need - 1
    /\ UNCHANGED <<wireVars, stage, used, line, fields, timers, outcome, stopping>>

\* All of it is there: the request is complete, or the chunk is.
DataDone ==
    /\ stage = "data" /\ need = 0 /\ wait > 0
    /\ ReadExact(0, IF Chunked THEN "crlf" ELSE "handle")
    /\ UNCHANGED <<wireVars, pos, used, line, fields, body, spent, outcome, stopping>>

\* Faulty variant: what follows the chunk is skipped and not looked at.
ReadCrlfUnchecked ==
    /\ Reads("crlf")
    /\ pos' = pos + 1 /\ ReadExact(0, "size")
    /\ UNCHANGED <<used, line, fields, body, spent, outcome>>
    /\ UNCHANGED <<wireVars, stopping>>

\* The end of the line after a chunk.
ReadCrlf ==
    /\ Reads("crlf")
    /\ \/ Lexeme # EndOfLine /\ Refuse(400)
       \/ /\ Lexeme = EndOfLine
          /\ pos' = pos + 1 /\ ReadExact(0, "size")
          /\ UNCHANGED <<used, line, fields, body, spent, outcome>>
    /\ UNCHANGED <<wireVars, stopping>>

\* Trailers are discarded, up to the empty line that ends the message.
ReadTrailer ==
    /\ Reads("trailer")
    /\ \/ Overlong /\ Refuse(431)
       \/ /\ ~Overlong /\ Consume
          /\ stage' = IF Lexeme = EndOfLine THEN "handle" ELSE "trailer"
          /\ Arm(left)
          /\ UNCHANGED <<line, fields, body, need, spent, outcome>>
    /\ UNCHANGED <<wireVars, stopping>>

Reading == \/ ReadFirst \/ ReadField \/ EndOfHead
           \/ ReadSize \/ ReadData \/ DataDone \/ ReadCrlf \/ ReadTrailer
           \/ Eof \/ TimedOut

-----------------------------------------------------------------------------
(* Answering it                                                            *)

\* The request as the handler gets it.
Request == [line |-> line, fields |-> fields, body |-> body]

\* The answer is written, or cannot be; another request is awaited if both sides keep
\* the connection.
Answer(status) ==
    LET keep == KeepAlive(line, fields) /\ ~stopping
    IN /\ stage = "handle"
       /\ handled' = Append(handled, Request)
       /\ \/ /\ answers' = Append(answers, [status |-> status, keep |-> keep])
             /\ keep
             /\ stage' = "first" /\ used' = 0 /\ line' = EndOfLine
             /\ fields' = <<>> /\ body' = <<>> /\ need' = 0
             /\ Arm(IdleTimeout) /\ spent' = 0
          \/ /\ \/ ~keep /\ answers' = Append(answers, [status |-> status, keep |-> keep])
                \/ UNCHANGED answers
             /\ stage' = "closed" /\ UNCHANGED <<request, timers>>
       /\ UNCHANGED <<wireVars, pos, stopping>>

Client == Arrive \/ HangUp \/ Drip

\* A step without the handler, and with any.
ConnStep == Client \/ Tick \/ Shutdown \/ Reading
ConnNext == ConnStep \/ \E status \in Nat : Answer(status)
ConnSpec == ConnInit /\ [][ConnNext]_connVars

-----------------------------------------------------------------------------
(* Properties                                                              *)

\* Apart from the fault that it names, a message is what HTTP/1.1 asks for: its body ends
\* where its framing says, which no other field contradicts.
Orderly(m) ==
    /\ m.strays \in Nat
    /\ m.line = RequestLine(m.line.method, m.line.target, m.line.version)
    /\ m.line.target = [form |-> m.line.target.form, segs |-> m.line.target.segs]
    /\ m.fields \in Seq(ToSet(m.fields)) /\ m.trailers \in Seq(ToSet(m.trailers))
    /\ \A f \in ToSet(m.fields) : f.k = "field" /\ f.name # "transfer-encoding"
    /\ \A f \in ToSet(m.trailers) : f.k = "field"
    /\ m.pieces \in Seq(ToSet(m.pieces)) /\ \A p \in ToSet(m.pieces) : p \in Seq(ToSet(p))
    /\ \/ m.framing = "none" /\ m.pieces = <<>>
       \/ m.framing = "length"
       \/ m.framing = "chunked" /\ <<>> \notin ToSet(m.pieces)
    /\ m.fault \in {"none"} \cup FirstFaults \cup LineFaults \cup BodyFaults
    /\ m.fault = "climbs" => m.line.target.form # "asterisk"
    /\ m.fault = "coding" => m.framing # "chunked"
    /\ m.fault \in BodyFaults => m.framing = "chunked"

\* And there is nothing else to refuse it for.
Moderate(m) ==
    /\ m.line.version \in {"HTTP/1.0", "HTTP/1.1"} /\ GoodTarget(m.line.target)
    /\ m.strays + 1 + Len(HeadLines(m)) + 1 + Len(m.trailers) + 1 <= MaxHeader
    /\ Len(Body(m)) <= MaxBody
    /\ m.fault \in {"too long", "coding"} => m.framing = "none"

AllOrderly == \A s \in Scripts : s \in Seq(ToSet(s)) /\ \A m \in ToSet(s) : Orderly(m)

AllModerate == \A s \in Scripts : \A m \in ToSet(s) : Moderate(m)

\* The answers that are not interim ones.
Final(as) == FlattenSeq([i \in DOMAIN as |-> IF as[i].status = 100 THEN <<>> ELSE <<as[i]>>])

Finals == Final(answers)

\* The request that a well-formed message stands for.
Meant(m) == [line |-> m.line, fields |-> m.fields \o Framing(m), body |-> Body(m)]

\* What the handler gets is what the client meant, message for message, whatever the
\* bodies look like and however they are delimited; nothing after a message that is
\* malformed, or that was to be the last, reaches it.
RequestsIntact ==
    /\ Len(handled) <= Len(script)
    /\ \A i \in DOMAIN handled :
          /\ script[i].fault = "none" /\ handled[i] = Meant(script[i])
          /\ \A j \in 1..(i - 1) : KeepAlive(script[j].line, script[j].fields)

\* A client that reads the answers in order finds its own: each message is answered
\* once, and the one that is refused last of all, with the status its fault calls for
\* unless it took too long.
AnswersInStep ==
    /\ Len(Finals) <= Len(handled) + 1
    /\ \A i \in DOMAIN Finals : i > Len(handled) =>
          \/ Finals[i].status = 408
          \/ script[i].fault # "none" /\ Finals[i].status = Refusal(script[i])
    /\ \A i \in DOMAIN Finals : ~Finals[i].keep => i = Len(Finals) /\ stage = "closed"

\* Reading the head of a request takes no longer than the request has, however its
\* client deals out the bytes; with a body, no longer than its bytes can draw it out.
HeldBriefly == /\ stage = "head" => spent <= RequestTimeout
               /\ stage # "closed" => spent <= RequestTimeout * (Len(body) + 1)

\* The comment on request_timeout (http.rs:441): a cap for reading one request line,
\* headers and body, absolute where a client dribbles its bytes.
RequestInBudget == spent <= RequestTimeout
=============================================================================

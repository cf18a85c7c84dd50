--------------------------- MODULE HttpConnection ---------------------------
(***************************************************************************)
(* One connection of src/src/server.rs from its first byte to its last:    *)
(* handle_connection reads a request, routes it, generates, and writes     *)
(* either one answer or a stream of events while the text comes into       *)
(* being.  The tokens are any tokens: which ones is the model's affair.    *)
(* A client may leave at any time; what is written after that may still be *)
(* taken by the socket, or fail.                                           *)
(***************************************************************************)
EXTENDS RequestReader, EventStreams

CONSTANTS
  Letters,    \* the characters of one byte
  Exchanges,  \* what clients send: records [pieces, ask]
  Vocabulary  \* the bytes a token may stand for

(***************************************************************************)
(* ask is what the body asks for when it arrives: [method, route, json     *)
(* (the body is JSON), valid (its fields are accepted), stream ("true",    *)
(* "false", "none"), tools, usage, stops, max_tokens].  Routes beside      *)
(* GenerationRoutes are "health" (what HEAD may ask for as well as GET),    *)
(* "page" (other reports, model lists, web pages), "tool" (embeddings,     *)
(* tokenizer, explorer: POST, one answer) and "unknown".                   *)
(***************************************************************************)
Asks ==
  [method : {"GET", "HEAD", "POST", "PUT", "OPTIONS"},
   route : GenerationRoutes \cup {"health", "page", "tool", "unknown"},
   json : BOOLEAN, valid : BOOLEAN, stream : {"true", "false", "none"}, tools : BOOLEAN,
   usage : BOOLEAN, stops : Seq(Seq(Letters \cup {"W", "?"})), max_tokens : Nat]

ASSUME ConnectionAssumption ==
  /\ Exchanges \subseteq [pieces : Seq(Pieces), ask : Asks]
  /\ Vocabulary \subseteq Seq(Letters \cup {"L", "C"})

VARIABLES
  ask,        \* never changes
  pc,
  bytes,      \* history: the bytes of all tokens taken into the text
  pending,    \* Utf8Stitcher.pending
  output,     \* GenerationResult.text
  streamed,   \* history: the texts passed to on_token
  count,      \* generated_tokens
  cut,        \* a stop sequence was found
  client,     \* "there", or "gone"
  wire,       \* events the client received
  answer,     \* the status and answer written without a stream
  recorded    \* entries appended to the chat history

textVars == <<bytes, pending, output, streamed, count, cut>>
wireVars == <<wire, answer>>
vars == <<sent, unread, header, body, socket, status,
          ask, pc, bytes, pending, output, streamed, count, cut, client, wire, answer, recorded>>

NoAnswer == [status |-> 0, text |-> <<>>, calls |-> <<>>, reason |-> ""]
Refusal(code) == [NoAnswer EXCEPT !.status = code]

Init ==
  /\ \E exchange \in Exchanges : InitReader(exchange.pieces) /\ ask = exchange.ask
  /\ pc = "read"
  /\ bytes = <<>> /\ pending = <<>> /\ output = <<>> /\ streamed = <<>>
  /\ count = 0 /\ cut = FALSE
  /\ client = "there" /\ wire = <<>> /\ answer = NoAnswer
  /\ recorded = 0

\* Slip: the tools of a request count on every route.
has_tools_declared == ask.tools

has_tools == ask.route \in ToolRoutes /\ ask.tools

\* is_streaming_request
is_streaming_request ==
  /\ ask.method = "POST"
  /\ ask.route \in GenerationRoutes \ {"generate"}
  /\ \/ ask.route = "generate_stream"
     \/ ask.route = "gemini" /\ ask.stream = "true"  \* by its path
     \/ /\ ask.route # "gemini" /\ ask.json
        /\ \/ ask.stream = "true"
           \/ ask.stream = "none" /\ ask.route \in {"ollama_generate", "ollama_chat"}

\* A write that is lost when the client is gone; it may report the loss or not.
Write(events) == wire' = IF client = "there" THEN wire \o events ELSE wire
MayFail == client = "gone"

Read ==
  /\ pc = "read"
  /\ ReadRequest
  /\ pc' = IF status' = 0 THEN "read" ELSE IF status' = 200 THEN "route" ELSE "refuse"
  /\ UNCHANGED <<ask, textVars, client, wireVars, recorded>>

Respond(reply) ==
  /\ answer' = IF client = "there" THEN reply ELSE answer
  /\ pc' = "closed"
  /\ UNCHANGED <<readerVars, ask, textVars, client, wire, recorded>>

Refuse == pc = "refuse" /\ Respond(Refusal(status))

\* route_request: what is answered without a generation.
RouteOther ==
  /\ pc = "route" /\ ~is_streaming_request
  /\ \/ ask.method = "OPTIONS" /\ Respond(Refusal(204))
     \/ ask.method = "PUT" /\ Respond(Refusal(405))
     \/ ask.method = "GET" /\ Respond(Refusal(IF ask.route \in {"health", "page"} THEN 200 ELSE 404))
     \/ ask.method = "HEAD" /\ Respond(Refusal(IF ask.route = "health" THEN 200 ELSE 404))
     \/ /\ ask.method = "POST"
        /\ \/ ask.route \in {"health", "page", "unknown", "generate_stream"} /\ Respond(Refusal(404))
           \/ /\ ask.route \in GenerationRoutes \cup {"tool"}
              /\ \/ ~JsonContent /\ Respond(Refusal(415))
                 \/ JsonContent /\ ~(ask.json /\ ask.valid) /\ Respond(Refusal(400))
                 \/ /\ JsonContent /\ ask.json /\ ask.valid /\ ask.route = "tool"
                    /\ Respond(Refusal(200))

\* A generation whose text is only answered at its end.
RouteAnswer ==
  /\ pc = "route" /\ ~is_streaming_request
  /\ ask.method = "POST" /\ ask.route \in GenerationRoutes \ {"generate_stream"}
  /\ JsonContent /\ ask.json /\ ask.valid
  /\ pc' = "generate"
  /\ UNCHANGED <<readerVars, ask, textVars, client, wireVars, recorded>>

\* The header of the stream and what comes before the text; the fields are
\* checked first.  The Content-Type is not looked at.
RouteStream ==
  /\ pc = "route" /\ is_streaming_request
  /\ \/ ~(ask.json /\ ask.valid) /\ Respond(Refusal(400))
     \/ /\ ask.json /\ ask.valid
        /\ Write(Opening(ask.route, has_tools))
        /\ pc' \in {"generate"} \cup (IF MayFail THEN {"closed"} ELSE {})
        /\ UNCHANGED <<readerVars, ask, textVars, client, answer, recorded>>

\* generate_chat_stream refuses (no prompt, an encoder, bad options): before
\* the first token if at all.
GenerationFails ==
  /\ pc = "generate" /\ count = 0 /\ bytes = <<>>
  /\ IF is_streaming_request
     THEN Write(Failing(ask.route)) /\ answer' = answer
     ELSE wire' = wire /\ answer' = IF client = "there" THEN Refusal(400) ELSE answer
  /\ pc' = "closed"
  /\ UNCHANGED <<readerVars, ask, textVars, client, recorded>>

OnToken(text) ==
  /\ streamed' = Append(streamed, text)
  /\ IF is_streaming_request /\ ~has_tools
     THEN Write(<<Delta(ask.route, Len(streamed), text)>>)
     ELSE wire' = wire

\* One round of the decode loop: the token's bytes become text, the text is
\* searched for stop sequences, and only then is it passed on.
DecodeToken ==
  /\ pc = "generate" /\ count < ask.max_tokens
  /\ \E token \in Vocabulary :
       LET pushed == push(pending, token)
           whole  == output \o pushed.text
           at     == StopCut(whole, pushed.text, ask.stops)
       IN  /\ bytes' = bytes \o token
           /\ pending' = pushed.pending
           /\ IF at # {}
              THEN /\ output' = SubSeq(whole, 1, First(at))
                   /\ cut' = TRUE
                   /\ pc' = "flush"
                   /\ UNCHANGED <<streamed, count, wire>>
              ELSE /\ output' = whole
                   /\ IF pushed.text = <<>> THEN UNCHANGED <<streamed, wire>>
                      ELSE OnToken(pushed.text)
                   /\ count' = count + 1
                   /\ pc' = IF count' = ask.max_tokens THEN "flush" ELSE "generate"
                   /\ UNCHANGED cut
  /\ UNCHANGED <<readerVars, ask, client, answer, recorded>>

\* A stop token, or the end of the cache.
DecodeStops ==
  /\ pc = "generate"
  /\ pc' = "flush"
  /\ UNCHANGED <<readerVars, ask, textVars, client, wireVars, recorded>>

\* What the stitcher still holds follows the text, also a text that was cut.
Flush ==
  /\ pc = "flush"
  /\ LET tail == flush(pending)
     IN  /\ output' = output \o tail
         /\ IF tail = <<>> THEN UNCHANGED <<streamed, wire>> ELSE OnToken(tail)
  /\ pending' = <<>>
  /\ pc' = "record"
  /\ UNCHANGED <<readerVars, ask, bytes, count, cut, client, answer, recorded>>

Result == [text |-> output, count |-> count]

\* append_chat_history, whose errors are ignored, then the end of the stream
\* or the answer.
Complete ==
  /\ pc = "record"
  /\ recorded' = recorded + 1
  /\ IF is_streaming_request
     THEN /\ Write(Closing(ask.route, has_tools, Result, ask.max_tokens, ask.usage))
          /\ answer' = answer
     ELSE LET reply == Answer(ask.route, Result, ask.max_tokens)
          IN  /\ wire' = wire
              /\ answer' = IF client = "gone" THEN answer
                           ELSE [status |-> 200, text |-> reply.text,
                                 calls |-> reply.calls, reason |-> reply.reason]
  /\ pc' = "closed"
  /\ UNCHANGED <<readerVars, ask, textVars, client>>

ClientLeaves ==
  /\ pc \notin {"read", "closed"}
  /\ client = "there"
  /\ client' = "gone"
  /\ UNCHANGED <<readerVars, ask, pc, textVars, wireVars, recorded>>

Closed == pc = "closed" /\ UNCHANGED vars

ServerStep ==
  \/ Read \/ Refuse \/ RouteOther \/ RouteAnswer \/ RouteStream
  \/ GenerationFails \/ DecodeToken \/ DecodeStops \/ Flush \/ Complete

Next == ServerStep \/ ClientLeaves \/ Closed

\* The thread of the connection runs, and a read ends after IO_TIMEOUT.
Spec == Init /\ [][Next]_vars /\ WF_vars(ServerStep)
-----------------------------------------------------------------------------
(* Properties. *)

TypeOK ==
  /\ status \in {0, 200, 400, 408, 413}
  /\ pc \in {"read", "refuse", "route", "generate", "flush", "record", "closed"}
  /\ Len(pending) \in 0 .. 2
  /\ count \in 0 .. ask.max_tokens
  /\ cut \in BOOLEAN
  /\ client \in {"there", "gone"}
  /\ answer.status \in {0, 200, 204, 400, 404, 405, 408, 413, 415}
  /\ recorded \in {0, 1}

(***************************************************************************)
(* The text is what the bytes of all tokens spell, each byte once, however *)
(* they were split between tokens; a character that is cut off at the end  *)
(* becomes one U+FFFD; and without a stop sequence what was passed on is   *)
(* what is returned.                                                       *)
(***************************************************************************)
Spelled == push(<<>>, bytes)
PassedOn == FlattenSeq(streamed)

TextDecodedOnce ==
  /\ pc \in {"generate", "flush"} => pending = Spelled.pending
  /\ ~cut => output = Spelled.text \o (IF pc \in {"record", "closed"} THEN flush(Spelled.pending)
                                       ELSE <<>>)
  /\ ~cut => PassedOn = output

(***************************************************************************)
(* The window finds every stop sequence, also one that spans tokens: no    *)
(* text that was kept or passed on holds one.  A text that was cut ends    *)
(* where the first stop sequence of the list that has arrived begins (one  *)
(* later in the list may stand before it), and what was passed on never    *)
(* reaches past the token that completed it.  A tail of the stitcher       *)
(* follows both.  Said of requests without empty stop sequences, which are *)
(* taken as they come: beside others, one ends the text at its first token.*)
(***************************************************************************)
HoldsStop(text, i) == Occurrences(text, ask.stops[i], 0) # {}
WithTail(text) == IF pc \in {"record", "closed"} THEN text \o flush(Spelled.pending) ELSE text

StopSequenceCuts ==
  (\A i \in DOMAIN ask.stops : ask.stops[i] # <<>>) =>
  /\ ~cut => \A i \in DOMAIN ask.stops : ~HoldsStop(Spelled.text, i)
  /\ cut =>
       /\ \E i \in DOMAIN ask.stops :
            /\ HoldsStop(Spelled.text, i)
            /\ \A j \in 1 .. i - 1 : ~HoldsStop(Spelled.text, j)
            /\ LET at == First(Occurrences(Spelled.text, ask.stops[i], 0))
               IN  output = WithTail(SubSeq(Spelled.text, 1, at))
       /\ \E n \in 0 .. Len(Spelled.text) :
            /\ PassedOn = WithTail(SubSeq(Spelled.text, 1, n))
            /\ \A j \in DOMAIN ask.stops : ~HoldsStop(SubSeq(Spelled.text, 1, n), j)

-----------------------------------------------------------------------------

Opens  == {"content_block_start", "output_item.added", "content-start", "tool-call-start"}
Closes == {"content_block_stop", "output_item.done", "content-end", "tool-call-end"}
Within == {"content_block_delta", "content_part.added", "output_text.delta", "output_text.done",
           "content_part.done", "function_call_arguments.delta", "function_call_arguments.done",
           "content-delta", "tool-call-delta"}
Terminal == {"[DONE]", "message_stop", "message-end", "stream-end", "done", "generated_text",
             "error"} \cup (IF ask.route = "gemini" THEN {"finish"} ELSE {})

Count(types, n) == Cardinality({i \in 1 .. n : wire[i].type \in types})
SameKind(type) == IF type = "tool-call-start" THEN {type} ELSE Opens \ {"tool-call-start"}
BlockOpen(n) == Count(Opens, n) > Count(Closes, n)
OpenBlock(n) == wire[Max({i \in 1 .. n : wire[i].type \in Opens})].index

ReportsError == \E i \in DOMAIN wire :
                  wire[i].type \in {"error", "response.failed"} \/ wire[i].reason = "error"

(***************************************************************************)
(* What a client receives is a stream its protocol allows: blocks are      *)
(* opened one at a time and numbered in order, everything belongs to the   *)
(* open block, and nothing follows the event that ends the stream, before  *)
(* which every block is closed unless it reports an error.  A client that  *)
(* stays receives either such a stream to its end or one answer            *)
(* (README.md 1408: OpenAI streams end with [DONE], Anthropic streams with *)
(* message_stop; after an error the latter end with error).                *)
(***************************************************************************)
StreamWellFormed ==
  pc = "closed" =>
  /\ \A i \in DOMAIN wire :
       LET event == wire[i]
       IN  /\ event.type \in Opens =>
                ~BlockOpen(i - 1) /\ event.index = Count(SameKind(event.type), i - 1)
           /\ event.type \in Closes \cup Within =>
                BlockOpen(i - 1) /\ event.index = OpenBlock(i - 1)
           /\ event.type \in Terminal =>
                i = Len(wire) /\ (ReportsError \/ ~BlockOpen(i))
  /\ client = "there" =>
       \/ answer.status # 0 /\ wire = <<>>
       \/ answer.status = 0 /\ wire # <<>> /\ wire[Len(wire)].type \in Terminal

Increments == {"delta", "output_text.delta", "content_block_delta", "content-delta"}
Shown == FlattenSeq([i \in DOMAIN wire |->
                       IF wire[i].type \in Increments \cup {"finish"} THEN wire[i].text ELSE <<>>])
ShownCalls == FlattenSeq([i \in DOMAIN wire |->
                            IF wire[i].type = "response.completed" THEN <<>> ELSE wire[i].calls])
ShownReasons == {wire[i].reason : i \in DOMAIN wire} \ {""}

(***************************************************************************)
(* A stream says what the answer to the same request says.  With tools     *)
(* declared: the same prose, the same calls in the same order, the same    *)
(* reason, and no markup of a call (README.md 823).  Without: every piece  *)
(* of text as it was passed on, and where the stream repeats the whole     *)
(* text, the answer's.                                                     *)
(***************************************************************************)
StreamAgrees ==
  pc = "closed" /\ client = "there" /\ recorded = 1 /\ is_streaming_request =>
    LET reply == Answer(ask.route, Result, ask.max_tokens)
    IN  /\ has_tools =>
             /\ Shown = reply.text
             /\ ShownCalls = reply.calls
             /\ Markers(Shown, 1) = {}
        /\ has_tools \/ Markers(output, 1) = {} => ShownReasons \subseteq {reply.reason}
        /\ ~has_tools => Shown = PassedOn
        /\ \A i \in DOMAIN wire :
             wire[i].type \in {"output_text.done", "response.completed", "generated_text"}
                \/ (wire[i].type = "stream-end" /\ wire[i].reason = "")
               => wire[i].text = reply.text

\* Every connection is answered or given up: reads time out, a generation
\* has at most max_tokens rounds.
ConnectionEnds == <>(pc = "closed")
=============================================================================

-------------------------- MODULE MCHttpConnection --------------------------
(***************************************************************************)
(* TLC instance of a connection: every small header on one route, and every*)
(* route with a well-formed header.                                        *)
(***************************************************************************)
EXTENDS HttpConnection

Piece(kind, n) == [is |-> kind, value |-> n]
Length(n) == Piece("length", n)
RequestLine == Piece("request", 0)
End == Piece("end", 0)
Bytes(n) == [i \in 1 .. n |-> Piece("byte", i)]

StopLists == {<<>>, << <<"a", "T">>, <<"b", "W">> >>, << <<"b">>, <<"a", "a">> >>,
              << <<>> >>, << <<"a", "b">>, <<>> >>}

Ask(method, route, json, valid, stream, tools, usage, stops, max_tokens) ==
  [method |-> method, route |-> route, json |-> json, valid |-> valid, stream |-> stream,
   tools |-> tools, usage |-> usage, stops |-> stops, max_tokens |-> max_tokens]

Whole == <<RequestLine, Length(1), Piece("json", 0), End>> \o Bytes(1)

\* A one-token generation behind any header of up to two lines, with a body
\* that is as long as declared, shorter or longer.
HeaderLines == {Length(0), Length(1), Length(2), Length(3), Piece("badlength", 0),
                Piece("json", 0), Piece("text", 0), Piece("nocolon", 0)}
FirstLines == {RequestLine, Piece("malformed", 0), Piece("badpath", 0)}
Headers == {<<line>> \o lines : line \in FirstLines,
              lines \in {<<>>} \cup {<<x>> : x \in HeaderLines} \cup {<<x, y>> : x, y \in HeaderLines}}
Messages == {h \o tail : h \in Headers, tail \in {<<>>} \cup {<<End>> \o Bytes(n) : n \in 0 .. 3}}
            \cup {<<RequestLine, Length(1), Piece("json", 0), Piece("json", 0), Piece("json", 0), End>>
                    \o Bytes(1)}
DeclaredOf(pieces) ==
  LET at == {i \in DOMAIN pieces : pieces[i].is = "length"}
  IN  IF at = {} THEN 0 ELSE pieces[Max(at)].value
BodyOf(pieces) == Cardinality({i \in DOMAIN pieces : pieces[i].is = "byte"})

\* A body that is not as long as declared is not JSON.
AnyHeader ==
  {[pieces |-> p,
    ask |-> Ask("POST", "ollama_chat", DeclaredOf(p) = BodyOf(p) /\ BodyOf(p) > 0, TRUE, "false", FALSE,
                FALSE, <<>>, 1)] : p \in Messages}

\* Every route, streaming or not, with a body that is accepted or not.
AnyRoute ==
  {[pieces |-> p, ask |-> Ask(method, route, json, valid, stream, FALSE, FALSE, <<>>, 1)] :
     p \in {Whole, <<RequestLine, Length(1), End>> \o Bytes(1)},
     method \in {"GET", "HEAD", "POST", "PUT", "OPTIONS"},
     route \in GenerationRoutes \cup {"health", "page", "tool", "unknown"},
     json \in BOOLEAN, valid \in BOOLEAN, stream \in {"true", "false", "none"}}

\* Every stop list and every text of three tokens.
AnyText ==
  {[pieces |-> Whole, ask |-> Ask("POST", route, TRUE, TRUE, "true", FALSE, FALSE, stops, 3)] :
     route \in {"generate_stream"}, stops \in StopLists}

\* Every generation route, with tools and without, and every text of two.
AnyStream ==
  {[pieces |-> Whole, ask |-> Ask("POST", route, TRUE, TRUE, stream, tools, tools, <<>>, 2)] :
     route \in GenerationRoutes, stream \in {"true", "false"}, tools \in BOOLEAN}

MCExchanges == AnyHeader \cup AnyRoute \cup AnyText \cup AnyStream

\* Characters in one piece and in several, halves of a character, letters
\* that make up stop sequences, and the markup of calls.
MCVocabulary ==
  {<<"a">>, <<"b">>, <<"a", "b", "L">>, <<"C">>, <<"C", "C", "a">>, <<"L">>, <<"T", "a", "{">>, <<"T">>}
=============================================================================

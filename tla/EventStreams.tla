---------------------------- MODULE EventStreams ----------------------------
(***************************************************************************)
(* What the routes of src/src/server.rs write for one generation: the      *)
(* events of a stream and the answer of a request that does not stream.    *)
(*                                                                         *)
(* An event is [type, index, text, calls, reason]: index is the block (or  *)
(* output item) it belongs to, text what of the generated text it shows,   *)
(* calls the tool calls it shows, reason why the generation finished.  A   *)
(* result is [text, count]: the returned text and the number of tokens.    *)
(***************************************************************************)
EXTENDS TextAssembly

Event(type, index, text, calls) ==
  [type |-> type, index |-> index, text |-> text, calls |-> calls, reason |-> ""]
Mark(type, index) == Event(type, index, <<>>, <<>>)
Signal(type) == Mark(type, 0)
Finish(type, reason) == [Signal(type) EXCEPT !.reason = reason]

GenerationRoutes ==
  {"openai_chat", "openai_completion", "openai_response", "anthropic", "ollama_generate",
   "ollama_chat", "cohere_v1", "cohere_v2", "gemini", "generate", "generate_stream"}

\* Routes that take the tools of a request.
ToolRoutes ==
  {"openai_chat", "openai_response", "anthropic", "ollama_chat", "cohere_v2", "gemini"}

-----------------------------------------------------------------------------
(* Anthropic: content blocks with one running index. *)

AnthropicBlock(index, text, calls) ==
  <<Mark("content_block_start", index),
    Event("content_block_delta", index, text, calls),
    Mark("content_block_stop", index)>>

\* Slip: the index is not advanced past the text.
write_anthropic_stream_content_reuses_index(text, calls) ==
  (IF text # <<>> \/ calls = <<>> THEN AnthropicBlock(0, text, <<>>) ELSE <<>>)
    \o FlattenSeq([i \in DOMAIN calls |-> AnthropicBlock(i - 1, <<>>, <<calls[i]>>)])

write_anthropic_stream_content(text, calls) ==
  LET prose == IF text # <<>> \/ calls = <<>> THEN AnthropicBlock(0, text, <<>>) ELSE <<>>
      first == IF prose = <<>> THEN 0 ELSE 1
  IN  prose \o FlattenSeq([i \in DOMAIN calls |->
                             AnthropicBlock(first + i - 1, <<>>, <<calls[i]>>)])

anthropic_stop_reason(count, max_tokens, calls) ==
  IF calls # <<>> THEN "tool_use" ELSE IF count >= max_tokens THEN "max_tokens" ELSE "end_turn"

AnthropicOpening(tools) ==
  <<Signal("message_start"), Signal("ping")>>
    \o (IF tools THEN <<>> ELSE <<Mark("content_block_start", 0)>>)

AnthropicClosing(tools, result, max_tokens) ==
  LET parsed == parse_mistral_tool_calls(result.text)
  IN  (IF tools THEN write_anthropic_stream_content(parsed.prose, parsed.calls)
       ELSE <<Mark("content_block_stop", 0)>>)
      \o <<Finish("message_delta", anthropic_stop_reason(result.count, max_tokens, parsed.calls)),
           Signal("message_stop")>>

-----------------------------------------------------------------------------
(* OpenAI Responses: output items. *)

write_responses_text_start(index) ==
  <<Mark("output_item.added", index), Mark("content_part.added", index)>>

write_responses_text_done(index, text) ==
  <<Event("output_text.done", index, text, <<>>), Mark("content_part.done", index),
    Mark("output_item.done", index)>>

ResponseCall(index, call) ==
  <<Mark("output_item.added", index),
    Event("function_call_arguments.delta", index, <<>>, <<call>>),
    Mark("function_call_arguments.done", index),
    Mark("output_item.done", index)>>

ResponseOpening(tools) ==
  <<Signal("response.created"), Signal("response.in_progress")>>
    \o (IF tools THEN <<>> ELSE write_responses_text_start(0))

ResponseClosing(tools, result) ==
  LET parsed == parse_mistral_tool_calls(result.text)
      prose  == CASE tools /\ (parsed.prose # <<>> \/ parsed.calls = <<>>) ->
                       write_responses_text_start(0)
                         \o <<Event("output_text.delta", 0, parsed.prose, <<>>)>>
                         \o write_responses_text_done(0, parsed.prose)
                  [] ~tools -> write_responses_text_done(0, parsed.prose)
                  [] OTHER  -> <<>>
      first  == IF prose = <<>> THEN 0 ELSE 1
  IN  prose
      \o FlattenSeq([i \in DOMAIN parsed.calls |-> ResponseCall(first + i - 1, parsed.calls[i])])
      \o <<Event("response.completed", 0, parsed.prose, parsed.calls), Signal("[DONE]")>>

-----------------------------------------------------------------------------
(* OpenAI chat and completion chunks. *)

ChunkClosing(tools, result, usage) ==
  LET parsed == parse_mistral_tool_calls(result.text)
      called == tools /\ parsed.calls # <<>>
  IN  (IF tools /\ parsed.prose # <<>> THEN <<Event("delta", 0, parsed.prose, <<>>)>> ELSE <<>>)
      \o (IF called THEN <<Event("delta", 0, <<>>, parsed.calls)>> ELSE <<>>)
      \o <<Finish("finish", IF called THEN "tool_calls" ELSE "stop")>>
      \o (IF usage THEN <<Signal("usage")>> ELSE <<>>)
      \o <<Signal("[DONE]")>>

-----------------------------------------------------------------------------
(* Cohere v2: the content and each tool call are opened and closed. *)

CohereContent(text) ==
  <<Mark("content-start", 0), Event("content-delta", 0, text, <<>>), Mark("content-end", 0)>>

CohereCall(index, call) ==
  <<Mark("tool-call-start", index), Event("tool-call-delta", index, <<>>, <<call>>),
    Mark("tool-call-end", index)>>

CohereReason(count, max_tokens, calls) ==
  IF calls # <<>> THEN "TOOL_CALL" ELSE IF count >= max_tokens THEN "MAX_TOKENS" ELSE "COMPLETE"

CohereClosing(tools, result, max_tokens) ==
  LET parsed == parse_mistral_tool_calls(result.text)
  IN  (CASE tools /\ parsed.prose # <<>> -> CohereContent(parsed.prose)
         [] ~tools -> <<Mark("content-end", 0)>>
         [] OTHER  -> <<>>)
      \o FlattenSeq([i \in DOMAIN parsed.calls |-> CohereCall(i - 1, parsed.calls[i])])
      \o <<Finish("message-end", CohereReason(result.count, max_tokens, parsed.calls))>>

-----------------------------------------------------------------------------
(* Gemini: the last chunk carries everything when nothing was streamed. *)

GeminiReason(count, max_tokens) == IF count >= max_tokens THEN "MAX_TOKENS" ELSE "STOP"

GeminiClosing(tools, result, max_tokens) ==
  LET parsed == parse_mistral_tool_calls(result.text)
      final  == Finish("finish", GeminiReason(result.count, max_tokens))
  IN  IF tools THEN <<[final EXCEPT !.text = parsed.prose, !.calls = parsed.calls]>> ELSE <<final>>

-----------------------------------------------------------------------------
(* Ollama, Cohere v1 and /generate_stream: the text, then one last event. *)

OllamaChatClosing(tools, result) ==
  LET parsed == parse_mistral_tool_calls(result.text)
  IN  (IF tools THEN <<Event("delta", 0, parsed.prose, parsed.calls)>> ELSE <<>>)
      \o <<Finish("done", "stop")>>

OllamaGenerateClosing == <<Finish("done", "stop")>>

CohereV1Closing(result) == <<Event("stream-end", 0, result.text, <<>>)>>

GenerateStreamClosing(result) == <<Event("generated_text", 0, result.text, <<>>)>>

-----------------------------------------------------------------------------
(* The stream of a route. *)

\* Written before the generation starts.
Opening(route, tools) ==
  CASE route = "openai_chat"     -> <<Signal("role")>>
    [] route = "openai_response" -> ResponseOpening(tools)
    [] route = "anthropic"       -> AnthropicOpening(tools)
    [] route = "cohere_v1"       -> <<Signal("stream-start")>>
    [] route = "cohere_v2"       -> <<Signal("message-start")>>
                                      \o (IF tools THEN <<>> ELSE <<Mark("content-start", 0)>>)
    [] OTHER                     -> <<>>

(* Written for a text that became complete, when no tools were declared. *)
AnthropicDelta(text) == Event("content_block_delta", 0, text, <<>>)
ResponseDelta(text) == Event("output_text.delta", 0, text, <<>>)
CohereDelta(text) == Event("content-delta", 0, text, <<>>)
ChunkDelta(text) == Event("delta", 0, text, <<>>)

\* The n-th token's event carries n.
GenerateStreamDelta(n, text) == Event("delta", n, text, <<>>)

Delta(route, n, text) ==
  CASE route = "anthropic"       -> AnthropicDelta(text)
    [] route = "openai_response" -> ResponseDelta(text)
    [] route = "cohere_v2"       -> CohereDelta(text)
    [] route = "generate_stream" -> GenerateStreamDelta(n, text)
    [] OTHER                     -> ChunkDelta(text)

\* Written after a generation that succeeded.
Closing(route, tools, result, max_tokens, usage) ==
  CASE route \in {"openai_chat", "openai_completion"} -> ChunkClosing(tools, result, usage)
    [] route = "openai_response" -> ResponseClosing(tools, result)
    [] route = "anthropic"       -> AnthropicClosing(tools, result, max_tokens)
    [] route = "cohere_v1"       -> CohereV1Closing(result)
    [] route = "cohere_v2"       -> CohereClosing(tools, result, max_tokens)
    [] route = "gemini"          -> GeminiClosing(tools, result, max_tokens)
    [] route = "ollama_chat"     -> OllamaChatClosing(tools, result)
    [] route = "ollama_generate" -> OllamaGenerateClosing
    [] route = "generate_stream" -> GenerateStreamClosing(result)

\* Written when there is no generation.
Failing(route) ==
  CASE route \in {"openai_chat", "openai_completion"} -> <<Finish("finish", "error"), Signal("[DONE]")>>
    [] route = "openai_response" -> <<Signal("response.failed"), Signal("[DONE]")>>
    [] route \in {"anthropic", "cohere_v2"} -> <<Signal("error")>>
    [] route = "cohere_v1"       -> <<Finish("stream-end", "error")>>
    [] route \in {"ollama_chat", "ollama_generate"} -> <<Finish("done", "error")>>
    [] OTHER                     -> <<Signal("error")>>

-----------------------------------------------------------------------------
(* The answer of a request that does not stream. *)

Reply(text, calls, reason) == [text |-> text, calls |-> calls, reason |-> reason]

OpenAiChatAnswer(prose, calls) == Reply(prose, calls, IF calls = <<>> THEN "stop" ELSE "tool_calls")

AnthropicAnswer(prose, calls, result, max_tokens) ==
  Reply(prose, calls, anthropic_stop_reason(result.count, max_tokens, calls))

CohereAnswer(prose, calls, result, max_tokens) ==
  Reply(prose, calls, CohereReason(result.count, max_tokens, calls))

GeminiAnswer(prose, calls, result, max_tokens) ==
  Reply(prose, calls, GeminiReason(result.count, max_tokens))

make_openai_response(prose, calls) == Reply(prose, calls, "stop")

OllamaChatAnswer(prose, calls) == Reply(prose, calls, "stop")

(* Routes without tools answer with the text as it is. *)
CompletionAnswer(result) == Reply(result.text, <<>>, "stop")
GenerateAnswer(result) == Reply(result.text, <<>>, "stop")
OllamaGenerateAnswer(result) == Reply(result.text, <<>>, "stop")
cohere_v1_response(result) == Reply(result.text, <<>>, "stop")

Answer(route, result, max_tokens) ==
  LET parsed == parse_mistral_tool_calls(result.text)
      prose  == parsed.prose
      calls  == parsed.calls
  IN  CASE route = "openai_chat"       -> OpenAiChatAnswer(prose, calls)
        [] route = "openai_response"   -> make_openai_response(prose, calls)
        [] route = "anthropic"         -> AnthropicAnswer(prose, calls, result, max_tokens)
        [] route = "cohere_v2"         -> CohereAnswer(prose, calls, result, max_tokens)
        [] route = "gemini"            -> GeminiAnswer(prose, calls, result, max_tokens)
        [] route = "ollama_chat"       -> OllamaChatAnswer(prose, calls)
        [] route = "ollama_generate"   -> OllamaGenerateAnswer(result)
        [] route = "openai_completion" -> CompletionAnswer(result)
        [] route = "cohere_v1"         -> cohere_v1_response(result)
        [] OTHER                       -> GenerateAnswer(result)
=============================================================================

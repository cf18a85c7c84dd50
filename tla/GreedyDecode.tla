---------------------------- MODULE GreedyDecode ----------------------------
(***************************************************************************)
(* What generate_chat_stream (src/src/runtime.rs) promises at temperature  *)
(* 0: the text is the prompt continued by the model's greedy token, one    *)
(* after the other, until a stop token, a stop sequence, the token budget  *)
(* or the end of the context.  This is its decode loop without drafts,     *)
(* with the cache and the logits taken away.                               *)
(***************************************************************************)
EXTENDS Integers, Sequences

CONSTANTS
  StopTokens,
  Prompts,         \* rendered prompts
  MaxTokens,       \* options.max_tokens
  MaxContext,      \* effective_max_context
  GreedyToken(_),  \* the token sampling picks after a sequence of tokens
  EndsText(_)      \* the text of a sequence of tokens ends in a stop sequence

VARIABLES
  emitted,     \* the prompt and the generated tokens
  prompt_len,
  done

vars == <<emitted, prompt_len, done>>

cache_len_for(len) ==
  IF MaxContext <= len + MaxTokens + 1 THEN MaxContext ELSE len + MaxTokens + 1

\* The token does not become part of the text.
Stops(text, token) == token \in StopTokens \/ EndsText(Append(text, token))

\* No token follows: the budget is spent, or the last one has no position.
Full(text, len) == Len(text) - len >= MaxTokens \/ Len(text) - 1 >= cache_len_for(len)

Init ==
  /\ emitted \in Prompts
  /\ prompt_len = Len(emitted)
  /\ done = FALSE

Emit ==
  /\ ~done
  /\ ~Stops(emitted, GreedyToken(emitted))
  /\ emitted' = Append(emitted, GreedyToken(emitted))
  /\ done' = Full(emitted', prompt_len)
  /\ UNCHANGED prompt_len

Stop ==
  /\ ~done
  /\ Stops(emitted, GreedyToken(emitted))
  /\ done' = TRUE
  /\ UNCHANGED <<emitted, prompt_len>>

Next == Emit \/ Stop

Spec == Init /\ [][Next]_vars /\ WF_vars(Next)
=============================================================================

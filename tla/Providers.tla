------------------------------ MODULE Providers ------------------------------
(***************************************************************************)
(* What a provider client makes of an HTTP response (router/providers): an *)
(* answer, an error after which the next entry of the chain is tried, one  *)
(* that ends the run, or an uncaught one; the token accounting of an       *)
(* answer, normalised to `Usage`; and the split of its cached tokens over  *)
(* the prompt's layers.                                                    *)
(*                                                                         *)
(* A body is a message, whose text may be empty; bare (an object without   *)
(* choices or message); an error object; an object with a field of a type  *)
(* its reader cannot take (choices that are a string, a null text part, a  *)
(* message or usage that is no object, a count that is no number); another *)
(* JSON value; or no JSON.  Status 0 stands for no response: a timeout or  *)
(* a transport error.                                                      *)
(***************************************************************************)
EXTENDS Integers, Sequences, Functions

\* The families a client is wired for; the loader accepts one more.
Wired == {"ollama", "openai", "aggregator"}
Families == Wired \cup {"anthropic"}

Bodies == {"message", "bare", "error", "misshapen", "list", "garbage"}

Response == [status : Nat, body : Bodies,
             prompt : Nat, completion : Nat, cached : Nat, written : Nat]

Usage == [input : Nat, output : Nat, read : Nat, write : Nat]

\* Every error of a request is worth another provider.
Mutant_RetryableStatus(status) == status >= 400

RetryableStatus(status) == status \in {408, 409, 429} \/ status >= 500

\* What complete() raises ProviderError for, if anything; a local model
\* that has nothing to say has answered.
Retryable(family, response) ==
  \/ response.status = 0
  \/ response.status >= 400 /\ RetryableStatus(response.status)
  \/ /\ response.status \in 1..399
     /\ \/ response.body \in {"list", "garbage", "error"}
        \/ response.body = "bare" /\ family # "ollama"

Refused(response) ==
  response.status >= 400 /\ ~RetryableStatus(response.status)

\* complete() raises AttributeError, KeyError, TypeError or ValueError, which
\* nobody catches: `_post` has returned, and ProviderError alone is expected.
Crashes(response) ==
  response.status \in 1..399 /\ response.body = "misshapen"

Answered(family, response) ==
  ~Retryable(family, response) /\ ~Refused(response) /\ ~Crashes(response)

-----------------------------------------------------------------------------
Smaller(a, b) == IF a <= b THEN a ELSE b

\* `prompt` is the total and includes what was cached; a report of more
\* cached tokens than there are is cut down, reads first.
ParseOpenAIUsage(response) ==
  LET read == Smaller(response.cached, response.prompt)
  IN  [input |-> response.prompt, output |-> response.completion,
       read |-> read, write |-> Smaller(response.written, response.prompt - read)]

\* A local model caches too, but bills nothing for it.
ParseOllamaUsage(response) ==
  [input |-> response.prompt, output |-> response.completion,
   read |-> 0, write |-> 0]

ParseUsage(family, response) ==
  IF family = "ollama" THEN ParseOllamaUsage(response)
                       ELSE ParseOpenAIUsage(response)

-----------------------------------------------------------------------------
(* attribute_cache_to_breakpoints: a prefix cache fills the layers in the  *)
(* order they were assembled.  `rooms` is a layer's size in tokens.        *)

Total(layers) == SumFunction(layers)

Fill(amount, rooms) ==
  [i \in DOMAIN rooms |->
     LET rest == amount - Total(SubSeq(rooms, 1, i - 1))
     IN  IF rest <= 0 THEN 0 ELSE Smaller(rooms[i], rest)]

\* Written tokens may land where read ones already are.
Mutant_Attribution(usage, layers) ==
  LET hit == Fill(usage.read, layers)
      write == Fill(usage.write, layers)
  IN  [hit |-> Total(hit), write |-> Total(write),
       miss |-> Total([i \in DOMAIN layers |->
                         layers[i] - Smaller(layers[i], hit[i] + write[i])])]

\* The sums over the layers: the split matters to no total but these.
Attribution(usage, layers) ==
  LET hit == Fill(usage.read, layers)
      left == [i \in DOMAIN layers |-> layers[i] - hit[i]]
      write == Fill(usage.write, left)
  IN  [hit |-> Total(hit), write |-> Total(write),
       miss |-> Total([i \in DOMAIN layers |-> left[i] - write[i]])]

NoStats == [hit |-> 0, write |-> 0, miss |-> 0]

PlusStats(stats, more) ==
  [hit |-> stats.hit + more.hit, write |-> stats.write + more.write,
   miss |-> stats.miss + more.miss]

EligibleTokens(stats) == stats.hit + stats.write + stats.miss
=============================================================================
